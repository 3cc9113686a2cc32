--------------------------------- MODULE Depot ---------------------------------
(***************************************************************************)
(* The pieces of a file: metadata in PostgreSQL, contents on a disk or in  *)
(* S3, and no transaction over the two (document/service.go, adapters/     *)
(* storage, adapters/postgres/documents.go, adapters/web/documents.go).    *)
(*                                                                         *)
(* A caller of Upload is a request of the server or a command that seeds   *)
(* an instance.  Each write is a step of its own, may fail, and may fail   *)
(* after it has been applied: the caller only knows the error.  A context  *)
(* that is cancelled makes sure that a call fails (to PostgreSQL, to S3)   *)
(* or changes nothing (on a disk): it adds no behaviour to these.          *)
(*                                                                         *)
(* PostgreSQL and S3 have written what they have confirmed.  On a disk     *)
(* nothing asks for that (Filesystem.Save has no Sync): the kernel does it *)
(* later, nobody knows when, and a power cut takes what it had not         *)
(* written, whole or in part.                                              *)
(***************************************************************************)
EXTENDS Naturals

CONSTANTS
    Appelants,      \* the goroutines that upload
    Documents,      \* identifiers; NewID draws one that nothing holds
    Aucun           \* no identifier

ASSUME DepotAssumption == Documents \subseteq Nat /\ Aucun \notin Documents

VARIABLES
    lignes,         \* table documents
    stockage,       \* AVANTI_STORAGE_BACKEND
    contenus,       \* the keys the storage holds, with their whole contents
    enCache,        \* those of them written since it has power, never synchronised
    confirmees,     \* history: the pieces whose caller was told of a success
    perdues,        \* history: the rows committed by a statement that failed
    emportees,      \* history: the rows whose contents a power cut took
    pc,             \* where each call of Upload is
    piece           \* its document

magasin == <<stockage, contenus, enCache>>
tables == <<lignes, confirmees, perdues, emportees, magasin>>
depot == <<tables, pc, piece>>

Pas == {"attente", "ecrire", "inserer", "nettoyer", "confirmer"}

Stockages == {"filesystem", "s3"}

DepotInit ==
    /\ stockage \in Stockages
    /\ lignes = {} /\ contenus = {} /\ enCache = {}
    /\ confirmees = {} /\ perdues = {} /\ emportees = {}
    /\ pc = [p \in Appelants |-> "attente"]
    /\ piece = [p \in Appelants |-> Aucun]

EnCours(p) == pc[p] # "attente"

Aller(p, pas) == pc' = [pc EXCEPT ![p] = pas]

Rendre(p) ==
    /\ Aller(p, "attente")
    /\ piece' = [piece EXCEPT ![p] = Aucun]

Tirable(d) == d \notin lignes \cup contenus /\ \A p \in Appelants : piece[p] # d

(* buildDocument, and before it what a handler checks of the file and of   *)
(* its target: refused, or an identifier is drawn.                         *)
Controler(p) ==
    /\ ~EnCours(p)
    /\ \/ Rendre(p)
       \/ \E d \in Documents :
             /\ Tirable(d) /\ \A e \in Documents : Tirable(e) => d <= e
             /\ piece' = [piece EXCEPT ![p] = d]
             /\ Aller(p, "ecrire")
    /\ UNCHANGED tables

(* S3.Save: one PUT, which S3 has written when it answers.                 *)
SauverS3(d) ==
    /\ stockage = "s3"
    /\ contenus' = contenus \cup {d}
    /\ UNCHANGED <<stockage, enCache>>

(* Filesystem.Save: a temporary file, then a link publishes it under its   *)
(* key; neither is synchronised.                                           *)
SauverFichier(d) ==
    /\ stockage = "filesystem"
    /\ contenus' = contenus \cup {d}
    /\ enCache' = enCache \cup {d}
    /\ UNCHANGED stockage

Sauver(d) == SauverS3(d) \/ SauverFichier(d)

(* Storage.Delete *)
Supprimer(d) ==
    /\ contenus' = contenus \ {d}
    /\ enCache' = enCache \ {d}
    /\ UNCHANGED stockage

(* Mutation: the error of Save is lost. *)
EcrireContenuSansErreur(p) ==
    /\ pc[p] = "ecrire"
    /\ Sauver(piece[p]) \/ UNCHANGED magasin
    /\ Aller(p, "inserer")
    /\ UNCHANGED <<lignes, confirmees, perdues, emportees, piece>>

(* Upload calls Storage.Save: done, and the size is the one that was       *)
(* announced, or it is not and the contents will be deleted; or it fails   *)
(* before the contents are there or after, and nothing removes them.       *)
EcrireContenu(p) ==
    /\ pc[p] = "ecrire"
    /\ \/ /\ Sauver(piece[p])
          /\ Aller(p, "inserer") \/ Aller(p, "nettoyer")
          /\ UNCHANGED piece
       \/ /\ Sauver(piece[p]) \/ UNCHANGED magasin
          /\ Rendre(p)
    /\ UNCHANGED <<lignes, confirmees, perdues, emportees>>

(* Mutation: the error of Create is lost. *)
InsererSansErreur(p, base) ==
    /\ pc[p] = "inserer"
    /\ lignes' \in {lignes, lignes \cup {piece[p]}}
    /\ Aller(p, "confirmer")
    /\ UNCHANGED <<magasin, confirmees, perdues, emportees, piece>>

(* DocumentRepo.Create, one INSERT through the pool: done, or failed with  *)
(* the row (the client hangs up or the connection is lost while it is      *)
(* committed) or without it.                                               *)
Inserer(p, base) ==
    /\ pc[p] = "inserer"
    /\ \/ /\ base
          /\ lignes' = lignes \cup {piece[p]}
          /\ \/ Aller(p, "confirmer") /\ UNCHANGED perdues
             \/ Aller(p, "nettoyer") /\ perdues' = perdues \cup {piece[p]}
       \/ /\ Aller(p, "nettoyer")
          /\ UNCHANGED <<lignes, perdues>>
    /\ UNCHANGED <<magasin, confirmees, emportees, piece>>

(* The cleanup, whose own error is dropped, with the context of the failed *)
(* call.  A deletion that a power cut undoes leaves what one that fails    *)
(* leaves.                                                                 *)
Nettoyer(p) ==
    /\ pc[p] = "nettoyer"
    /\ Supprimer(piece[p]) \/ UNCHANGED magasin
    /\ Rendre(p)
    /\ UNCHANGED <<lignes, confirmees, perdues, emportees>>

(* Upload returns the piece: the seed goes on, the handler redirects.      *)
Confirmer(p) ==
    /\ pc[p] = "confirmer"
    /\ confirmees' = confirmees \cup {piece[p]}
    /\ Rendre(p)
    /\ UNCHANGED <<lignes, magasin, perdues, emportees>>

EtapeDepot(p, base) ==
    EcrireContenu(p) \/ Inserer(p, base) \/ Nettoyer(p) \/ Confirmer(p)

(* The power of the machine fails: of what was not synchronised the kernel *)
(* had written some, and the rest is lost; what is read afterwards is on   *)
(* the disk.                                                               *)
PerdreCache ==
    /\ \E perdus \in SUBSET enCache :
          /\ contenus' = contenus \ perdus
          /\ emportees' = emportees \cup (perdus \cap lignes)
    /\ enCache' = {}
    /\ UNCHANGED <<stockage, lignes, confirmees, perdues>>

(* Storage.Open: the contents of a key, if they are there. *)
Ouvrir(d) == d \in contenus

(* The download of a piece that a page lists: the row, then the contents.  *)
Telechargement(d) ==
    IF d \notin lignes THEN "inconnue" ELSE IF Ouvrir(d) THEN "servie" ELSE "panne"

-----------------------------------------------------------------------------
DepotTypeOK ==
    /\ lignes \subseteq Documents /\ contenus \subseteq Documents
    /\ stockage \in Stockages /\ enCache \subseteq Documents
    /\ confirmees \subseteq Documents /\ perdues \subseteq Documents
    /\ emportees \subseteq Documents
    /\ pc \in [Appelants -> Pas]
    /\ piece \in [Appelants -> Documents \cup {Aucun}]

(* Contents first, row second, deletion if the row fails (service.go, over *)
(* Upload): no piece is listed whose download fails, whatever processes    *)
(* die, shutdowns and lost answers come between the two stores.  Two kinds *)
(* are excepted: the rows that were committed by a statement that failed,  *)
(* whose contents are deleted as if there were no row; and those whose     *)
(* contents the power cut took from a disk, which S3 never loses.          *)
PieceEntiere ==
    /\ \A d \in lignes \ (perdues \cup emportees) : Telechargement(d) = "servie"
    /\ stockage = "s3" => emportees = {}

(* A piece whose caller was told that it is stored can be downloaded: no   *)
(* other upload, no cleanup and no process that dies takes it away.  Only  *)
(* a power cut may, on a disk, if the kernel had not written it yet.       *)
PieceConfirmee ==
    \A d \in confirmees : d \notin emportees => Telechargement(d) = "servie"

-----------------------------------------------------------------------------
(* What holds between the steps of the calls: an inductive invariant.      *)

(* What a call knows of its piece. *)
PieceOk(p) ==
    /\ EnCours(p) => piece[p] \in Documents
    /\ pc[p] = "ecrire" => piece[p] \notin lignes \cup contenus
    /\ pc[p] = "inserer" => piece[p] \in contenus \ lignes
    /\ pc[p] = "nettoyer" => piece[p] \notin confirmees /\ piece[p] \notin lignes \ perdues
    /\ pc[p] = "confirmer" => piece[p] \in lignes \cap contenus

(* No two calls have the same piece. *)
PiecesDistinctes ==
    \A p, q \in Appelants : p # q /\ EnCours(p) /\ EnCours(q) => piece[p] # piece[q]

DepotCoherence ==
    /\ lignes \ (perdues \cup emportees) \subseteq contenus
    /\ confirmees \subseteq lignes /\ confirmees \subseteq contenus \cup emportees
    /\ stockage = "s3" => enCache = {} /\ emportees = {}
    /\ \A p \in Appelants : PieceOk(p)
    /\ PiecesDistinctes
=============================================================================
