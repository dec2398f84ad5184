------------------------------ MODULE QaRecords ------------------------------
(* The evidence and the contacts that the phones of two programs hand in, over and     *)
(* over until they are told so, and the ZIP of a program's evidence.  Photos go to the  *)
(* disk under the hash of their content before the rows are written; a file that is     *)
(* being written has its name already.                                                  *)
EXTENDS Integers, FiniteSets, Sequences, SequencesExt

CONSTANTS
  Programas,      \* BUFFALO and LX; a device belongs to one
  Photos,         \* contents of photos
  ClientKeys,     \* the ids phones give to their records
  Uploads,        \* the lists of photos a record may be sent with
  QaRequests,     \* the requests the server may work on at once
  MaxQaRequests,  \* bound on the number of requests
  ZipLimit        \* MAX_QA_EXPORT_RECORDS

ASSUME QaConstants ==
  /\ MaxQaRequests \in Nat /\ ZipLimit \in Nat
  /\ Uploads \subseteq Seq(Photos) \ {<<>>}      \* a record without photos is a 400

VARIABLES
  registro,       \* rows of records: at most one for each clienteRegistroId
  imagen,         \* rows of photos: pairs of program and content
  enlace,         \* which record has which photo
  persona,        \* the row of the one contact, if there is one
  file,           \* [Programas \X Photos -> {"none", "torn", "whole"}]
  hurt,           \* files whose writing has failed
  qaRequest,      \* [QaRequests -> what the request is about to do]
  qaTold,         \* the answers that reached a phone
  qaBegun,        \* how many requests were begun
  qaZip           \* the ZIP: what was counted, and what was written

recordVars == <<registro, imagen, enlace, persona, file, hurt, qaRequest, qaTold, qaBegun, qaZip>>

Idle == [pc |-> "none"]

QaInit ==
  /\ registro = {} /\ imagen = {} /\ enlace = {} /\ persona = {} /\ hurt = {} /\ qaTold = {}
  /\ file = [pi \in Programas \X Photos |-> "none"]
  /\ qaRequest = [r \in QaRequests |-> Idle] /\ qaBegun = 0
  /\ qaZip = [pc |-> "idle", programa |-> "none", records |-> {}, due |-> {}, photos |-> {}, missing |-> {}]

-----------------------------------------------------------------------------
Next1(r, next) == qaRequest' = [qaRequest EXCEPT ![r] = next]
Moves(r, pc) == Next1(r, [qaRequest[r] EXCEPT !.pc = pc])
At1(r, pc) == qaRequest[r].pc = pc
Told(request, status, id) ==
  [pc |-> "reply", what |-> request.what, programa |-> request.programa, photos |-> request.photos,
   status |-> status, id |-> id]
Answers1(r, status, id) == Next1(r, Told(qaRequest[r], status, id))

Begins(r, request) ==
  /\ qaRequest[r] = Idle /\ qaBegun < MaxQaRequests
  /\ qaBegun' = qaBegun + 1 /\ Next1(r, request)
  /\ UNCHANGED <<registro, imagen, enlace, persona, file, hurt, qaTold, qaZip>>

(* A record arrives with its photos.                                                    *)
Ingest(p, key, photos) ==
  [pc |-> "access", what |-> "record", programa |-> p, key |-> key, photos |-> photos, at |-> 1,
   clean |-> FALSE, seen |-> {}, again |-> FALSE]

PostIngest(r, p, key, photos) == Begins(r, Ingest(p, key, photos))

-----------------------------------------------------------------------------
(* processImage: a file that can be accessed is left alone.                             *)
FileOf(request) == <<request.programa, request.photos[request.at]>>
Writing(r, pi) == At1(r, "writing") /\ FileOf(qaRequest[r]) = pi

Stored(request) ==
  IF request.at = Len(request.photos) THEN [request EXCEPT !.pc = "begin", !.clean = FALSE]
  ELSE [request EXCEPT !.pc = "access", !.at = request.at + 1, !.clean = FALSE]

Access(r) ==
  /\ At1(r, "access")
  /\ IF file[FileOf(qaRequest[r])] # "none" THEN Next1(r, Stored(qaRequest[r]))
     ELSE Moves(r, "open")
  /\ UNCHANGED <<registro, imagen, enlace, persona, file, hurt, qaTold, qaBegun, qaZip>>

(* fs.writeFile truncates: what another request has written by now is gone.             *)
BeginWrite(r) ==
  /\ At1(r, "open")
  /\ LET pi == FileOf(qaRequest[r])
     IN  /\ file' = [file EXCEPT ![pi] = "torn"]
         /\ qaRequest' = [s \in QaRequests |->
              IF s = r THEN [qaRequest[r] EXCEPT !.pc = "writing", !.clean = TRUE]
              ELSE IF Writing(s, pi) THEN [qaRequest[s] EXCEPT !.clean = FALSE] ELSE qaRequest[s]]
  /\ UNCHANGED <<registro, imagen, enlace, persona, hurt, qaTold, qaBegun, qaZip>>

EndWrite(r) ==
  /\ At1(r, "writing") /\ Next1(r, Stored(qaRequest[r]))
  /\ file' = IF qaRequest[r].clean THEN [file EXCEPT ![FileOf(qaRequest[r])] = "whole"] ELSE file
  /\ UNCHANGED <<registro, imagen, enlace, persona, hurt, qaTold, qaBegun, qaZip>>

(* The disk is full, or the process dies, in the middle of a file.                      *)
WriteFails(r) ==
  /\ At1(r, "writing") /\ Next1(r, Idle)
  /\ hurt' = hurt \cup {FileOf(qaRequest[r])}
  /\ UNCHANGED <<registro, imagen, enlace, persona, file, qaTold, qaBegun, qaZip>>

-----------------------------------------------------------------------------
(* The transaction: each upsert reads, then inserts or updates.  What another request    *)
(* has committed in between is a P2002, and the transaction is tried once more.          *)
Rows == {[table |-> "registro", of |-> x.key] : x \in registro}
          \cup {[table |-> "imagen", of |-> pi] : pi \in imagen}
Needed(request) ==
  {[table |-> "registro", of |-> request.key]}
    \cup {[table |-> "imagen", of |-> <<request.programa, i>>] : i \in Range(request.photos)}

BeginTransaction(r) ==
  /\ At1(r, "begin")
  /\ Next1(r, [qaRequest[r] EXCEPT !.pc = "commit", !.seen = Rows \cap Needed(qaRequest[r])])
  /\ UNCHANGED <<registro, imagen, enlace, persona, file, hurt, qaTold, qaBegun, qaZip>>

Links(key, request) == {[key |-> key, photo |-> <<request.programa, i>>] : i \in Range(request.photos)}

\* a plausible mistake for Linked: a record sent again has only the photos sent with it
LinkedAnew(request) == {l \in enlace : l.key # request.key} \cup Links(request.key, request)

Linked(request) == enlace \cup Links(request.key, request)

WriteOnce(r) ==
  /\ At1(r, "commit") /\ Rows \cap Needed(qaRequest[r]) = qaRequest[r].seen
  /\ LET q == qaRequest[r]
     IN  /\ registro' = {x \in registro : x.key # q.key} \cup {[key |-> q.key, programa |-> q.programa]}
         /\ imagen' = imagen \cup {<<q.programa, i>> : i \in Range(q.photos)}
         /\ enlace' = Linked(q)
         /\ Answers1(r, "ok", q.key)
  /\ UNCHANGED <<persona, file, hurt, qaTold, qaBegun, qaZip>>

UniqueViolated(r) ==
  /\ At1(r, "commit") /\ Rows \cap Needed(qaRequest[r]) # qaRequest[r].seen
  /\ Next1(r, IF qaRequest[r].again THEN Idle
              ELSE [qaRequest[r] EXCEPT !.pc = "begin", !.again = TRUE])
  /\ UNCHANGED <<registro, imagen, enlace, persona, file, hurt, qaTold, qaBegun, qaZip>>

-----------------------------------------------------------------------------
(* Contacts.  An update stays within the program of the device.                         *)
PostPersona(r, p) ==
  Begins(r, [pc |-> "update", what |-> "contact", programa |-> p, photos |-> <<>>, again |-> FALSE])

TryUpdate(r) ==
  /\ At1(r, "update")
  /\ LET own == {x \in persona : x.programa = qaRequest[r].programa}
     IN  IF own # {} THEN \E x \in own : Answers1(r, "ok", x.id)
         ELSE IF qaRequest[r].again THEN Answers1(r, "conflict", 0)
         ELSE Moves(r, "create")
  /\ UNCHANGED <<registro, imagen, enlace, persona, file, hurt, qaTold, qaBegun, qaZip>>

(* The create that lost against another one asks once more whose row it is.             *)
Refused(request) == [request EXCEPT !.pc = "update", !.again = TRUE]

CreatePersona(r) ==
  /\ At1(r, "create")
  /\ IF persona = {}
     THEN persona' = {[id |-> qaBegun, programa |-> qaRequest[r].programa]} /\ Answers1(r, "ok", qaBegun)
     ELSE Next1(r, Refused(qaRequest[r])) /\ UNCHANGED persona
  /\ UNCHANGED <<registro, imagen, enlace, file, hurt, qaTold, qaBegun, qaZip>>

-----------------------------------------------------------------------------
QaReply(r) ==
  /\ At1(r, "reply") /\ qaTold' = qaTold \cup {qaRequest[r]} /\ Next1(r, Idle)
  /\ UNCHANGED <<registro, imagen, enlace, persona, file, hurt, qaBegun, qaZip>>

(* The process dies elsewhere than in a file, the database refuses, an answer is lost.  *)
QaLose(r) ==
  /\ qaRequest[r] # Idle /\ ~At1(r, "writing") /\ Next1(r, Idle)
  /\ UNCHANGED <<registro, imagen, enlace, persona, file, hurt, qaTold, qaBegun, qaZip>>

-----------------------------------------------------------------------------
(* The ZIP.  How many records there are is counted in one transaction and read, with     *)
(* their photos, by one query of the next; the files are read one by one.                *)
RecordsOf(p) == {x.key : x \in {y \in registro : y.programa = p}}

MeasureExport(p) ==
  /\ qaZip.pc = "idle"
  /\ qaZip' = [qaZip EXCEPT !.programa = p,
                            !.pc = IF Cardinality(RecordsOf(p)) > ZipLimit THEN "failed" ELSE "measured"]
  /\ UNCHANGED <<registro, imagen, enlace, persona, file, hurt, qaRequest, qaTold, qaBegun>>

QueryExport ==
  /\ qaZip.pc = "measured"
  /\ LET keys == RecordsOf(qaZip.programa)
     IN  qaZip' = [qaZip EXCEPT !.pc = "photos", !.records = keys,
                                !.due = {l \in enlace : l.key \in keys}]
  /\ UNCHANGED <<registro, imagen, enlace, persona, file, hurt, qaRequest, qaTold, qaBegun>>

WritePhoto(l) ==
  /\ qaZip.pc = "photos" /\ l \in qaZip.due \ (qaZip.photos \cup qaZip.missing)
  /\ qaZip' = IF file[l.photo] = "none" THEN [qaZip EXCEPT !.missing = @ \cup {l}]
              ELSE [qaZip EXCEPT !.photos = @ \cup {l}]
  /\ UNCHANGED <<registro, imagen, enlace, persona, file, hurt, qaRequest, qaTold, qaBegun>>

(* checked_record_count, again, while the records are written.                          *)
Within(records) == Cardinality(records) <= ZipLimit

PublishZip ==
  /\ qaZip.pc = "photos" /\ qaZip.due = qaZip.photos \cup qaZip.missing
  /\ qaZip' = [qaZip EXCEPT !.pc = IF Within(qaZip.records) THEN "published" ELSE "failed"]
  /\ UNCHANGED <<registro, imagen, enlace, persona, file, hurt, qaRequest, qaTold, qaBegun>>

-----------------------------------------------------------------------------
QaNext ==
  \/ \E r \in QaRequests, p \in Programas :
       \/ \E key \in ClientKeys, photos \in Uploads : PostIngest(r, p, key, photos)
       \/ PostPersona(r, p)
  \/ \E r \in QaRequests :
       \/ Access(r) \/ BeginWrite(r) \/ EndWrite(r) \/ WriteFails(r)
       \/ BeginTransaction(r) \/ WriteOnce(r) \/ UniqueViolated(r)
       \/ TryUpdate(r) \/ CreatePersona(r)
       \/ QaReply(r) \/ QaLose(r)
  \/ \E p \in Programas : MeasureExport(p)
  \/ QueryExport \/ PublishZip \/ \E l \in qaZip.due : WritePhoto(l)

QaSpec == QaInit /\ [][QaNext]_recordVars

-----------------------------------------------------------------------------
BeingWritten(pi) ==
  \E r \in QaRequests : qaRequest[r].pc \in {"open", "writing"} /\ FileOf(qaRequest[r]) = pi

(* A phone that was told its record is there finds it with all the photos it sent, also  *)
(* when the record was sent again with others, from two requests at once; behind every    *)
(* photo is a whole file, unless the writing of that very file has failed once, after      *)
(* which whoever sends the photo again is told that it is there; and a contact has the     *)
(* same id whenever it is sent, in the one program that has it (docs/qa-externa.md).       *)
RecordsAreKept ==
  /\ \A a \in qaTold :
       IF a.what = "record"
       THEN (\E x \in registro : x.key = a.id) /\ Links(a.id, a) \subseteq enlace
       ELSE \E x \in persona : IF a.status = "ok" THEN x = [id |-> a.id, programa |-> a.programa]
                               ELSE x.programa # a.programa
  /\ \A l \in enlace : file[l.photo] = "whole" \/ BeingWritten(l.photo) \/ l.photo \in hurt
=============================================================================
