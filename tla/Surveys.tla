------------------------------- MODULE Surveys -------------------------------
(* Phones hand in surveys and, later, the recordings that belong to them, over and    *)
(* over until they are told that the server has them.  A request is a sequence of      *)
(* steps on the database and the disk; it may die, or its answer be lost, after any.   *)
(* Two keys may hand in the same survey: a phone that lost its key gets another one.   *)
EXTENDS SurveyForms

CONSTANTS
  Keys,         \* the keys of devices
  Bodies,       \* what may be handed in, all under one idLocal
  Sounds,       \* the contents a recording of the one segment may have
  Requests,     \* the requests the server may work on at once
  MaxRequests   \* bound on the number of requests

ASSUME SurveyConstants ==
  /\ MaxRequests \in Nat
  /\ \A b \in Bodies : b.ubicacion.kind \in {"absent", "null", "taken", "missing"}

VARIABLES
  device,       \* [Keys -> {"unknown", "active", "revoked"}]
  survey,       \* the rows of the survey: none or one
  audio,        \* the rows of the segment: none or one
  blobs,        \* the recordings on disk, each under the hash of its content
  request,      \* [Requests -> what the request is about to do]
  told,         \* the answers that reached a phone
  begun, ids    \* how many requests were begun and ids of rows given out

surveyVars == <<device, survey, audio, blobs, request, told, begun, ids>>

NoRequest == [pc |-> "none"]

(* What a 422 says is that the body will never do; the version has a code of its own.  *)
Refusal(b) ==
  CASE b.version = 0 -> "invalid"               \* not a positive whole number
    [] b.version \notin Supported \cup {0} -> "unsupported"
    [] b.version \in Supported /\ ~Accepted(b) -> "invalid"
    [] OTHER -> "none"

SurveysInit ==
  /\ device = [k \in Keys |-> "unknown"]
  /\ survey = {} /\ audio = {} /\ blobs = {} /\ told = {}
  /\ request = [r \in Requests |-> NoRequest]
  /\ begun = 0 /\ ids = 0

-----------------------------------------------------------------------------
(* Devices.  A lost key is not given again: the device is revoked, another registered. *)
RegisterDevice(k) ==
  /\ device[k] = "unknown" /\ device' = [device EXCEPT ![k] = "active"]
  /\ UNCHANGED <<survey, audio, blobs, request, told, begun, ids>>

RevokeDevice(k) ==
  /\ device[k] = "active" /\ device' = [device EXCEPT ![k] = "revoked"]
  /\ UNCHANGED <<survey, audio, blobs, request, told, begun, ids>>

-----------------------------------------------------------------------------
Becomes(r, next) == request' = [request EXCEPT ![r] = next]
Goes(r, pc) == Becomes(r, [request[r] EXCEPT !.pc = pc])
Replies(r, status, id) ==
  Becomes(r, [request[r] EXCEPT !.pc = "reply", !.status = status, !.id = id])
In(r, pc) == request[r].pc = pc

(* The key is looked at once, when the request arrives.                                *)
Authenticated(k) == device[k] = "active"

Arrives(r, k) ==
  /\ request[r] = NoRequest /\ begun < MaxRequests /\ Authenticated(k)
  /\ begun' = begun + 1
  /\ UNCHANGED <<device, survey, audio, blobs, told, ids>>

SurveyRequest(k, b) ==
  [pc |-> "insert survey", what |-> "survey", key |-> k, body |-> b, status |-> "none", id |-> 0]

PostSurvey(r, k, b) ==
  /\ Arrives(r, k)
  /\ Becomes(r, IF Refusal(b) = "none" THEN SurveyRequest(k, b)
                ELSE [SurveyRequest(k, b) EXCEPT !.pc = "reply", !.status = Refusal(b)])

(* The one INSERT of a survey: idLocal is unique, whoever hands it in.                 *)
InsertSurvey(r) ==
  /\ In(r, "insert survey")
  /\ IF survey = {}
     THEN /\ survey' = {[remote |-> ids + 1, key |-> request[r].key,
                         hash |-> Canonical(request[r].body),
                         row |-> mapEncuestaToRow(request[r].body)]}
          /\ ids' = ids + 1
          /\ Replies(r, "created", ids + 1)
     ELSE Goes(r, "find survey") /\ UNCHANGED <<survey, ids>>
  /\ UNCHANGED <<device, audio, blobs, told, begun>>

FindSurvey(r) ==
  /\ In(r, "find survey")
  /\ \E s \in survey :
       IF s.hash = Canonical(request[r].body) THEN Replies(r, "known", s.remote)
       ELSE Replies(r, "conflict", 0)
  /\ UNCHANGED <<device, survey, audio, blobs, told, begun, ids>>

-----------------------------------------------------------------------------
(* Recordings.  The survey is looked for among those of the key; what arrived is        *)
(* compared with what the form declares.                                                *)
OwnSurvey(k) == \E s \in survey : s.key = k

\* a plausible mistake for AudioRequest: the row is written without the file
RowOnlyRequest(k, sound) ==
  [pc |-> "look", what |-> "audio", key |-> k, sound |-> sound, again |-> FALSE,
   status |-> "none", id |-> 0]

AudioRequest(k, sound) ==
  [pc |-> "store blob", what |-> "audio", key |-> k, sound |-> sound, again |-> FALSE,
   status |-> "none", id |-> 0]

PostAudio(r, k, declared, received) ==
  /\ Arrives(r, k)
  /\ LET req == AudioRequest(k, declared)
     IN  Becomes(r, IF ~OwnSurvey(k) THEN [req EXCEPT !.pc = "reply", !.status = "not found"]
                    ELSE IF declared # received THEN [req EXCEPT !.pc = "reply", !.status = "invalid"]
                    ELSE req)

(* The file has its name once it is whole.                                              *)
StoreBlob(r) ==
  /\ In(r, "store blob") /\ blobs' = blobs \cup {request[r].sound}
  /\ Goes(r, "look")
  /\ UNCHANGED <<device, survey, audio, told, begun, ids>>

LookForSegment(r) ==
  /\ In(r, "look")
  /\ IF audio = {} THEN Goes(r, "insert audio")
     ELSE \E a \in audio : IF a.sound = request[r].sound THEN Replies(r, "known", a.id)
                           ELSE Becomes(r, [request[r] EXCEPT !.pc = "replace", !.id = a.id])
  /\ UNCHANGED <<device, survey, audio, blobs, told, begun, ids>>

(* A segment another request has inserted meanwhile is looked for once more.            *)
InsertSegment(r) ==
  /\ In(r, "insert audio")
  /\ IF audio = {}
     THEN /\ audio' = {[id |-> ids + 1, sound |-> request[r].sound]} /\ ids' = ids + 1
          /\ Replies(r, "created", ids + 1)
     ELSE /\ ~request[r].again
          /\ Becomes(r, [request[r] EXCEPT !.pc = "look", !.again = TRUE])
          /\ UNCHANGED <<audio, ids>>
  /\ UNCHANGED <<device, survey, blobs, told, begun>>

(* Another content replaces the one there is, under the same id.                        *)
Replaced(id, sound) == [id |-> id, sound |-> sound]

ReplaceSegment(r) ==
  /\ In(r, "replace") /\ audio' = {Replaced(request[r].id, request[r].sound)}
  /\ Replies(r, "known", request[r].id)
  /\ UNCHANGED <<device, survey, blobs, told, begun, ids>>

-----------------------------------------------------------------------------
Reply(r) ==
  /\ In(r, "reply") /\ told' = told \cup {request[r]} /\ Becomes(r, NoRequest)
  /\ UNCHANGED <<device, survey, audio, blobs, begun, ids>>

(* The server dies, the database or the disk refuse, or the answer is lost.             *)
Lose(r) ==
  /\ request[r] # NoRequest /\ Becomes(r, NoRequest)
  /\ UNCHANGED <<device, survey, audio, blobs, told, begun, ids>>

SurveysNext ==
  \/ \E k \in Keys : RegisterDevice(k) \/ RevokeDevice(k)
  \/ \E r \in Requests, k \in Keys :
       \/ \E b \in Bodies : PostSurvey(r, k, b)
       \/ \E declared, received \in Sounds : PostAudio(r, k, declared, received)
  \/ \E r \in Requests :
       \/ InsertSurvey(r) \/ FindSurvey(r)
       \/ StoreBlob(r) \/ LookForSegment(r) \/ InsertSegment(r) \/ ReplaceSegment(r)
       \/ Reply(r) \/ Lose(r)

SurveysSpec == SurveysInit /\ [][SurveysNext]_surveyVars

-----------------------------------------------------------------------------
ToldOf(what, statuses) == {a \in told : a.what = what /\ a.status \in statuses}
Acked == {"created", "known"}

(* What somebody typed into a row: the CSV may print two different texts, or two lists   *)
(* of names, alike.                                                                      *)
Typed(row) ==
  <<row.encuestador, row.app, Cell(row.respuestas, "preferenciaOtro"),
    Cell(row.respuestas, "empresarios"), Cell(row.respuestas, "politicos")>>

(* A phone drops a survey from its queue at a 2xx and gives it up at a 409.  A 2xx is   *)
(* right: the row says exactly what the phone sent, under the id it was told; a 409 is  *)
(* right too: what is stored says something else, in a text that was typed or in what    *)
(* a reviewer sees, because the line of the CSV is not the one that the refused survey    *)
(* would have had.                                                                        *)
AnswersAreTrue ==
  /\ \A a \in ToldOf("survey", Acked) :
       \E s \in survey : s.remote = a.id /\ s.row = mapEncuestaToRow(a.body)
  /\ \A a \in ToldOf("survey", {"conflict"}) :
       \E s \in survey : LET refused == mapEncuestaToRow(a.body)
                         IN  Typed(s.row) = Typed(refused) => toCsvRow(s.row) # toCsvRow(refused)

(* There is a whole file behind every row of a recording, whatever died on the way and   *)
(* in whatever order two uploads of the segment were worked on; and the id a phone was   *)
(* told stays the id of the recording, also when another content replaces it or the      *)
(* upload was repeated by a second request in between.                                   *)
RecordingsAreKept ==
  /\ \A a \in audio : a.sound \in blobs
  /\ \A a \in ToldOf("audio", Acked) : \E n \in audio : n.id = a.id
=============================================================================
