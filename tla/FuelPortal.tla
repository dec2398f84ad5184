----------------------------- MODULE FuelPortal -------------------------------
(* The form in which an operator captures a load of fuel without a password.  The page   *)
(* has a token that the server takes once, checks operator and unit before it shows the   *)
(* second half of the form, and sends the capture; every answer may be late or lost.      *)
EXTENDS Integers, Sequences, FiniteSets

CONSTANTS
  Tanks,        \* units, by their economic number
  NoTank,
  MaxFillings,  \* bound on how often the form is filled in
  MaxTokens,    \* bound on the tokens the server gives out
  MaxPosts      \* bound on the captures that are sent

ASSUME PortalConstants == NoTank \notin Tanks /\ {MaxFillings, MaxTokens, MaxPosts} \subseteq Nat

VARIABLES
  tokens,       \* Redis: the tokens that may still be used
  given,        \* how many were given out
  captures,     \* PostgreSQL: the captures that wait for a review, a folio is an index
  portal,       \* the page
  posts         \* the captures that were sent

portalVars == <<tokens, given, captures, portal, posts>>

NoToken == 0
Folios == DOMAIN captures

(* What a page has when it opens; it asks for a token and the stations at once.            *)
Blank(filling) ==
  [filling |-> filling, token |-> NoToken, loading |-> TRUE, loadError |-> FALSE,
   typed |-> NoTank, verified |-> NoTank, verifying |-> NoTank,
   captcha |-> FALSE, sending |-> FALSE, folio |-> 0]

PortalInit ==
  tokens = {} /\ given = 0 /\ captures = <<>> /\ posts = <<>> /\ portal = Blank(1)

(* The page is opened again: the operator fills it in knowing so.                         *)
OpenPortal ==
  /\ portal.filling < MaxFillings /\ portal' = Blank(portal.filling + 1)
  /\ UNCHANGED <<tokens, given, captures, posts>>

(* "Reintentar", under the banner that a load which failed leaves on the form, the first   *)
(* load or one for another capture, whatever token the page has.                           *)
LoadInitialData ==
  /\ portal.folio = 0 /\ portal.loadError
  /\ portal' = [portal EXCEPT !.loading = TRUE, !.loadError = FALSE]
  /\ UNCHANGED <<tokens, given, captures, posts>>

(* issueCsrfToken; the stations or the answer may fail, and the token it had stays.       *)
TokenIsIssued(arrives) ==
  /\ portal.loading /\ given < MaxTokens
  /\ given' = given + 1 /\ tokens' = tokens \cup {given'}
  /\ portal' = [portal EXCEPT !.loading = FALSE, !.loadError = ~arrives,
                              !.token = IF arrives THEN given' ELSE @]
  /\ UNCHANGED <<captures, posts>>

(* Redis or the network fails: there is no token at all.                                  *)
LoadFails ==
  /\ portal.loading /\ portal' = [portal EXCEPT !.loading = FALSE, !.loadError = TRUE]
  /\ UNCHANGED <<tokens, given, captures, posts>>

(* Ten minutes.                                                                           *)
TokenExpires ==
  /\ \E token \in tokens : tokens' = tokens \ {token}
  /\ UNCHANGED <<given, captures, portal, posts>>

(* The fields stay open while the answer is on its way: they close when it is there.       *)
TypeTank(tank) ==
  /\ portal.folio = 0 /\ portal.verified = NoTank /\ portal.typed # tank
  /\ portal' = [portal EXCEPT !.typed = tank]
  /\ UNCHANGED <<tokens, given, captures, posts>>

HandleVerify ==
  /\ portal.folio = 0 /\ portal.verified = NoTank
  /\ portal.typed # NoTank /\ portal.verifying = NoTank
  /\ portal' = [portal EXCEPT !.verifying = portal.typed]
  /\ UNCHANGED <<tokens, given, captures, posts>>

VerifyIsAnswered(eligible) ==
  /\ portal.verifying # NoTank
  /\ portal' = [portal EXCEPT !.verifying = NoTank, !.verified = IF eligible THEN portal.verifying ELSE NoTank]
  /\ UNCHANGED <<tokens, given, captures, posts>>

ChangeIdentity ==
  /\ portal.folio = 0 /\ portal.verified # NoTank
  /\ portal' = [portal EXCEPT !.verified = NoTank, !.typed = NoTank]
  /\ UNCHANGED <<tokens, given, captures, posts>>

CaptchaIsSolved(solved) ==
  /\ portal.folio = 0 /\ portal.captcha # solved /\ portal' = [portal EXCEPT !.captcha = solved]
  /\ UNCHANGED <<tokens, given, captures, posts>>

(* The button: the second half of the form is there, complete, and not on its way.          *)
MaySubmit == portal.folio = 0 /\ portal.verified # NoTank /\ portal.captcha /\ ~portal.sending

HandleSubmit ==
  /\ MaySubmit /\ Len(posts) < MaxPosts
  /\ posts' = Append(posts, [token |-> portal.token, tank |-> portal.typed, filling |-> portal.filling,
                             step |-> "sent", folio |-> 0])
  /\ portal' = [portal EXCEPT !.sending = TRUE]
  /\ UNCHANGED <<tokens, given, captures>>

\* a plausible mistake for Consumed: the token is read and left where it is
ConsumedNever(post) == tokens

(* getdel: whoever reads the token takes it, whatever becomes of the capture.              *)
Consumed(post) == tokens \ {post.token}

(* The schema asks for a token, then the token is taken, then the captcha, the unit, the   *)
(* operator, the station and the odometer are checked: sound, if they all are in order.    *)
PostIsTaken(i, sound) ==
  LET post == posts[i]
      taken == sound /\ post.token \in tokens
  IN  /\ post.step = "sent"
      /\ tokens' = Consumed(post)
      /\ captures' = IF taken THEN Append(captures, [tank |-> post.tank, filling |-> post.filling]) ELSE captures
      /\ posts' = [posts EXCEPT ![i].step = "handled", ![i].folio = IF taken THEN Len(captures') ELSE 0]
      /\ UNCHANGED <<given, portal>>

(* An error, of the server or of the network, renews the captcha and leaves the token.     *)
(* The page would also verify again if the error told what is available, but no refusal of *)
(* a capture does.                                                                         *)
AfterSubmit(folio) ==
  [portal EXCEPT !.sending = FALSE, !.folio = folio, !.captcha = @ /\ folio # 0]

Forgotten(i) == posts' = [posts EXCEPT ![i].step = "over"]

PostComesBack(i) ==
  /\ posts[i].step = "handled" /\ Forgotten(i)
  /\ IF posts[i].filling = portal.filling
     THEN portal' = AfterSubmit(posts[i].folio)
     ELSE UNCHANGED portal
  /\ UNCHANGED <<tokens, given, captures>>

(* The answer is lost: the page says so at once, and the request may still be handled.     *)
PostIsLost(i) ==
  /\ posts[i].filling = portal.filling /\ portal.sending /\ i = Len(posts) /\ posts[i].step # "over"
  /\ portal' = AfterSubmit(0)
  /\ posts' = IF posts[i].step = "handled" THEN [posts EXCEPT ![i].step = "over"]
              ELSE [posts EXCEPT ![i].filling = -@]
  /\ UNCHANGED <<tokens, given, captures>>

(* "Registrar otra carga": operator and unit stay, the token is asked for again.           *)
RegisterAnother ==
  /\ portal.folio # 0 /\ portal.filling < MaxFillings
  /\ portal' = [portal EXCEPT !.filling = @ + 1, !.folio = 0, !.captcha = FALSE,
                              !.loading = TRUE, !.loadError = FALSE]
  /\ UNCHANGED <<tokens, given, captures, posts>>

PortalNext ==
  \/ OpenPortal \/ LoadInitialData \/ LoadFails \/ TokenExpires \/ HandleVerify \/ ChangeIdentity \/ HandleSubmit
  \/ RegisterAnother
  \/ \E ok \in BOOLEAN : TokenIsIssued(ok) \/ VerifyIsAnswered(ok) \/ CaptchaIsSolved(ok)
  \/ \E tank \in Tanks : TypeTank(tank)
  \/ \E i \in DOMAIN posts :
       PostComesBack(i) \/ PostIsLost(i) \/ \E sound \in BOOLEAN : PostIsTaken(i, sound)

PortalSpec == PortalInit /\ [][PortalNext]_portalVars

-----------------------------------------------------------------------------
(* A form that is filled in once, and sent as often as its operator likes because no        *)
(* answer came, is one capture at most; and the folio on the screen is that of a capture    *)
(* of this form: handleSubmit of the page, consumeCsrfToken and createPublicFuelLoad.      *)
FillingOf(folio) == IF captures[folio].filling < 0 THEN -captures[folio].filling ELSE captures[folio].filling

OneCapturePerForm ==
  /\ \A f, g \in Folios : FillingOf(f) = FillingOf(g) => f = g
  /\ portal.folio # 0 => FillingOf(portal.folio) = portal.filling
=============================================================================
