----------------------------- MODULE FieldProofs -----------------------------
(***************************************************************************)
(* Proofs about what comes in from the field: captures of loads, surveys   *)
(* with their recordings, the downloads of surveys, and records with their *)
(* photos, for any number of phones, forms, requests, tokens, contents and *)
(* batches.                                                                *)
(***************************************************************************)
EXTENDS Surveys, SurveyExport, QaRecords, FuelPortal, SequenceTheorems, FunctionTheorems,
        FiniteSetTheorems, WellFoundedInduction, TLAPS

-----------------------------------------------------------------------------
(* The form of the operators.  A post whose page has given up carries its filling    *)
(* with the sign turned; Own is the filling all the same.                            *)
Own(x) == IF x.filling < 0 THEN -x.filling ELSE x.filling
Units == Tanks \cup {NoTank}

Post == [token : Nat, tank : Units, filling : Int, step : {"sent", "handled", "over"}, folio : Nat]
Captured == [tank : Units, filling : Int]
Page == [filling : Nat, token : Nat, loading : BOOLEAN, loadError : BOOLEAN, typed : Units,
         verified : Units, verifying : Units, captcha : BOOLEAN, sending : BOOLEAN, folio : Nat]

PortalTyped ==
  /\ tokens \subseteq Nat /\ given \in Nat
  /\ captures \in Seq(Captured) /\ posts \in Seq(Post) /\ portal \in Page

(* Tokens that were given out, and fillings that were begun.                         *)
Begun ==
  /\ \A t \in tokens : 0 < t /\ t <= given
  /\ portal.token <= given /\ \A i \in DOMAIN posts : posts[i].token <= given
  /\ 0 < portal.filling
  /\ \A i \in DOMAIN posts : 0 < Own(posts[i]) /\ Own(posts[i]) <= portal.filling
  /\ \A f \in DOMAIN captures : 0 < Own(captures[f]) /\ Own(captures[f]) <= portal.filling

Live(i) == posts[i].token \in tokens

(* The posts of a filling that may still be taken carry one token, which for the     *)
(* filling on the screen is the token of the page.  While the page asks for a token,  *)
(* or may do so because it did not get one, the one it has is worth nothing.         *)
OneToken ==
  /\ \A i, j \in DOMAIN posts :
       Own(posts[i]) = Own(posts[j]) /\ Live(i) /\ Live(j) => posts[i].token = posts[j].token
  /\ \A i \in DOMAIN posts : Own(posts[i]) = portal.filling /\ Live(i) => posts[i].token = portal.token
  /\ portal.loading \/ portal.loadError => portal.token \notin tokens

(* A filling that was captured has no post that may be taken, nor will it have one:   *)
(* its token is spent and the page has no reason to ask for another.                 *)
Spent ==
  /\ \A f \in DOMAIN captures : \A i \in DOMAIN posts : Own(captures[f]) = Own(posts[i]) => ~Live(i)
  /\ \A f \in DOMAIN captures : Own(captures[f]) = portal.filling
       => ~portal.loading /\ ~portal.loadError /\ portal.token \notin tokens

Once == \A f, g \in DOMAIN captures : Own(captures[f]) = Own(captures[g]) => f = g

RightFolio ==
  /\ portal.folio # 0 => /\ portal.folio \in DOMAIN captures
                         /\ Own(captures[portal.folio]) = portal.filling
  /\ \A i \in DOMAIN posts : posts[i].step = "handled" /\ posts[i].folio # 0 =>
       /\ posts[i].folio \in DOMAIN captures /\ Own(captures[posts[i].folio]) = Own(posts[i])

PortalInv == PortalTyped /\ Begun /\ OneToken /\ Spent /\ Once /\ RightFolio

LEMMA PortalStarts == PortalInit => PortalInv
BY PortalConstants
   DEF PortalInit, PortalInv, PortalTyped, Begun, OneToken, Live, Spent, Once, RightFolio,
       Blank, Page, Units, NoToken

(* What the operator types, verifies and solves touches neither token nor filling.   *)
LEMMA PageTurns ==
  ASSUME PortalInv, UNCHANGED <<tokens, given, captures, posts>>, portal' \in Page,
         portal'.filling = portal.filling, portal'.token = portal.token, portal'.folio = portal.folio,
         portal'.loading \/ portal'.loadError => portal.loading \/ portal.loadError
  PROVE  PortalInv'
<1>1. PortalTyped'
  BY DEF PortalInv, PortalTyped
<1>2. Begun'
  BY DEF PortalInv, Begun
<1>3. OneToken'
  BY DEF PortalInv, Begun, OneToken, Live
<1>4. Spent'
  BY DEF PortalInv, Spent, Live
<1>5. Once' /\ RightFolio'
  BY DEF PortalInv, Once, RightFolio
<1> QED
  BY <1>1, <1>2, <1>3, <1>4, <1>5 DEF PortalInv

LEMMA PortalStep == PortalInv /\ [PortalNext]_portalVars => PortalInv'
<1> SUFFICES ASSUME PortalInv, [PortalNext]_portalVars PROVE PortalInv'
  OBVIOUS
<1>0. PortalTyped /\ Begun /\ OneToken /\ Spent /\ Once /\ RightFolio
  BY DEF PortalInv
<1>a. DOMAIN posts = 1..Len(posts) /\ DOMAIN captures = 1..Len(captures) /\ Len(posts) \in Nat /\ Len(captures) \in Nat
  BY <1>0 DEF PortalTyped
<1>b. \A i \in DOMAIN posts : posts[i] \in Post
  BY <1>0 DEF PortalTyped
<1>c. \A i \in DOMAIN posts : posts[i].token \in Nat /\ posts[i].filling \in Int
  BY <1>b DEF Post
<1>d. \A f \in DOMAIN captures : captures[f] \in Captured
  BY <1>0 DEF PortalTyped
<1>e. \A f \in DOMAIN captures : captures[f].filling \in Int
  BY <1>d DEF Captured
<1>f. /\ \A i \in DOMAIN posts : Own(posts[i]) \in Int
      /\ \A f \in DOMAIN captures : Own(captures[f]) \in Int
  BY <1>c, <1>e DEF Own
<1>g. portal \in Page /\ portal.filling \in Nat /\ portal.token \in Nat /\ given \in Nat
  BY <1>0 DEF PortalTyped, Page
<1>1. CASE UNCHANGED portalVars
  BY <1>1, PageTurns DEF portalVars, PortalInv, PortalTyped
<1>2. CASE LoadInitialData \/ LoadFails \/ HandleVerify \/ ChangeIdentity
  <2>1. CASE LoadInitialData
    BY <1>0, <2>1, PageTurns DEF LoadInitialData, PortalTyped, Page
  <2>2. CASE LoadFails
    BY <1>0, <2>2, PageTurns DEF LoadFails, PortalTyped, Page
  <2>3. CASE HandleVerify
    BY <1>0, <2>3, PageTurns, PortalConstants DEF HandleVerify, PortalTyped, Page, Units
  <2>4. CASE ChangeIdentity
    BY <1>0, <2>4, PageTurns, PortalConstants DEF ChangeIdentity, PortalTyped, Page, Units, NoToken
  <2> QED
    BY <1>2, <2>1, <2>2, <2>3, <2>4
<1>3. ASSUME NEW ok \in BOOLEAN, VerifyIsAnswered(ok) \/ CaptchaIsSolved(ok)
      PROVE  PortalInv'
  BY <1>0, <1>3, PageTurns, PortalConstants
     DEF VerifyIsAnswered, CaptchaIsSolved, PortalTyped, Page, Units
<1>4. ASSUME NEW tank \in Tanks, TypeTank(tank)
      PROVE  PortalInv'
  BY <1>0, <1>4, PageTurns DEF TypeTank, PortalTyped, Page, Units
<1>5. CASE OpenPortal \/ RegisterAnother
  <2>1. /\ UNCHANGED <<tokens, given, captures, posts>> /\ portal' \in Page
        /\ portal'.filling = portal.filling + 1 /\ portal'.folio = 0
        /\ portal'.token = 0 \/ (portal'.token = portal.token /\ portal.folio # 0)
    <3>1. CASE OpenPortal
      BY <1>g, <3>1, PortalConstants DEF OpenPortal, Blank, NoToken, Page, Units
    <3>2. CASE RegisterAnother
      <4>1. PICK n \in Nat : n = portal.filling + 1
        BY <1>g
      <4>2. /\ UNCHANGED <<tokens, given, captures, posts>> /\ portal.folio # 0
            /\ portal' = [portal EXCEPT !.filling = n, !.folio = 0, !.captcha = FALSE,
                                        !.loading = TRUE, !.loadError = FALSE]
        BY <3>2, <4>1 DEF RegisterAnother
      <4> QED
        BY <1>g, <4>1, <4>2 DEF Page
    <3> QED
      BY <1>5, <3>1, <3>2
  <2>2. portal'.token \notin tokens /\ portal'.token <= given
    BY <1>0, <2>1 DEF Begun, Spent, RightFolio, PortalTyped
  <2>5. PortalTyped' /\ Begun'
    BY <1>0, <1>f, <1>g, <2>1, <2>2 DEF PortalTyped, Begun
  <2>6. OneToken' /\ Spent'
    BY <1>0, <1>f, <1>g, <2>1, <2>2 DEF OneToken, Spent, Begun, Live
  <2>7. Once' /\ RightFolio'
    BY <1>0, <2>1 DEF Once, RightFolio
  <2> QED
    BY <2>5, <2>6, <2>7 DEF PortalInv
<1>6. ASSUME NEW ok \in BOOLEAN, TokenIsIssued(ok)
      PROVE  PortalInv'
  <2>1. /\ given' = given + 1 /\ tokens' = tokens \cup {given + 1} /\ UNCHANGED <<captures, posts>>
        /\ portal' \in Page /\ portal'.filling = portal.filling /\ portal'.folio = portal.folio
        /\ ~portal'.loading /\ portal.loading /\ portal'.token \in {portal.token, given + 1}
        /\ portal'.loadError => portal'.token = portal.token
    <3>1. CASE ok
      <4>1. PICK n \in Nat : n = given + 1
        BY <1>g
      <4>2. /\ given' = n /\ tokens' = tokens \cup {n} /\ UNCHANGED <<captures, posts>> /\ portal.loading
            /\ portal' = [portal EXCEPT !.loading = FALSE, !.loadError = FALSE, !.token = n]
        BY <1>6, <3>1, <4>1 DEF TokenIsIssued
      <4> QED
        BY <1>g, <4>1, <4>2 DEF Page
    <3>2. CASE ~ok
      BY <1>g, <1>6, <3>2 DEF TokenIsIssued, Page
    <3> QED
      BY <3>1, <3>2
  <2>2. \A i \in DOMAIN posts : posts[i].token \in Nat /\ posts[i].token <= given
    BY <1>0, <1>c DEF Begun
  <2>3. \A i \in DOMAIN posts : Live(i)' <=> Live(i)
    BY <1>0, <2>1, <2>2 DEF Live, PortalTyped
  <2>4. PortalTyped'
    BY <1>0, <2>1 DEF PortalTyped
  <2>5. Begun'
    BY <1>0, <2>1, <2>2 DEF PortalTyped, Begun, Page
  <2>6. OneToken'
    <3>1. \A i \in DOMAIN posts : Own(posts[i]) = portal.filling => ~Live(i)
      BY <1>0, <2>1 DEF OneToken, Live
    <3>2. portal'.loadError => portal'.token \notin tokens'
      <4>1. portal.token \in Nat /\ portal.token <= given /\ portal.token \notin tokens
        BY <1>0, <1>g, <2>1 DEF Begun, OneToken
      <4>2. portal.token # given + 1
        BY <1>g, <4>1
      <4> QED
        BY <2>1, <4>1, <4>2
    <3> QED
      BY <1>0, <2>1, <2>3, <3>1, <3>2 DEF OneToken
  <2>7. Spent'
    BY <1>0, <2>1, <2>3 DEF Spent
  <2>8. Once' /\ RightFolio'
    BY <1>0, <2>1 DEF Once, RightFolio
  <2> QED
    BY <2>4, <2>5, <2>6, <2>7, <2>8 DEF PortalInv
<1>7. CASE TokenExpires
  <2>1. tokens' \subseteq tokens /\ UNCHANGED <<given, captures, portal, posts>>
    BY <1>7 DEF TokenExpires
  <2>2. \A i \in DOMAIN posts : Live(i)' => Live(i)
    BY <2>1 DEF Live
  <2>3. PortalTyped' /\ Begun'
    BY <1>0, <2>1 DEF PortalTyped, Begun
  <2>4. OneToken' /\ Spent'
    BY <1>0, <2>1, <2>2 DEF OneToken, Spent
  <2>5. Once' /\ RightFolio'
    BY <1>0, <2>1 DEF Once, RightFolio
  <2> QED
    BY <2>3, <2>4, <2>5 DEF PortalInv
<1>8. CASE HandleSubmit
  <2> DEFINE p == [token |-> portal.token, tank |-> portal.typed, filling |-> portal.filling,
                   step |-> "sent", folio |-> 0]
  <2>1. /\ posts' = Append(posts, p) /\ UNCHANGED <<tokens, given, captures>>
        /\ portal' \in Page /\ portal'.filling = portal.filling /\ portal'.token = portal.token
        /\ portal'.folio = portal.folio /\ portal'.loading = portal.loading
        /\ portal'.loadError = portal.loadError
    BY <1>0, <1>8 DEF HandleSubmit, PortalTyped, Page
  <2>2. p \in Post /\ Own(p) = portal.filling /\ p.token = portal.token /\ p.step # "handled"
    BY <1>0 DEF PortalTyped, Page, Post, Units, Begun, Own
  <2> HIDE DEF p
  <2>3. /\ posts' \in Seq(Post) /\ DOMAIN posts' = 1..(Len(posts) + 1) /\ posts'[Len(posts) + 1] = p
        /\ \A i \in DOMAIN posts : posts'[i] = posts[i]
    BY <1>0, <1>a, <2>1, <2>2 DEF PortalTyped
  <2>4. \A i \in DOMAIN posts' : (i \in DOMAIN posts /\ posts'[i] = posts[i]) \/ posts'[i] = p
    BY <1>a, <2>3
  <2>5. PortalTyped'
    BY <1>0, <2>1, <2>3 DEF PortalTyped
  <2>6. Begun'
    <3>1. \A i \in DOMAIN posts' : /\ posts'[i].token <= given
                                   /\ 0 < Own(posts'[i]) /\ Own(posts'[i]) <= portal.filling
      BY <1>0, <1>g, <2>2, <2>4 DEF Begun
    <3> QED
      BY <1>0, <2>1, <3>1 DEF Begun
  <2>7. OneToken'
    BY <1>0, <2>1, <2>2, <2>4 DEF OneToken, Live
  <2>8. Spent'
    BY <1>0, <2>1, <2>2, <2>4 DEF Spent, Live
  <2>9. Once' /\ RightFolio'
    BY <1>0, <2>1, <2>2, <2>4 DEF Once, RightFolio
  <2> QED
    BY <2>5, <2>6, <2>7, <2>8, <2>9 DEF PortalInv
<1>9. ASSUME NEW i \in DOMAIN posts, NEW sound \in BOOLEAN, PostIsTaken(i, sound)
      PROVE  PortalInv'
  <2> DEFINE post == posts[i]
             c == [tank |-> post.tank, filling |-> post.filling]
  <2>0. post \in Post
    BY <1>0 DEF PortalTyped
  <2>1. PICK folio \in Nat, p \in Post :
          /\ posts' = [posts EXCEPT ![i] = p] /\ p.step = "handled" /\ p.folio = folio
          /\ p.token = post.token /\ p.filling = post.filling
          /\ tokens' = tokens \ {post.token} /\ UNCHANGED <<given, portal>>
          /\ \/ folio = 0 /\ captures' = captures
             \/ Live(i) /\ captures' = Append(captures, c) /\ folio = Len(captures) + 1
    <3> DEFINE taken == sound /\ post.token \in tokens
    <3>1. CASE taken
      <4> DEFINE p == [post EXCEPT !.step = "handled", !.folio = Len(captures) + 1]
      <4>1. /\ tokens' = tokens \ {post.token} /\ UNCHANGED <<given, portal>>
            /\ captures' = Append(captures, c)
            /\ posts' = [posts EXCEPT ![i].step = "handled", ![i].folio = Len(captures')]
        BY <1>9, <3>1 DEF PostIsTaken, Consumed
      <4>2. c \in Captured
        BY <2>0 DEF Post, Captured
      <4>3. Len(captures') = Len(captures) + 1
        BY <1>0, <4>1, <4>2 DEF PortalTyped
      <4>4. p \in Post /\ p.step = "handled" /\ p.folio = Len(captures) + 1 /\ p.token = post.token /\ p.filling = post.filling
        <5>1. PICK n \in Nat : n = Len(captures) + 1
          BY <1>a
        <5>2. p = [post EXCEPT !.step = "handled", !.folio = n]
          BY <5>1
        <5> HIDE DEF p
        <5> QED
          BY <2>0, <5>1, <5>2 DEF Post
      <4>5. posts' = [posts EXCEPT ![i] = p]
        BY <4>1, <4>3
      <4>6. Len(captures) + 1 \in Nat /\ Live(i)
        BY <1>a, <3>1 DEF Live
      <4> HIDE DEF p, c
      <4> QED
        BY <4>1, <4>4, <4>5, <4>6
    <3>2. CASE ~taken
      <4> DEFINE p == [post EXCEPT !.step = "handled", !.folio = 0]
      <4>1. /\ tokens' = tokens \ {post.token} /\ UNCHANGED <<given, portal>> /\ captures' = captures
            /\ posts' = [posts EXCEPT ![i] = p]
        BY <1>9, <3>2 DEF PostIsTaken, Consumed
      <4>2. p \in Post /\ p.step = "handled" /\ p.folio = 0 /\ p.token = post.token /\ p.filling = post.filling
        BY <2>0 DEF Post
      <4> HIDE DEF p
      <4> QED
        BY <4>1, <4>2, 0 \in Nat
    <3> QED
      BY <3>1, <3>2
  <2>2. c \in Captured /\ Own(c) = Own(post) /\ Own(p) = Own(post)
    BY <2>0, <2>1 DEF Post, Captured, Own
  <2> HIDE DEF c
  <2>3. /\ posts' \in Seq(Post) /\ DOMAIN posts' = DOMAIN posts /\ posts'[i] = p
        /\ \A j \in DOMAIN posts : j # i => posts'[j] = posts[j]
    BY <1>0, <2>1 DEF PortalTyped
  <2>4. \A j \in DOMAIN posts : posts'[j].token = posts[j].token /\ Own(posts'[j]) = Own(posts[j])
    BY <2>1, <2>2, <2>3
  <2>5. \A j \in DOMAIN posts : Live(j)' <=> Live(j) /\ posts[j].token # post.token
    BY <2>1, <2>3, <2>4 DEF Live
  <2>6. /\ captures' \in Seq(Captured) /\ DOMAIN captures \subseteq DOMAIN captures'
        /\ \A f \in DOMAIN captures : captures'[f] = captures[f]
        /\ \A f \in DOMAIN captures' : \/ f \in DOMAIN captures
                                       \/ f = Len(captures) + 1 /\ captures'[f] = c /\ Live(i)
        /\ folio # 0 => folio \in DOMAIN captures' /\ captures'[folio] = c
    <3>1. CASE captures' = captures /\ folio = 0
      BY <1>0, <3>1 DEF PortalTyped
    <3>2. CASE Live(i) /\ captures' = Append(captures, c) /\ folio = Len(captures) + 1
      <4>1. captures \in Seq(Captured)
        BY <1>0 DEF PortalTyped
      <4>2. captures' \in Seq(Captured) /\ Len(captures') = Len(captures) + 1 /\ DOMAIN captures' = 1..(Len(captures) + 1)
        BY <2>2, <3>2, <4>1
      <4>3. \A f \in 1..(Len(captures) + 1) : captures'[f] = IF f = Len(captures) + 1 THEN c ELSE captures[f]
        BY <2>2, <3>2, <4>1, AppendProperties
      <4> QED
        BY <1>a, <3>2, <4>2, <4>3
    <3> QED
      BY <2>1, <3>1, <3>2
  <2>7. PortalTyped'
    BY <1>0, <2>1, <2>3, <2>6 DEF PortalTyped
  <2>8. Begun'
    <3>1. \A t \in tokens' : 0 < t /\ t <= given'
      BY <1>0, <2>1 DEF Begun
    <3>2. \A f \in DOMAIN captures' : 0 < Own(captures'[f]) /\ Own(captures'[f]) <= portal'.filling
      BY <1>0, <2>1, <2>2, <2>6 DEF Begun
    <3> QED
      BY <1>0, <2>1, <2>3, <2>4, <3>1, <3>2 DEF Begun
  <2>9. OneToken'
    BY <1>0, <2>1, <2>3, <2>4, <2>5 DEF OneToken
  <2>10. Spent'
    <3>1. \A f \in DOMAIN captures' : \A j \in DOMAIN posts' : Own(captures'[f]) = Own(posts'[j]) => ~Live(j)'
      BY <1>0, <2>2, <2>3, <2>4, <2>5, <2>6 DEF Spent, OneToken
    <3>2. ASSUME NEW f \in DOMAIN captures', Own(captures'[f]) = portal.filling
          PROVE  ~portal.loading /\ ~portal.loadError /\ portal.token \notin tokens'
      <4>1. CASE f \in DOMAIN captures
        BY <1>0, <2>1, <2>6, <3>2, <4>1 DEF Spent
      <4>2. CASE captures'[f] = c /\ Live(i)
        <5>1. post.token = portal.token /\ post.token \in tokens
          BY <1>0, <2>2, <3>2, <4>2 DEF OneToken, Live
        <5> QED
          BY <1>0, <2>1, <5>1 DEF OneToken, Begun
      <4> QED
        BY <2>6, <4>1, <4>2
    <3> QED
      BY <2>1, <3>1, <3>2 DEF Spent
  <2>11. Once'
    BY <1>0, <2>2, <2>6 DEF Once, Spent
  <2>12. RightFolio'
    BY <1>0, <2>1, <2>2, <2>3, <2>4, <2>6 DEF RightFolio
  <2> QED
    BY <2>7, <2>8, <2>9, <2>10, <2>11, <2>12 DEF PortalInv
<1>10. ASSUME NEW i \in DOMAIN posts, PostComesBack(i) \/ PostIsLost(i)
       PROVE  PortalInv'
  <2> DEFINE post == posts[i]
  <2>0. post \in Post /\ portal \in Page
    BY <1>0 DEF PortalTyped
  <2>1. PICK p \in Post : /\ posts' = [posts EXCEPT ![i] = p] /\ p.step # "handled"
                          /\ p.token = post.token /\ Own(p) = Own(post)
    <3>1. CASE posts' = [posts EXCEPT ![i].step = "over"]
      <4> DEFINE p == [post EXCEPT !.step = "over"]
      <4>1. p \in Post /\ p.step # "handled" /\ p.token = post.token /\ p.filling = post.filling
        BY <2>0 DEF Post
      <4>2. posts' = [posts EXCEPT ![i] = p]
        BY <3>1
      <4> HIDE DEF p
      <4>3. Own(p) = Own(post)
        BY <4>1 DEF Own
      <4> QED
        BY <4>1, <4>2, <4>3
    <3>2. CASE posts' = [posts EXCEPT ![i].filling = -@] /\ post.step = "sent"
      <4> DEFINE p == [post EXCEPT !.filling = -post.filling]
      <4>1. post.filling \in Int
        BY <2>0 DEF Post
      <4>2. p \in Post /\ p.step # "handled" /\ p.token = post.token /\ p.filling = -post.filling
        BY <2>0, <3>2, <4>1 DEF Post
      <4>3. posts' = [posts EXCEPT ![i] = p]
        BY <3>2
      <4> HIDE DEF p
      <4>4. Own(p) = Own(post)
        BY <4>1, <4>2 DEF Own
      <4> QED
        BY <4>2, <4>3, <4>4
    <3>3. post.step \in {"sent", "handled", "over"}
      BY <2>0 DEF Post
    <3> QED
      BY <1>10, <3>1, <3>2, <3>3 DEF PostComesBack, PostIsLost, Forgotten
  <2>2. /\ UNCHANGED <<tokens, given, captures>> /\ portal' \in Page
        /\ portal'.filling = portal.filling /\ portal'.token = portal.token /\ portal'.loading = portal.loading
        /\ portal'.loadError = portal.loadError
        /\ \/ portal'.folio \in {portal.folio, 0}
           \/ /\ post.step = "handled" /\ post.filling = portal.filling /\ portal'.folio = post.folio
    <3>1. post.folio \in Nat
      BY <2>0 DEF Post
    <3>3. CASE PostComesBack(i)
      <4>1. /\ post.step = "handled" /\ UNCHANGED <<tokens, given, captures>>
            /\ \/ portal' = portal
               \/ post.filling = portal.filling /\ portal' = AfterSubmit(post.folio)
        BY <3>3 DEF PostComesBack
      <4> QED
        BY <2>0, <3>1, <4>1 DEF AfterSubmit, Page
    <3>4. CASE PostIsLost(i)
      BY <2>0, <3>4, 0 \in Nat DEF PostIsLost, AfterSubmit, Page
    <3> QED
      BY <1>10, <3>3, <3>4
  <2>3. /\ posts' \in Seq(Post) /\ DOMAIN posts' = DOMAIN posts /\ posts'[i] = p
        /\ \A j \in DOMAIN posts : j # i => posts'[j] = posts[j]
    BY <1>0, <2>1 DEF PortalTyped
  <2>4. \A j \in DOMAIN posts : /\ posts'[j].token = posts[j].token /\ Own(posts'[j]) = Own(posts[j])
                                /\ Live(j)' <=> Live(j)
    BY <2>1, <2>2, <2>3 DEF Live
  <2>5. PortalTyped' /\ Begun'
    BY <1>0, <2>2, <2>3, <2>4 DEF PortalTyped, Begun
  <2>6. OneToken'
    BY <1>0, <2>2, <2>3, <2>4 DEF OneToken
  <2>7. Spent' /\ Once'
    BY <1>0, <2>2, <2>3, <2>4 DEF Spent, Once
  <2>8. RightFolio'
    <3>1. portal'.folio # 0 => portal'.folio \in DOMAIN captures /\ Own(captures[portal'.folio]) = portal.filling
      <4>1. CASE portal'.folio \in {portal.folio, 0}
        BY <1>0, <4>1 DEF RightFolio
      <4>2. CASE post.step = "handled" /\ post.filling = portal.filling /\ portal'.folio = post.folio
        <5>1. Own(post) = portal.filling
          BY <1>0, <2>0, <4>2 DEF Own, Page, Begun
        <5> QED
          BY <1>0, <4>2, <5>1 DEF RightFolio
      <4> QED
        BY <2>2, <4>1, <4>2
    <3> QED
      BY <1>0, <2>1, <2>2, <2>3, <2>4, <3>1 DEF RightFolio
  <2> QED
    BY <2>5, <2>6, <2>7, <2>8 DEF PortalInv
<1> QED
  BY <1>1, <1>2, <1>3, <1>4, <1>5, <1>6, <1>7, <1>8, <1>9, <1>10 DEF PortalNext

(* A form that is filled in once is one capture at most, however often it is sent,   *)
(* whatever answers are lost, whenever tokens are given out, taken or run out, and    *)
(* however often the page asks for another because it could not load;                 *)
(* the folio shown is of this form: handleSubmit, consumeCsrfToken and                *)
(* createPublicFuelLoad.                                                             *)
THEOREM FormsAreCapturedOnce == PortalSpec => []OneCapturePerForm
<1>1. PortalInv => OneCapturePerForm
  BY DEF PortalInv, Once, RightFolio, OneCapturePerForm, FillingOf, Folios, Own
<1> QED
  BY <1>1, PortalStarts, PortalStep, PTL DEF PortalSpec

-----------------------------------------------------------------------------
(* The records and the contacts of the phones.                                       *)
Files == Programas \X Photos
RowNames == [table : {"registro"}, of : ClientKeys] \cup [table : {"imagen"}, of : Files]

Storing == {"access", "open", "writing"}
Committing == {"begin", "commit"}

Ingests == [pc : Storing \cup Committing, what : {"record"}, programa : Programas, key : ClientKeys,
            photos : Uploads, at : Nat, clean : BOOLEAN, seen : SUBSET RowNames, again : BOOLEAN]
Contacts == [pc : {"update", "create"}, what : {"contact"}, programa : Programas, photos : {<<>>},
             again : BOOLEAN]
RecordAnswers == [pc : {"reply"}, what : {"record"}, programa : Programas, photos : Uploads,
                  status : {"ok"}, id : ClientKeys]
ContactAnswers == [pc : {"reply"}, what : {"contact"}, programa : Programas, photos : {<<>>},
                   status : {"ok", "conflict"}, id : Nat]
QaStates == {Idle} \cup Ingests \cup Contacts \cup RecordAnswers \cup ContactAnswers

RecordsTyped ==
  /\ registro \subseteq [key : ClientKeys, programa : Programas]
  /\ enlace \subseteq [key : ClientKeys, photo : Files]
  /\ persona \subseteq [id : Nat, programa : Programas]
  /\ file \in [Files -> {"none", "torn", "whole"}] /\ qaBegun \in Nat
  /\ qaRequest \in [QaRequests -> QaStates]

(* What an answer promises, of the rows there are.                                   *)
KeptIn(a, regs, links, contacts) ==
  IF a.what = "record"
  THEN (\E x \in regs : x.key = a.id) /\ Links(a.id, a) \subseteq links
  ELSE \E x \in contacts : IF a.status = "ok" THEN x = [id |-> a.id, programa |-> a.programa]
                           ELSE x.programa # a.programa

PhotoOf(q, j) == <<q.programa, q.photos[j]>>
There(q, j, files) == files[PhotoOf(q, j)] # "none"

(* A record is past the photos that have a file, and commits when all of them have;   *)
(* a contact asks again because somebody has the row.                                *)
FitsIn(q, files, regs, links, contacts) ==
  /\ q \in Ingests =>
       /\ 1 <= q.at /\ q.at <= Len(q.photos)
       /\ \A j \in 1..Len(q.photos) : j < q.at \/ q.pc \in Committing => There(q, j, files)
       /\ q.pc = "writing" => There(q, q.at, files)
  /\ q \in Contacts /\ q.again => contacts # {}
  /\ q \in RecordAnswers \cup ContactAnswers => KeptIn(q, regs, links, contacts)

Fits(q) == FitsIn(q, file, registro, enlace, persona)

(* A file that is not whole is being written by somebody nobody has interfered with,  *)
(* unless its writing has failed.                                                    *)
Undisturbed(r, pi) == Writing(r, pi) /\ qaRequest[r].clean
Safe(pi) == file[pi] = "whole" \/ pi \in hurt \/ \E r \in QaRequests : Undisturbed(r, pi)

RecordInv ==
  /\ RecordsTyped
  /\ \A r \in QaRequests : Fits(qaRequest[r])
  /\ \A a \in qaTold : KeptIn(a, registro, enlace, persona)
  /\ \A pi \in Files : file[pi] # "none" => Safe(pi)
  /\ \A l \in enlace : file[l.photo] # "none"

LEMMA UploadsHavePhotos ==
  ASSUME NEW photos \in Uploads
  PROVE  /\ Len(photos) \in Nat /\ 1 <= Len(photos) /\ DOMAIN photos = 1..Len(photos)
         /\ \A j \in 1..Len(photos) : photos[j] \in Photos
<1>1. photos \in Seq(Photos) /\ photos # <<>>
  BY QaConstants
<1> QED
  BY <1>1

LEMMA StatesApart ==
  ASSUME NEW q \in QaStates
  PROVE  /\ q \in Ingests <=> q.pc \in Storing \cup Committing
         /\ q \in Contacts <=> q.pc \in {"update", "create"}
         /\ q \in RecordAnswers \cup ContactAnswers <=> q.pc = "reply"
<1>1. CASE q = Idle
  <2>1. q.pc = "none"
    BY <1>1 DEF Idle
  <2> QED
    BY <2>1 DEF Ingests, Contacts, RecordAnswers, ContactAnswers, Storing, Committing
<1>2. CASE q \in Ingests
  BY <1>2 DEF Ingests, Contacts, RecordAnswers, ContactAnswers, Storing, Committing
<1>3. CASE q \in Contacts
  BY <1>3 DEF Ingests, Contacts, RecordAnswers, ContactAnswers, Storing, Committing
<1>4. CASE q \in RecordAnswers \cup ContactAnswers
  BY <1>4 DEF Ingests, Contacts, RecordAnswers, ContactAnswers, Storing, Committing
<1> QED
  BY <1>1, <1>2, <1>3, <1>4 DEF QaStates

(* What fits goes on fitting while rows and files only come, and answers stay true.   *)
LEMMA KeptStays ==
  ASSUME NEW a, NEW regs, NEW links, NEW contacts, NEW regs2, NEW links2, NEW contacts2,
         \A x \in regs : \E y \in regs2 : y.key = x.key, links \subseteq links2, contacts \subseteq contacts2,
         KeptIn(a, regs, links, contacts)
  PROVE  KeptIn(a, regs2, links2, contacts2)
BY DEF KeptIn

LEMMA FitsStays ==
  ASSUME NEW q \in QaStates, NEW files, NEW files2, NEW regs, NEW links, NEW contacts,
         NEW regs2, NEW links2, NEW contacts2,
         \A pi \in Files : files[pi] # "none" => files2[pi] # "none",
         \A x \in regs : \E y \in regs2 : y.key = x.key, links \subseteq links2, contacts \subseteq contacts2,
         FitsIn(q, files, regs, links, contacts)
  PROVE  FitsIn(q, files2, regs2, links2, contacts2)
<1>1. ASSUME q \in Ingests, NEW j \in 1..Len(q.photos), There(q, j, files)
      PROVE  There(q, j, files2)
  <2>1. q.programa \in Programas /\ q.photos \in Uploads
    BY <1>1 DEF Ingests
  <2>2. PhotoOf(q, j) \in Files
    BY <1>1, <2>1, UploadsHavePhotos DEF PhotoOf, Files
  <2> QED
    BY <1>1, <2>2 DEF There
<1>2. q \in Ingests => Len(q.photos) \in Nat /\ q.at \in Nat
  BY UploadsHavePhotos DEF Ingests
<1>3. q \in Ingests =>
       /\ 1 <= q.at /\ q.at <= Len(q.photos)
       /\ \A j \in 1..Len(q.photos) : j < q.at \/ q.pc \in Committing => There(q, j, files2)
       /\ q.pc = "writing" => There(q, q.at, files2)
  BY <1>1, <1>2 DEF FitsIn
<1>4. q \in RecordAnswers \cup ContactAnswers => KeptIn(q, regs2, links2, contacts2)
  BY KeptStays DEF FitsIn
<1> QED
  BY <1>3, <1>4 DEF FitsIn

LEMMA RecordsStart == QaInit => RecordInv
<1> SUFFICES ASSUME QaInit PROVE RecordInv
  OBVIOUS
<1>1. RecordsTyped
  BY DEF QaInit, RecordsTyped, QaStates, Files
<1>2. ASSUME NEW r \in QaRequests PROVE Fits(qaRequest[r])
  <2>1. qaRequest[r] \in QaStates /\ qaRequest[r].pc = "none"
    BY DEF QaInit, QaStates, Idle
  <2> QED
    BY <2>1, StatesApart DEF Fits, FitsIn, Storing, Committing
<1> QED
  BY <1>1, <1>2 DEF QaInit, RecordInv, Files

(* A request goes on, the others stay; files and rows may only come.  It was not the   *)
(* one that writes a file, or that file is taken care of.                            *)
LEMMA RequestGoesOn ==
  ASSUME RecordInv, NEW r \in QaRequests, NEW n \in QaStates, Next1(r, n),
         registro' \subseteq [key : ClientKeys, programa : Programas],
         enlace' \subseteq [key : ClientKeys, photo : Files],
         persona' \subseteq [id : Nat, programa : Programas],
         file' \in [Files -> {"none", "torn", "whole"}], qaBegun' \in Nat,
         \A pi \in Files : file[pi] # "none" => file'[pi] # "none",
         \A x \in registro : \E y \in registro' : y.key = x.key,
         enlace \subseteq enlace', persona \subseteq persona',
         FitsIn(n, file', registro', enlace', persona'),
         \A a \in qaTold' : a \in qaTold \/ KeptIn(a, registro, enlace, persona),
         \A l \in enlace' : file'[l.photo] # "none",
         \A pi \in Files : \/ file'[pi] = file[pi] /\ (pi \in hurt => pi \in hurt') /\ ~Undisturbed(r, pi)
                           \/ file'[pi] = "whole"
                           \/ pi \in hurt'
  PROVE  RecordInv'
<1>0. RecordsTyped /\ qaRequest' = [qaRequest EXCEPT ![r] = n]
  BY DEF RecordInv, Next1
<1>1. RecordsTyped'
  BY <1>0 DEF RecordsTyped
<1>2. qaRequest'[r] = n /\ \A s \in QaRequests : s # r => qaRequest'[s] = qaRequest[s]
  BY <1>0 DEF RecordsTyped
<1>3. ASSUME NEW s \in QaRequests
      PROVE  FitsIn(qaRequest'[s], file', registro', enlace', persona')
  <2>1. CASE s = r
    BY <1>2, <2>1
  <2>2. CASE s # r
    <3>1. PICK q \in QaStates : q = qaRequest[s]
      BY <1>0 DEF RecordsTyped
    <3>2. FitsIn(q, file, registro, enlace, persona)
      BY <3>1 DEF RecordInv, Fits
    <3>3. FitsIn(q, file', registro', enlace', persona')
      BY <3>2, FitsStays
    <3> QED
      BY <1>2, <2>2, <3>1, <3>3
  <2> QED
    BY <2>1, <2>2
<1>4. ASSUME NEW a \in qaTold'
      PROVE  KeptIn(a, registro', enlace', persona')
  <2>1. KeptIn(a, registro, enlace, persona)
    BY <1>4 DEF RecordInv
  <2> QED
    BY <2>1, KeptStays
<1>5. ASSUME NEW pi \in Files, file'[pi] # "none"
      PROVE  Safe(pi)'
  <2>1. CASE file'[pi] = file[pi] /\ (pi \in hurt => pi \in hurt') /\ ~Undisturbed(r, pi)
    <3>1. Safe(pi)
      BY <1>5, <2>1 DEF RecordInv
    <3>2. ASSUME NEW s \in QaRequests, Undisturbed(s, pi)
          PROVE  Undisturbed(s, pi)'
      <4>1. qaRequest'[s] = qaRequest[s]
        BY <1>2, <2>1, <3>2
      <4> QED
        BY <3>2, <4>1 DEF Undisturbed, Writing, At1
    <3> QED
      BY <2>1, <3>1, <3>2 DEF Safe
  <2>2. CASE file'[pi] = "whole" \/ pi \in hurt'
    BY <2>2 DEF Safe
  <2> QED
    BY <2>1, <2>2
<1> QED
  BY <1>1, <1>3, <1>4, <1>5 DEF RecordInv, Fits

(* Most steps touch neither files nor rows.                                          *)
LEMMA OnlyTheRequest ==
  ASSUME RecordInv, NEW r \in QaRequests, NEW n \in QaStates, Next1(r, n),
         qaRequest[r].pc # "writing", Fits(n),
         UNCHANGED <<registro, enlace, persona, file, hurt>>, qaBegun' \in Nat,
         \A a \in qaTold' : a \in qaTold \/ KeptIn(a, registro, enlace, persona)
  PROVE  RecordInv'
<1>1. FitsIn(n, file', registro', enlace', persona')
  BY DEF Fits
<1>2. \A pi \in Files : ~Undisturbed(r, pi)
  BY DEF Undisturbed, Writing, At1
<1> QED
  BY <1>1, <1>2, RequestGoesOn DEF RecordInv, RecordsTyped

LEMMA StoredFits ==
  ASSUME NEW q \in Ingests, NEW files, NEW regs, NEW links, NEW contacts,
         FitsIn(q, files, regs, links, contacts), q.pc \in Storing, files[FileOf(q)] # "none"
  PROVE  Stored(q) \in Ingests /\ FitsIn(Stored(q), files, regs, links, contacts)
<1>1. /\ q.at \in Nat /\ Len(q.photos) \in Nat /\ 1 <= q.at /\ q.at <= Len(q.photos)
      /\ \A j \in 1..Len(q.photos) : j < q.at => There(q, j, files)
  <2>1. q.photos \in Uploads /\ q.at \in Nat
    BY DEF Ingests
  <2>2. Len(q.photos) \in Nat
    BY <2>1, UploadsHavePhotos
  <2>3. /\ 1 <= q.at /\ q.at <= Len(q.photos)
        /\ \A j \in 1..Len(q.photos) : j < q.at => There(q, j, files)
    BY DEF FitsIn
  <2> QED
    BY <2>1, <2>2, <2>3
<1>2. There(q, q.at, files)
  <2>1. PhotoOf(q, q.at) = FileOf(q)
    BY Zenon DEF PhotoOf, FileOf
  <2> QED
    BY <2>1 DEF There
<1>3. PICK at \in Nat, pc \in {"begin", "access"} :
        /\ Stored(q) = [q EXCEPT !.pc = pc, !.at = at, !.clean = FALSE]
        /\ 1 <= at /\ at <= Len(q.photos)
        /\ at = q.at + 1 \/ (at = q.at /\ at = Len(q.photos))
        /\ pc = "begin" <=> q.at = Len(q.photos)
  <2>1. CASE q.at = Len(q.photos)
    <3>1. Stored(q) = [q EXCEPT !.pc = "begin", !.at = q.at, !.clean = FALSE]
      BY <2>1 DEF Stored, Ingests
    <3> QED
      BY <1>1, <2>1, <3>1
  <2>2. CASE q.at # Len(q.photos)
    <3>1. Stored(q) = [q EXCEPT !.pc = "access", !.at = q.at + 1, !.clean = FALSE]
      BY <2>2 DEF Stored
    <3>2. q.at + 1 \in Nat /\ 1 <= q.at + 1 /\ q.at + 1 <= Len(q.photos)
      BY <1>1, <2>2
    <3> QED
      BY <2>2, <3>1, <3>2
  <2> QED
    BY <2>1, <2>2
<1> DEFINE s == [q EXCEPT !.pc = pc, !.at = at, !.clean = FALSE]
<1>4. /\ s \in Ingests /\ s.programa = q.programa /\ s.photos = q.photos /\ s.at = at /\ s.pc = pc
  BY DEF Ingests, Storing, Committing
<1> HIDE DEF s
<1>5. \A j \in 1..Len(q.photos) : There(s, j, files) <=> There(q, j, files)
  BY <1>4 DEF There, PhotoOf
<1>6. s \in QaStates /\ s.pc \notin {"update", "create", "reply"}
  BY <1>4 DEF QaStates
<1>7. s \notin Contacts /\ s \notin RecordAnswers \cup ContactAnswers
  BY <1>6, StatesApart
<1>8. \A j \in 1..Len(q.photos) : j < at \/ pc \in Committing => There(s, j, files)
  BY <1>1, <1>2, <1>3, <1>5 DEF Committing
<1>9. FitsIn(s, files, regs, links, contacts)
  BY <1>3, <1>4, <1>7, <1>8 DEF FitsIn
<1> QED
  BY <1>3, <1>4, <1>9 DEF s

LEMMA RecordStep == RecordInv /\ [QaNext]_recordVars => RecordInv'
<1> SUFFICES ASSUME RecordInv, [QaNext]_recordVars PROVE RecordInv'
  OBVIOUS
<1>0. RecordsTyped
  BY DEF RecordInv
<1>a. ASSUME NEW r \in QaRequests
      PROVE  qaRequest[r] \in QaStates /\ Fits(qaRequest[r])
  BY <1>0 DEF RecordInv, RecordsTyped
<1>b. ASSUME NEW r \in QaRequests, NEW pc, At1(r, pc), pc \in Storing \cup Committing
      PROVE  qaRequest[r] \in Ingests
  BY <1>a, <1>b, StatesApart DEF At1
<1>c. ASSUME NEW q \in Ingests, NEW pc \in Storing \cup Committing, NEW clean \in BOOLEAN
      PROVE  LET n == [q EXCEPT !.pc = pc, !.clean = clean]
             IN  n \in Ingests /\ n.pc = pc /\ n.clean = clean /\ n.at = q.at /\ n.programa = q.programa
                 /\ n.photos = q.photos
  BY DEF Ingests
<1>d. ASSUME NEW q \in Ingests, Fits(q), NEW n \in Ingests, n.at = q.at, n.programa = q.programa,
             n.photos = q.photos, n.pc \in Committing => q.pc \in Committing,
             n.pc = "writing" => q.pc = "writing"
      PROVE  Fits(n)
  <2>1. \A j : There(n, j, file) <=> There(q, j, file)
    BY <1>d DEF There, PhotoOf
  <2>2. n \in QaStates /\ n.pc \notin {"update", "create", "reply"}
    BY <1>d DEF QaStates, Ingests, Storing, Committing
  <2>3. n \notin Contacts /\ n \notin RecordAnswers \cup ContactAnswers
    BY <2>2, StatesApart
  <2> QED
    BY <1>d, <2>1, <2>3 DEF Fits, FitsIn
<1>e. Fits(Idle) /\ Idle \in QaStates
  <2>1. Idle \in QaStates /\ Idle.pc = "none"
    BY DEF Idle, QaStates
  <2> QED
    BY <2>1, StatesApart DEF Fits, FitsIn, Storing, Committing
<1>1. CASE UNCHANGED recordVars
  <2>1. \A pi \in Files : Safe(pi)' <=> Safe(pi)
    BY <1>1 DEF recordVars, Safe, Undisturbed, Writing, At1
  <2> QED
    BY <1>1, <2>1 DEF recordVars, RecordInv, RecordsTyped, Fits
<1>2. ASSUME NEW r \in QaRequests, NEW p \in Programas, NEW key \in ClientKeys, NEW photos \in Uploads,
             PostIngest(r, p, key, photos)
      PROVE  RecordInv'
  <2> DEFINE n == Ingest(p, key, photos)
  <2>1. /\ n \in Ingests /\ n.pc = "access" /\ n.at = 1 /\ n.photos = photos
    BY DEF Ingest, Ingests, Storing
  <2> HIDE DEF n
  <2>2. n \in QaStates /\ n \notin Contacts /\ n \notin RecordAnswers \cup ContactAnswers
    BY <2>1, StatesApart DEF QaStates, Storing
  <2>3. Fits(n)
    BY <2>1, <2>2, UploadsHavePhotos DEF Fits, FitsIn, Committing
  <2>4. /\ Next1(r, n) /\ qaRequest[r].pc # "writing" /\ qaBegun' = qaBegun + 1
        /\ UNCHANGED <<registro, enlace, persona, file, hurt, qaTold>>
    BY <1>2 DEF PostIngest, Begins, Idle, n
  <2> QED
    BY <1>0, <2>2, <2>3, <2>4, OnlyTheRequest DEF RecordsTyped
<1>3. ASSUME NEW r \in QaRequests, NEW p \in Programas, PostPersona(r, p)
      PROVE  RecordInv'
  <2> DEFINE n == [pc |-> "update", what |-> "contact", programa |-> p, photos |-> <<>>, again |-> FALSE]
  <2>1. n \in Contacts /\ n.pc = "update" /\ n.again = FALSE
    BY DEF Contacts
  <2> HIDE DEF n
  <2>2. n \in QaStates /\ n \notin Ingests /\ n \notin RecordAnswers \cup ContactAnswers
    BY <2>1, StatesApart DEF QaStates, Storing, Committing
  <2>3. Fits(n)
    BY <2>1, <2>2 DEF Fits, FitsIn
  <2>4. /\ Next1(r, n) /\ qaRequest[r].pc # "writing" /\ qaBegun' = qaBegun + 1
        /\ UNCHANGED <<registro, enlace, persona, file, hurt, qaTold>>
    BY <1>3 DEF PostPersona, Begins, Idle, n
  <2> QED
    BY <1>0, <2>2, <2>3, <2>4, OnlyTheRequest DEF RecordsTyped
<1>4. ASSUME NEW r \in QaRequests, Access(r)
      PROVE  RecordInv'
  <2>1. PICK q \in Ingests : q = qaRequest[r] /\ q.pc = "access" /\ Fits(q)
    BY <1>4, <1>a, <1>b DEF Access, At1, Storing
  <2>2. PICK n \in Ingests : Next1(r, n) /\ Fits(n)
    <3>1. CASE file[FileOf(q)] # "none"
      <4>1. Stored(q) \in Ingests /\ Fits(Stored(q))
        BY <2>1, <3>1, StoredFits DEF Fits, Storing
      <4> QED
        BY <1>4, <2>1, <3>1, <4>1 DEF Access
    <3>2. CASE file[FileOf(q)] = "none"
      <4> DEFINE n == [q EXCEPT !.pc = "open"]
      <4>1. n \in Ingests /\ n.pc = "open" /\ n.at = q.at /\ n.programa = q.programa /\ n.photos = q.photos
        BY DEF Ingests, Storing
      <4>2. Next1(r, n)
        BY <1>4, <2>1, <3>2 DEF Access, Moves
      <4> HIDE DEF n
      <4>3. Fits(n)
        BY <1>d, <2>1, <4>1 DEF Committing
      <4> QED
        BY <4>1, <4>2, <4>3
    <3> QED
      BY <3>1, <3>2
  <2>3. qaRequest[r].pc # "writing" /\ UNCHANGED <<registro, enlace, persona, file, hurt, qaTold, qaBegun>>
    BY <1>4, <2>1 DEF Access
  <2>4. n \in QaStates
    BY <2>2 DEF QaStates
  <2> QED
    BY <1>0, <2>2, <2>3, <2>4, OnlyTheRequest DEF RecordsTyped
<1>5. ASSUME NEW r \in QaRequests, BeginWrite(r)
      PROVE  RecordInv'
  <2>1. PICK q \in Ingests : q = qaRequest[r] /\ q.pc = "open" /\ Fits(q)
    BY <1>5, <1>a, <1>b DEF BeginWrite, At1, Storing
  <2> DEFINE mine == FileOf(q)
             n == [q EXCEPT !.pc = "writing", !.clean = TRUE]
  <2>2. mine \in Files /\ 1 <= q.at /\ q.at <= Len(q.photos) /\ Len(q.photos) \in Nat /\ q.at \in Nat
    <3>1. 1 <= q.at /\ q.at <= Len(q.photos) /\ q.at \in Nat /\ q.photos \in Uploads /\ q.programa \in Programas
      BY <2>1 DEF Fits, FitsIn, Ingests
    <3> QED
      BY <3>1, UploadsHavePhotos DEF FileOf, Files
  <2>3. /\ file' = [file EXCEPT ![mine] = "torn"]
        /\ qaRequest' = [s \in QaRequests |->
             IF s = r THEN n
             ELSE IF Writing(s, mine) THEN [qaRequest[s] EXCEPT !.clean = FALSE] ELSE qaRequest[s]]
        /\ UNCHANGED <<registro, enlace, persona, hurt, qaTold, qaBegun>>
    BY <1>5, <2>1 DEF BeginWrite
  <2>4. /\ file' \in [Files -> {"none", "torn", "whole"}] /\ file'[mine] = "torn"
        /\ \A pi \in Files : pi # mine => file'[pi] = file[pi]
    BY <1>0, <2>2, <2>3 DEF RecordsTyped
  <2>5. n \in Ingests /\ n.pc = "writing" /\ n.clean /\ n.at = q.at /\ n.programa = q.programa /\ n.photos = q.photos
    BY DEF Ingests, Storing
  <2>6. FileOf(n) = mine
    BY <2>5 DEF FileOf
  <2> HIDE DEF n, mine
  <2>7. \A pi \in Files : file[pi] # "none" => file'[pi] # "none"
    BY <2>4
  <2>8. FitsIn(n, file', registro', enlace', persona')
    <3>1. FitsIn(q, file', registro', enlace', persona')
      <4>1. FitsIn(q, file, registro, enlace, persona) /\ q \in QaStates
        BY <2>1 DEF Fits, QaStates
      <4> QED
        BY <2>3, <2>7, <4>1, FitsStays
    <3>2. \A j : There(n, j, file') <=> There(q, j, file')
      BY <2>5 DEF There, PhotoOf
    <3>3. There(n, n.at, file')
      BY <2>4, <2>6 DEF There, PhotoOf, FileOf
    <3>4. n \in QaStates /\ n \notin Contacts /\ n \notin RecordAnswers \cup ContactAnswers
      BY <2>5, StatesApart DEF QaStates
    <3> QED
      BY <2>1, <2>5, <3>1, <3>2, <3>3, <3>4 DEF FitsIn, Committing
  <2>9. ASSUME NEW s \in QaRequests
        PROVE  qaRequest'[s] \in QaStates /\ FitsIn(qaRequest'[s], file', registro', enlace', persona')
    <3>1. PICK o \in QaStates : o = qaRequest[s] /\ FitsIn(o, file, registro, enlace, persona)
      BY <1>a DEF Fits
    <3>2. FitsIn(o, file', registro', enlace', persona')
      BY <2>3, <2>7, <3>1, FitsStays
    <3>3. CASE s = r
      BY <2>3, <2>5, <2>8, <3>3 DEF QaStates
    <3>4. CASE s # r /\ ~Writing(s, mine)
      BY <2>3, <3>1, <3>2, <3>4
    <3>5. CASE s # r /\ Writing(s, mine)
      <4>1. o \in Ingests /\ o.pc = "writing"
        BY <3>1, <3>5, StatesApart DEF Writing, At1, Storing
      <4> DEFINE m == [o EXCEPT !.clean = FALSE]
      <4>2. /\ m \in Ingests /\ m.pc = o.pc /\ m.at = o.at /\ m.programa = o.programa /\ m.photos = o.photos
        BY <4>1 DEF Ingests
      <4>3. qaRequest'[s] = m
        BY <2>3, <3>1, <3>5
      <4> HIDE DEF m
      <4>4. m \in QaStates /\ m \notin Contacts /\ m \notin RecordAnswers \cup ContactAnswers
        BY <4>1, <4>2, StatesApart DEF QaStates
      <4>5. \A j : There(m, j, file') <=> There(o, j, file')
        BY <4>2 DEF There, PhotoOf
      <4> QED
        BY <3>2, <4>1, <4>2, <4>3, <4>4, <4>5 DEF FitsIn
    <3> QED
      BY <3>3, <3>4, <3>5
  <2>10. ASSUME NEW pi \in Files, file'[pi] # "none"
         PROVE  Safe(pi)'
    <3>1. CASE pi = mine
      <4>1. qaRequest'[r] = n
        BY <2>3
      <4>2. Undisturbed(r, pi)'
        BY <2>5, <2>6, <3>1, <4>1 DEF Undisturbed, Writing, At1
      <4> QED
        BY <4>2 DEF Safe
    <3>2. CASE pi # mine
      <4>1. Safe(pi) /\ file'[pi] = file[pi]
        BY <2>4, <2>10, <3>2 DEF RecordInv
      <4>2. ASSUME NEW s \in QaRequests, Undisturbed(s, pi)
            PROVE  Undisturbed(s, pi)'
        <5>1. s # r /\ ~Writing(s, mine)
          BY <2>1, <3>2, <4>2 DEF Undisturbed, Writing, At1
        <5>2. qaRequest'[s] = qaRequest[s]
          BY <2>3, <5>1
        <5> QED
          BY <4>2, <5>2 DEF Undisturbed, Writing, At1
      <4> QED
        BY <2>3, <4>1, <4>2 DEF Safe
    <3> QED
      BY <3>1, <3>2
  <2>11. RecordsTyped'
    BY <1>0, <2>3, <2>4, <2>9 DEF RecordsTyped
  <2>12. \A l \in enlace' : file'[l.photo] # "none"
    BY <1>0, <2>3, <2>7 DEF RecordInv, RecordsTyped
  <2>13. \A a \in qaTold' : KeptIn(a, registro', enlace', persona')
    BY <2>3 DEF RecordInv
  <2> QED
    BY <2>9, <2>10, <2>11, <2>12, <2>13 DEF RecordInv, Fits
<1>6. ASSUME NEW r \in QaRequests, EndWrite(r)
      PROVE  RecordInv'
  <2>1. PICK q \in Ingests : q = qaRequest[r] /\ q.pc = "writing" /\ Fits(q)
    BY <1>6, <1>a, <1>b DEF EndWrite, At1, Storing
  <2>2. file[FileOf(q)] # "none" /\ FileOf(q) \in Files
    <3>1. 1 <= q.at /\ q.at <= Len(q.photos) /\ q.at \in Nat /\ q.photos \in Uploads /\ q.programa \in Programas
      BY <2>1 DEF Fits, FitsIn, Ingests
    <3> QED
      BY <2>1, <3>1, UploadsHavePhotos DEF FileOf, Files, Fits, FitsIn, There, PhotoOf
  <2>3. Stored(q) \in Ingests /\ Fits(Stored(q))
    BY <2>1, <2>2, StoredFits DEF Fits, Storing
  <2>4. PICK n \in Ingests : n = Stored(q) /\ Fits(n)
    BY <2>3
  <2>5. /\ Next1(r, n) /\ UNCHANGED <<registro, enlace, persona, hurt, qaTold, qaBegun>>
        /\ file' = IF q.clean THEN [file EXCEPT ![FileOf(q)] = "whole"] ELSE file
    BY <1>6, <2>1, <2>4 DEF EndWrite
  <2>6. /\ file' \in [Files -> {"none", "torn", "whole"}]
        /\ \A pi \in Files : file'[pi] = file[pi] \/ file'[pi] = "whole"
    BY <1>0, <2>2, <2>5 DEF RecordsTyped
  <2>7. n \in QaStates /\ FitsIn(n, file, registro, enlace, persona)
    BY <2>4 DEF QaStates, Fits
  <2>8. FitsIn(n, file', registro', enlace', persona')
    BY <2>5, <2>6, <2>7, FitsStays
  <2>9. ASSUME NEW pi \in Files
        PROVE  (file'[pi] = file[pi] /\ ~Undisturbed(r, pi)) \/ file'[pi] = "whole"
    <3>1. CASE q.clean /\ pi = FileOf(q)
      BY <1>0, <2>2, <2>5, <3>1 DEF RecordsTyped
    <3>2. CASE ~(q.clean /\ pi = FileOf(q))
      BY <2>1, <2>6, <3>2 DEF Undisturbed, Writing
    <3> QED
      BY <3>1, <3>2
  <2>10. \A l \in enlace' : file'[l.photo] # "none"
    <3>1. \A l \in enlace : l.photo \in Files
      BY <1>0 DEF RecordsTyped
    <3> QED
      BY <2>5, <2>6, <3>1 DEF RecordInv
  <2>11. \A pi \in Files : file[pi] # "none" => file'[pi] # "none"
    BY <2>6
  <2> QED
    BY <1>0, <2>5, <2>6, <2>7, <2>8, <2>9, <2>10, <2>11, RequestGoesOn DEF RecordsTyped
<1>7. ASSUME NEW r \in QaRequests, WriteFails(r)
      PROVE  RecordInv'
  <2>1. /\ Next1(r, Idle) /\ UNCHANGED <<registro, enlace, persona, file, qaTold, qaBegun>>
        /\ hurt' = hurt \cup {FileOf(qaRequest[r])}
    BY <1>7 DEF WriteFails
  <2>2. \A pi \in Files : ~Undisturbed(r, pi) \/ pi \in hurt'
    BY <2>1 DEF Undisturbed, Writing
  <2>3. FitsIn(Idle, file', registro', enlace', persona')
    BY <1>e, <2>1 DEF Fits
  <2>4. \A l \in enlace' : file'[l.photo] # "none"
    BY <2>1 DEF RecordInv
  <2> QED
    BY <1>0, <1>e, <2>1, <2>2, <2>3, <2>4, RequestGoesOn DEF RecordsTyped
<1>8. ASSUME NEW r \in QaRequests, BeginTransaction(r)
      PROVE  RecordInv'
  <2>1. PICK q \in Ingests : q = qaRequest[r] /\ q.pc = "begin" /\ Fits(q)
    BY <1>8, <1>a, <1>b DEF BeginTransaction, At1, Committing
  <2> DEFINE seen == Rows \cap Needed(q)
             n == [q EXCEPT !.pc = "commit", !.seen = seen]
  <2>2. seen \subseteq RowNames
    <3>1. q.key \in ClientKeys /\ q.programa \in Programas /\ q.photos \in Uploads
      BY DEF Ingests
    <3>2. \A i \in Range(q.photos) : i \in Photos
      BY <3>1, UploadsHavePhotos DEF Range
    <3> QED
      BY <3>1, <3>2 DEF Needed, RowNames, Files
  <2>3. /\ Next1(r, n) /\ UNCHANGED <<registro, enlace, persona, file, hurt, qaTold, qaBegun>>
    BY <1>8, <2>1 DEF BeginTransaction
  <2> HIDE DEF seen
  <2>4. n \in Ingests /\ n.pc = "commit" /\ n.at = q.at /\ n.programa = q.programa /\ n.photos = q.photos
    BY <2>2 DEF Ingests, Committing
  <2> HIDE DEF n
  <2>5. Fits(n)
    BY <1>d, <2>1, <2>4 DEF Committing
  <2>6. n \in QaStates /\ qaRequest[r].pc # "writing"
    BY <2>1, <2>4 DEF QaStates
  <2> QED
    BY <1>0, <2>3, <2>5, <2>6, OnlyTheRequest DEF RecordsTyped
<1>9. ASSUME NEW r \in QaRequests, UniqueViolated(r)
      PROVE  RecordInv'
  <2>1. PICK q \in Ingests : q = qaRequest[r] /\ q.pc = "commit" /\ Fits(q)
    BY <1>9, <1>a, <1>b DEF UniqueViolated, At1, Committing
  <2> DEFINE n == [q EXCEPT !.pc = "begin", !.again = TRUE]
  <2>2. n \in Ingests /\ n.pc = "begin" /\ n.at = q.at /\ n.programa = q.programa /\ n.photos = q.photos
    BY DEF Ingests, Committing
  <2>3. /\ Next1(r, Idle) \/ Next1(r, n)
        /\ UNCHANGED <<registro, enlace, persona, file, hurt, qaTold, qaBegun>>
    BY <1>9, <2>1 DEF UniqueViolated
  <2> HIDE DEF n
  <2>4. Fits(n)
    BY <1>d, <2>1, <2>2 DEF Committing
  <2>5. n \in QaStates /\ qaRequest[r].pc # "writing"
    BY <2>1, <2>2 DEF QaStates
  <2>6. PICK m \in QaStates : Next1(r, m) /\ Fits(m)
    BY <1>e, <2>3, <2>4, <2>5
  <2> QED
    BY <1>0, <2>3, <2>5, <2>6, OnlyTheRequest DEF RecordsTyped
<1>10. ASSUME NEW r \in QaRequests, WriteOnce(r)
       PROVE  RecordInv'
  <2>1. PICK q \in Ingests : q = qaRequest[r] /\ q.pc = "commit" /\ Fits(q)
    BY <1>10, <1>a, <1>b DEF WriteOnce, At1, Committing
  <2>2. /\ q.key \in ClientKeys /\ q.programa \in Programas /\ q.photos \in Uploads /\ q.what = "record"
    BY DEF Ingests
  <2> DEFINE n == Told(q, "ok", q.key)
             new == Links(q.key, q)
             c == [key |-> q.key, programa |-> q.programa]
  <2>3. /\ registro' = {x \in registro : x.key # q.key} \cup {c}
        /\ enlace' = enlace \cup new /\ Next1(r, n)
        /\ UNCHANGED <<persona, file, hurt, qaTold, qaBegun>>
    BY <1>10, <2>1 DEF WriteOnce, Answers1, Linked
  <2>4. n \in RecordAnswers /\ n.what = "record" /\ n.id = q.key /\ n.photos = q.photos /\ n.programa = q.programa
        /\ n.pc = "reply"
    BY <2>2 DEF Told, RecordAnswers
  <2>5. ASSUME NEW l \in new
        PROVE  l \in [key : ClientKeys, photo : Files] /\ file[l.photo] # "none"
    <3>1. PICK i \in Range(q.photos) : l = [key |-> q.key, photo |-> <<q.programa, i>>]
      BY <2>5 DEF Links
    <3>2. PICK j \in 1..Len(q.photos) : i = q.photos[j]
      BY <2>2, UploadsHavePhotos DEF Range
    <3>3. l.photo = PhotoOf(q, j) /\ l.photo \in Files
      BY <2>2, <3>1, <3>2, UploadsHavePhotos DEF PhotoOf, Files
    <3>4. There(q, j, file)
      BY <2>1 DEF Fits, FitsIn, Committing
    <3> QED
      BY <2>2, <3>1, <3>3, <3>4 DEF There
  <2>6. Links(n.id, n) = new
    BY <2>4 DEF Links
  <2>c. c \in [key : ClientKeys, programa : Programas] /\ c.key = q.key
    BY <2>2
  <2> HIDE DEF n, new, c
  <2>7. \E x \in registro' : x.key = n.id
    BY <2>3, <2>4, <2>c
  <2>8. KeptIn(n, registro', enlace', persona')
    BY <2>3, <2>4, <2>6, <2>7 DEF KeptIn
  <2>9. n \in QaStates /\ n \notin Ingests /\ n \notin Contacts
    BY <2>4, StatesApart DEF QaStates, Storing, Committing
  <2>10. FitsIn(n, file', registro', enlace', persona')
    BY <2>8, <2>9 DEF FitsIn
  <2>11. /\ registro' \subseteq [key : ClientKeys, programa : Programas]
         /\ enlace' \subseteq [key : ClientKeys, photo : Files]
    BY <1>0, <2>3, <2>5, <2>c DEF RecordsTyped
  <2>12. \A x \in registro : \E y \in registro' : y.key = x.key
    BY <2>3, <2>c
  <2>13. \A l \in enlace' : file'[l.photo] # "none"
    BY <2>3, <2>5 DEF RecordInv
  <2>14. \A pi \in Files : ~Undisturbed(r, pi)
    BY <2>1 DEF Undisturbed, Writing, At1
  <2> QED
    BY <1>0, <2>3, <2>9, <2>10, <2>11, <2>12, <2>13, <2>14, RequestGoesOn DEF RecordsTyped
<1>11. ASSUME NEW r \in QaRequests, TryUpdate(r)
       PROVE  RecordInv'
  <2>1. PICK q \in Contacts : q = qaRequest[r] /\ q.pc = "update" /\ Fits(q)
    BY <1>11, <1>a, StatesApart DEF TryUpdate, At1
  <2>2. /\ q.programa \in Programas /\ q.photos = <<>> /\ q.what = "contact" /\ q.again \in BOOLEAN
    BY DEF Contacts
  <2> DEFINE own == {x \in persona : x.programa = q.programa}
  <2>3. UNCHANGED <<registro, enlace, persona, file, hurt, qaTold, qaBegun>>
    BY <1>11 DEF TryUpdate
  <2>4. PICK n \in QaStates : Next1(r, n) /\ Fits(n)
    <3>1. ASSUME NEW x \in own, Answers1(r, "ok", x.id)
          PROVE  \E n \in QaStates : Next1(r, n) /\ Fits(n)
      <4> DEFINE n == Told(q, "ok", x.id)
      <4>1. x \in persona /\ x = [id |-> x.id, programa |-> q.programa] /\ x.id \in Nat
        BY <1>0 DEF RecordsTyped
      <4>2. n \in ContactAnswers /\ n.what = "contact" /\ n.status = "ok" /\ n.id = x.id
            /\ n.programa = q.programa /\ n.pc = "reply"
        BY <2>2, <4>1 DEF Told, ContactAnswers
      <4>3. Next1(r, n)
        BY <2>1, <3>1 DEF Answers1
      <4> HIDE DEF n
      <4>4. KeptIn(n, registro, enlace, persona)
        BY <4>1, <4>2 DEF KeptIn
      <4>5. n \in QaStates /\ n \notin Ingests /\ n \notin Contacts
        BY <4>2, StatesApart DEF QaStates, Storing, Committing
      <4> QED
        BY <4>3, <4>4, <4>5 DEF Fits, FitsIn
    <3>2. ASSUME own = {}, q.again, Answers1(r, "conflict", 0)
          PROVE  \E n \in QaStates : Next1(r, n) /\ Fits(n)
      <4> DEFINE n == Told(q, "conflict", 0)
      <4>1. n \in ContactAnswers /\ n.what = "contact" /\ n.status = "conflict"
            /\ n.programa = q.programa /\ n.pc = "reply"
        BY <2>2 DEF Told, ContactAnswers
      <4>2. Next1(r, n)
        BY <2>1, <3>2 DEF Answers1
      <4> HIDE DEF n
      <4>3. PICK x \in persona : x.programa # q.programa
        BY <2>1, <3>2 DEF Fits, FitsIn
      <4>4. KeptIn(n, registro, enlace, persona)
        BY <4>1, <4>3 DEF KeptIn
      <4>5. n \in QaStates /\ n \notin Ingests /\ n \notin Contacts
        BY <4>1, StatesApart DEF QaStates, Storing, Committing
      <4> QED
        BY <4>2, <4>4, <4>5 DEF Fits, FitsIn
    <3>3. ASSUME ~q.again, Moves(r, "create")
          PROVE  \E n \in QaStates : Next1(r, n) /\ Fits(n)
      <4> DEFINE n == [q EXCEPT !.pc = "create"]
      <4>1. n \in Contacts /\ n.pc = "create" /\ n.again = q.again
        BY DEF Contacts
      <4>2. Next1(r, n)
        BY <2>1, <3>3 DEF Moves
      <4> HIDE DEF n
      <4>3. n \in QaStates /\ n \notin Ingests /\ n \notin RecordAnswers \cup ContactAnswers
        BY <4>1, StatesApart DEF QaStates, Storing, Committing
      <4> QED
        BY <3>3, <4>1, <4>2, <4>3 DEF Fits, FitsIn
    <3> QED
      BY <1>11, <2>1, <3>1, <3>2, <3>3 DEF TryUpdate
  <2> QED
    BY <1>0, <2>1, <2>3, <2>4, OnlyTheRequest DEF RecordsTyped
<1>12. ASSUME NEW r \in QaRequests, CreatePersona(r)
       PROVE  RecordInv'
  <2>1. PICK q \in Contacts : q = qaRequest[r] /\ q.pc = "create" /\ Fits(q)
    BY <1>12, <1>a, StatesApart DEF CreatePersona, At1
  <2>2. /\ q.programa \in Programas /\ q.photos = <<>> /\ q.what = "contact" /\ q.again \in BOOLEAN
        /\ qaBegun \in Nat
    BY <1>0 DEF Contacts, RecordsTyped
  <2>3. UNCHANGED <<registro, enlace, file, hurt, qaTold, qaBegun>>
    BY <1>12 DEF CreatePersona
  <2>4. CASE persona = {}
    <3> DEFINE n == Told(q, "ok", qaBegun)
               x == [id |-> qaBegun, programa |-> q.programa]
    <3>1. /\ n \in ContactAnswers /\ n.what = "contact" /\ n.status = "ok" /\ n.id = qaBegun
          /\ n.programa = q.programa /\ n.pc = "reply"
      BY <2>2 DEF Told, ContactAnswers
    <3>2. persona' = {x} /\ Next1(r, n)
      BY <1>12, <2>1, <2>4 DEF CreatePersona, Answers1
    <3>3. x \in [id : Nat, programa : Programas] /\ x = [id |-> n.id, programa |-> n.programa]
      BY <2>2, <3>1
    <3> HIDE DEF n, x
    <3>4. KeptIn(n, registro', enlace', persona')
      BY <3>1, <3>2, <3>3 DEF KeptIn
    <3>5. n \in QaStates /\ n \notin Ingests /\ n \notin Contacts
      BY <3>1, StatesApart DEF QaStates, Storing, Committing
    <3>6. FitsIn(n, file', registro', enlace', persona')
      BY <3>4, <3>5 DEF FitsIn
    <3>7. \A pi \in Files : ~Undisturbed(r, pi)
      BY <2>1 DEF Undisturbed, Writing, At1
    <3>8. \A l \in enlace' : file'[l.photo] # "none"
      BY <2>3 DEF RecordInv
    <3> QED
      BY <1>0, <2>3, <2>4, <3>2, <3>3, <3>5, <3>6, <3>7, <3>8, RequestGoesOn
         DEF RecordsTyped
  <2>5. CASE persona # {}
    <3> DEFINE n == [q EXCEPT !.pc = "update", !.again = TRUE]
    <3>1. n \in Contacts /\ n.pc = "update"
      BY DEF Contacts
    <3>2. Next1(r, n) /\ persona' = persona
      BY <1>12, <2>1, <2>5 DEF CreatePersona, Refused
    <3> HIDE DEF n
    <3>3. n \in QaStates /\ n \notin Ingests /\ n \notin RecordAnswers \cup ContactAnswers
      BY <3>1, StatesApart DEF QaStates, Storing, Committing
    <3>4. Fits(n)
      BY <2>5, <3>3 DEF Fits, FitsIn
    <3> QED
      BY <1>0, <2>1, <2>3, <3>2, <3>3, <3>4, OnlyTheRequest DEF RecordsTyped
  <2> QED
    BY <2>4, <2>5
<1>13. ASSUME NEW r \in QaRequests, QaReply(r)
       PROVE  RecordInv'
  <2>1. qaRequest[r] \in RecordAnswers \cup ContactAnswers /\ qaRequest[r].pc = "reply"
    BY <1>13, <1>a, StatesApart DEF QaReply, At1
  <2>2. KeptIn(qaRequest[r], registro, enlace, persona)
    BY <1>a, <2>1 DEF Fits, FitsIn
  <2>3. /\ Next1(r, Idle) /\ UNCHANGED <<registro, enlace, persona, file, hurt, qaBegun>>
        /\ qaTold' = qaTold \cup {qaRequest[r]}
    BY <1>13 DEF QaReply
  <2> QED
    BY <1>0, <1>e, <2>1, <2>2, <2>3, OnlyTheRequest DEF RecordsTyped
<1>14. ASSUME NEW r \in QaRequests, QaLose(r)
       PROVE  RecordInv'
  BY <1>0, <1>e, <1>14, OnlyTheRequest DEF QaLose, At1, RecordsTyped
<1>15. ASSUME UNCHANGED <<registro, imagen, enlace, persona, file, hurt, qaRequest, qaTold, qaBegun>>
       PROVE  RecordInv'
  <2>1. \A pi \in Files : Safe(pi)' <=> Safe(pi)
    BY <1>15 DEF Safe, Undisturbed, Writing, At1
  <2> QED
    BY <1>15, <2>1 DEF RecordInv, RecordsTyped, Fits
<1>16. CASE QueryExport \/ PublishZip \/ (\E p \in Programas : MeasureExport(p)) \/ \E l \in qaZip.due : WritePhoto(l)
  BY <1>15, <1>16 DEF QueryExport, PublishZip, MeasureExport, WritePhoto
<1> QED
  BY <1>1, <1>2, <1>3, <1>4, <1>5, <1>6, <1>7, <1>8, <1>9, <1>10, <1>11, <1>12, <1>13,
     <1>14, <1>16
     DEF QaNext

(* What a phone was told stays true, whoever else sends records, photos and contacts,  *)
(* in whatever order requests are worked on or die; and a photo of a record that is    *)
(* not whole is being written, or its writing has failed: ingestWithDeps,              *)
(* processImage and ingestPersonaWithDeps.                                            *)
THEOREM RecordsStayThere == QaSpec => []RecordsAreKept
<1>1. RecordInv => RecordsAreKept
  <2> SUFFICES ASSUME RecordInv PROVE RecordsAreKept
    OBVIOUS
  <2>1. \A a \in qaTold : KeptIn(a, registro, enlace, persona)
    BY DEF RecordInv
  <2>2. ASSUME NEW l \in enlace
        PROVE  file[l.photo] = "whole" \/ BeingWritten(l.photo) \/ l.photo \in hurt
    <3>1. l.photo \in Files
      BY DEF RecordInv, RecordsTyped
    <3>2. Safe(l.photo)
      BY <3>1 DEF RecordInv
    <3> QED
      BY <3>2 DEF Safe, Undisturbed, Writing, At1, BeingWritten
  <2> QED
    BY <2>1, <2>2 DEF RecordsAreKept, KeptIn
<1> QED
  BY <1>1, RecordsStart, RecordStep, PTL DEF QaSpec

-----------------------------------------------------------------------------
(* Surveys and their recordings.                                                     *)
Statuses == {"none", "created", "known", "not found", "invalid", "unsupported", "conflict"}
SurveyStates == [pc : {"insert survey", "find survey", "reply"}, what : {"survey"}, key : Keys,
                 body : Bodies, status : Statuses, id : Nat]
Uploading == {"look", "insert audio", "replace"}
AudioStates == [pc : {"store blob", "reply"} \cup Uploading, what : {"audio"}, key : Keys, sound : Sounds,
                again : BOOLEAN, status : Statuses, id : Nat]
States == {NoRequest} \cup SurveyStates \cup AudioStates

SurveysTyped ==
  /\ audio \subseteq [id : Nat, sound : Sounds] /\ ids \in Nat
  /\ request \in [Requests -> States]

(* What an answer says of the recording and of the survey, of the rows there are.     *)
RecordingKept(a, rows) == \E n \in rows : n.id = a.id

SaysTruth(a, rows) ==
  /\ Refusal(a.body) = "none"
  /\ IF a.status \in Acked THEN \E s \in rows : s.remote = a.id /\ s.hash = Canonical(a.body)
     ELSE \E s \in rows : s.hash # Canonical(a.body)

Answered(a, surveys, audios) ==
  /\ a.what = "audio" /\ a.status \in Acked => RecordingKept(a, audios)
  /\ a.what = "survey" /\ a.status \in Acked \cup {"conflict"} => SaysTruth(a, surveys)

(* A request that is past its file relies on it; who replaces a recording has its id; *)
(* a survey that is looked up was accepted.                                          *)
HoldsIn(q, surveys, audios, files) ==
  /\ q \in AudioStates /\ q.pc \in Uploading => q.sound \in files
  /\ q \in AudioStates /\ q.pc = "replace" => RecordingKept(q, audios)
  /\ q \in SurveyStates /\ q.pc # "reply" => Refusal(q.body) = "none"
  /\ q \in SurveyStates \cup AudioStates /\ q.pc = "reply" => Answered(q, surveys, audios)

(* A row is what the server makes of an accepted body.                               *)
RowOf(s, b) == s.remote \in Nat /\ Refusal(b) = "none" /\ s.hash = Canonical(b) /\ s.row = mapEncuestaToRow(b)

SurveysInv ==
  /\ SurveysTyped
  /\ \A r \in Requests : HoldsIn(request[r], survey, audio, blobs)
  /\ \A a \in told : a \in SurveyStates \cup AudioStates /\ Answered(a, survey, audio)
  /\ \A s \in survey : \E b \in Bodies : RowOf(s, b)
  /\ \A n \in audio : n.sound \in blobs
  /\ \A m, n \in audio : m.id = n.id

LEMMA SurveysStart == SurveysInit => SurveysInv
<1> SUFFICES ASSUME SurveysInit PROVE SurveysInv
  OBVIOUS
<1>1. NoRequest \notin SurveyStates \cup AudioStates
  <2>1. NoRequest.pc = "none"
    BY DEF NoRequest
  <2> QED
    BY <2>1 DEF SurveyStates, AudioStates, Uploading
<1> QED
  BY <1>1 DEF SurveysInit, SurveysInv, SurveysTyped, States, HoldsIn

(* What holds goes on holding: surveys are added, recordings keep their ids, files stay. *)
LEMMA AnsweredStays ==
  ASSUME NEW a, NEW surveys, NEW audios, NEW surveys2, NEW audios2, surveys \subseteq surveys2,
         \A m \in audios : \E n \in audios2 : n.id = m.id, Answered(a, surveys, audios)
  PROVE  Answered(a, surveys2, audios2)
BY DEF Answered, RecordingKept, SaysTruth

LEMMA HoldsStays ==
  ASSUME NEW q, NEW surveys, NEW audios, NEW files, NEW surveys2, NEW audios2, NEW files2,
         surveys \subseteq surveys2, files \subseteq files2,
         \A m \in audios : \E n \in audios2 : n.id = m.id, HoldsIn(q, surveys, audios, files)
  PROVE  HoldsIn(q, surveys2, audios2, files2)
BY AnsweredStays DEF HoldsIn, RecordingKept

LEMMA SurveyRequestGoesOn ==
  ASSUME SurveysInv, NEW r \in Requests, NEW n \in States, Becomes(r, n),
         survey \subseteq survey', \A s \in survey' : s \in survey \/ \E b \in Bodies : RowOf(s, b),
         audio' \subseteq [id : Nat, sound : Sounds], ids' \in Nat, blobs \subseteq blobs',
         \A a \in audio : \E m \in audio' : m.id = a.id, \A a, b \in audio' : a.id = b.id,
         \A a \in audio' : a.sound \in blobs',
         HoldsIn(n, survey', audio', blobs'),
         \A a \in told' : a \in told \/ (a \in SurveyStates \cup AudioStates /\ Answered(a, survey, audio))
  PROVE  SurveysInv'
<1>1. request' = [request EXCEPT ![r] = n] /\ SurveysTyped
  BY DEF Becomes, SurveysInv
<1>2. SurveysTyped'
  BY <1>1 DEF SurveysTyped
<1>3. ASSUME NEW s \in Requests
      PROVE  HoldsIn(request'[s], survey', audio', blobs')
  <2>1. CASE s = r
    BY <1>1, <2>1 DEF SurveysTyped
  <2>2. CASE s # r
    <3>1. PICK q \in States : q = request[s]
      BY <1>1 DEF SurveysTyped
    <3>2. HoldsIn(q, survey, audio, blobs)
      BY <3>1 DEF SurveysInv
    <3>3. HoldsIn(q, survey', audio', blobs')
      BY <3>2, HoldsStays
    <3> QED
      BY <1>1, <2>2, <3>1, <3>3 DEF SurveysTyped
  <2> QED
    BY <2>1, <2>2
<1>4. ASSUME NEW a \in told'
      PROVE  a \in SurveyStates \cup AudioStates /\ Answered(a, survey', audio')
  <2>1. a \in SurveyStates \cup AudioStates /\ Answered(a, survey, audio)
    BY <1>4 DEF SurveysInv
  <2> QED
    BY <2>1, AnsweredStays
<1> QED
  BY <1>2, <1>3, <1>4 DEF SurveysInv

(* Most steps touch neither rows nor files.                                          *)
LEMMA OnlyTheSurveyRequest ==
  ASSUME SurveysInv, NEW r \in Requests, NEW n \in States, Becomes(r, n),
         UNCHANGED <<survey, audio, blobs, ids>>, HoldsIn(n, survey, audio, blobs),
         \A a \in told' : a \in told \/ (a \in SurveyStates \cup AudioStates /\ Answered(a, survey, audio))
  PROVE  SurveysInv'
BY SurveyRequestGoesOn DEF SurveysInv, SurveysTyped

LEMMA KindsApart ==
  ASSUME NEW q \in States
  PROVE  /\ q \in SurveyStates => q \notin AudioStates /\ q.what = "survey"
         /\ q \in AudioStates => q \notin SurveyStates /\ q.what = "audio"
         /\ q.pc \in {"insert survey", "find survey"} => q \in SurveyStates
         /\ q.pc \in {"store blob"} \cup Uploading => q \in AudioStates
         /\ q.pc = "reply" => q \in SurveyStates \cup AudioStates
<1>1. CASE q = NoRequest
  <2>1. q.pc = "none"
    BY <1>1 DEF NoRequest
  <2> QED
    BY <2>1 DEF SurveyStates, AudioStates, Uploading
<1>2. CASE q \in SurveyStates
  BY <1>2 DEF SurveyStates, AudioStates, Uploading
<1>3. CASE q \in AudioStates
  BY <1>3 DEF SurveyStates, AudioStates, Uploading
<1> QED
  BY <1>1, <1>2, <1>3 DEF States

LEMMA Refusals ==
  ASSUME NEW b
  PROVE  Refusal(b) \in {"invalid", "unsupported", "none"}
BY DEF Refusal

SurveyMoved(q, pc, status, id) == [q EXCEPT !.pc = pc, !.status = status, !.id = id]
AudioMoved(q, pc, status, id) == [q EXCEPT !.pc = pc, !.status = status, !.id = id]

LEMMA SurveyReplies ==
  ASSUME NEW q \in SurveyStates, NEW status \in Statuses, NEW id \in Nat,
         NEW n, n = SurveyMoved(q, "reply", status, id)
  PROVE  /\ n \in SurveyStates /\ n \notin AudioStates /\ n.pc = "reply" /\ n.what = "survey"
         /\ n.status = status /\ n.id = id /\ n.body = q.body
<1>1. /\ n \in SurveyStates /\ n.pc = "reply" /\ n.what = "survey"
      /\ n.status = status /\ n.id = id /\ n.body = q.body
  BY DEF SurveyStates, SurveyMoved
<1> QED
  BY <1>1 DEF AudioStates

LEMMA SurveyStep == SurveysInv /\ [SurveysNext]_surveyVars => SurveysInv'
<1> SUFFICES ASSUME SurveysInv, [SurveysNext]_surveyVars PROVE SurveysInv'
  OBVIOUS
<1>0. SurveysTyped
  BY DEF SurveysInv
<1>a. ASSUME NEW r \in Requests
      PROVE  request[r] \in States /\ HoldsIn(request[r], survey, audio, blobs)
  BY <1>0 DEF SurveysInv, SurveysTyped
<1>b. NoRequest \in States /\ HoldsIn(NoRequest, survey, audio, blobs)
  <2>1. NoRequest \notin SurveyStates \cup AudioStates
    <3>1. NoRequest.pc = "none"
      BY DEF NoRequest
    <3> QED
      BY <3>1 DEF SurveyStates, AudioStates, Uploading
  <2> QED
    BY <2>1 DEF States, HoldsIn
<1>s. {"created", "known", "conflict"} \subseteq Statuses
  BY DEF Statuses
<1>1. ASSUME UNCHANGED <<survey, audio, blobs, request, told, ids>>
      PROVE  SurveysInv'
  BY <1>1 DEF SurveysInv, SurveysTyped
<1>2. CASE UNCHANGED surveyVars \/ \E k \in Keys : RegisterDevice(k) \/ RevokeDevice(k)
  BY <1>1, <1>2 DEF surveyVars, RegisterDevice, RevokeDevice
<1>3. ASSUME NEW r \in Requests, NEW k \in Keys, NEW b \in Bodies, PostSurvey(r, k, b)
      PROVE  SurveysInv'
  <2> DEFINE n == IF Refusal(b) = "none" THEN SurveyRequest(k, b)
                  ELSE [SurveyRequest(k, b) EXCEPT !.pc = "reply", !.status = Refusal(b)]
  <2>1. /\ Becomes(r, n) /\ UNCHANGED <<survey, audio, blobs, told, ids>>
    BY <1>3 DEF PostSurvey, Arrives
  <2>2. SurveyRequest(k, b) \in SurveyStates /\ SurveyRequest(k, b).pc = "insert survey" /\ SurveyRequest(k, b).body = b
    BY DEF SurveyRequest, SurveyStates, Statuses
  <2>3. /\ n \in SurveyStates
        /\ \/ n.pc = "insert survey" /\ n.body = b /\ Refusal(b) = "none"
           \/ n.pc = "reply" /\ n.status \notin Acked \cup {"conflict"}
    <3>1. CASE Refusal(b) = "none"
      BY <2>2, <3>1
    <3>2. CASE Refusal(b) # "none"
      <4>1. PICK f \in {"invalid", "unsupported"} : f = Refusal(b)
        BY <3>2, Refusals
      <4>2. n = [SurveyRequest(k, b) EXCEPT !.pc = "reply", !.status = f]
        BY <3>2, <4>1
      <4> HIDE DEF n
      <4> QED
        BY <4>2, 0 \in Nat DEF SurveyRequest, SurveyStates, Statuses, Acked
    <3> QED
      BY <3>1, <3>2
  <2> HIDE DEF n
  <2>4. n \in States /\ n \notin AudioStates /\ n.what = "survey"
    BY <2>3, KindsApart DEF States
  <2>5. HoldsIn(n, survey, audio, blobs)
    BY <2>3, <2>4 DEF HoldsIn, Answered
  <2> QED
    BY <2>1, <2>4, <2>5, OnlyTheSurveyRequest
<1>4. ASSUME NEW r \in Requests, NEW k \in Keys, NEW declared \in Sounds, NEW received \in Sounds,
             PostAudio(r, k, declared, received)
      PROVE  SurveysInv'
  <2> DEFINE q == AudioRequest(k, declared)
  <2>1. PICK n : /\ Becomes(r, n) /\ UNCHANGED <<survey, audio, blobs, told, ids>>
                 /\ \/ n = q
                    \/ n = [q EXCEPT !.pc = "reply", !.status = "not found"]
                    \/ n = [q EXCEPT !.pc = "reply", !.status = "invalid"]
    BY <1>4 DEF PostAudio, Arrives
  <2>2. n \in AudioStates /\ (n.pc = "store blob" \/ (n.pc = "reply" /\ n.status \notin Acked \cup {"conflict"}))
    <3>1. q \in AudioStates /\ q.pc = "store blob"
      BY DEF AudioRequest, AudioStates, Statuses
    <3>2. ASSUME NEW status \in {"not found", "invalid"}
          PROVE  LET m == [q EXCEPT !.pc = "reply", !.status = status]
                 IN  m \in AudioStates /\ m.pc = "reply" /\ m.status = status
      BY DEF AudioRequest, AudioStates, Statuses
    <3> QED
      BY <2>1, <3>1, <3>2 DEF Acked
  <2>3. n \in States /\ n \notin SurveyStates /\ n.what = "audio"
    BY <2>2, KindsApart DEF States
  <2>4. HoldsIn(n, survey, audio, blobs)
    BY <2>2, <2>3 DEF HoldsIn, Answered, Uploading
  <2> QED
    BY <2>1, <2>3, <2>4, OnlyTheSurveyRequest
<1>5. ASSUME NEW r \in Requests, InsertSurvey(r)
      PROVE  SurveysInv'
  <2>1. PICK q \in SurveyStates : q = request[r] /\ q.pc = "insert survey" /\ HoldsIn(q, survey, audio, blobs)
    BY <1>5, <1>a, KindsApart DEF InsertSurvey, In
  <2>2. q.body \in Bodies /\ Refusal(q.body) = "none"
    BY <2>1 DEF SurveyStates, HoldsIn
  <2>3. CASE survey = {}
    <3>1. PICK m \in Nat : m = ids + 1
      BY <1>0 DEF SurveysTyped
    <3> DEFINE n == SurveyMoved(q, "reply", "created", m)
               s == [remote |-> m, key |-> q.key, hash |-> Canonical(q.body), row |-> mapEncuestaToRow(q.body)]
    <3>2. /\ survey' = {s} /\ ids' = m /\ Becomes(r, n) /\ UNCHANGED <<audio, blobs, told>>
      BY <1>5, <2>1, <2>3, <3>1 DEF InsertSurvey, Replies, SurveyMoved
    <3>3. /\ n \in SurveyStates /\ n \notin AudioStates /\ n.pc = "reply" /\ n.what = "survey"
          /\ n.status = "created" /\ n.id = m /\ n.body = q.body
      BY <1>s, SurveyReplies
    <3>4. s.remote = m /\ s.hash = Canonical(q.body) /\ s.row = mapEncuestaToRow(q.body)
      OBVIOUS
    <3> HIDE DEF n, s
    <3>5. RowOf(s, q.body)
      BY <2>2, <3>1, <3>4 DEF RowOf
    <3>6. Answered(n, survey', audio')
      BY <2>2, <3>2, <3>3, <3>4 DEF Answered, SaysTruth, Acked
    <3>7. n \in States /\ HoldsIn(n, survey', audio', blobs')
      BY <3>3, <3>6 DEF HoldsIn, States
    <3> QED
      BY <1>0, <2>2, <2>3, <3>1, <3>2, <3>5, <3>7, SurveyRequestGoesOn
         DEF SurveysInv, SurveysTyped
  <2>4. CASE survey # {}
    <3> DEFINE n == [q EXCEPT !.pc = "find survey"]
    <3>1. Becomes(r, n) /\ UNCHANGED <<survey, audio, blobs, told, ids>>
      BY <1>5, <2>1, <2>4 DEF InsertSurvey, Goes
    <3>2. n \in SurveyStates /\ n.pc = "find survey" /\ n.body = q.body
      BY DEF SurveyStates
    <3> HIDE DEF n
    <3>3. n \in States /\ n \notin AudioStates
      BY <3>2, KindsApart DEF States
    <3> QED
      BY <2>2, <3>1, <3>2, <3>3, OnlyTheSurveyRequest DEF HoldsIn
  <2> QED
    BY <2>3, <2>4
<1>6. ASSUME NEW r \in Requests, FindSurvey(r)
      PROVE  SurveysInv'
  <2>1. PICK q \in SurveyStates : q = request[r] /\ q.pc = "find survey" /\ HoldsIn(q, survey, audio, blobs)
    BY <1>6, <1>a, KindsApart DEF FindSurvey, In
  <2>2. q.body \in Bodies /\ Refusal(q.body) = "none"
    BY <2>1 DEF SurveyStates, HoldsIn
  <2>3. PICK s \in survey : IF s.hash = Canonical(q.body) THEN Replies(r, "known", s.remote)
                            ELSE Replies(r, "conflict", 0)
    BY <1>6, <2>1 DEF FindSurvey
  <2>4. UNCHANGED <<survey, audio, blobs, told, ids>>
    BY <1>6 DEF FindSurvey
  <2>5. PICK status \in {"known", "conflict"}, id \in {s.remote, 0} :
          /\ Becomes(r, [q EXCEPT !.pc = "reply", !.status = status, !.id = id])
          /\ IF status = "known" THEN s.hash = Canonical(q.body) /\ id = s.remote
             ELSE s.hash # Canonical(q.body) /\ id = 0
    BY <2>1, <2>3 DEF Replies
  <2>6. id \in Nat
    BY <2>5 DEF SurveysInv, RowOf
  <2> DEFINE n == SurveyMoved(q, "reply", status, id)
  <2>7. /\ n \in SurveyStates /\ n \notin AudioStates /\ n.pc = "reply" /\ n.what = "survey"
        /\ n.status = status /\ n.id = id /\ n.body = q.body
    BY <2>5, <2>6, <1>s, SurveyReplies
  <2>8. Becomes(r, n)
    BY <2>5 DEF SurveyMoved
  <2> HIDE DEF n
  <2>9. Answered(n, survey, audio)
    BY <2>2, <2>5, <2>7 DEF Answered, SaysTruth, Acked
  <2>10. n \in States /\ HoldsIn(n, survey, audio, blobs)
    BY <2>7, <2>9 DEF HoldsIn, States
  <2> QED
    BY <2>4, <2>8, <2>10, OnlyTheSurveyRequest
<1>7. ASSUME NEW r \in Requests, StoreBlob(r)
      PROVE  SurveysInv'
  <2>1. PICK q \in AudioStates : q = request[r] /\ q.pc = "store blob"
    BY <1>7, <1>a, KindsApart DEF StoreBlob, In
  <2> DEFINE n == [q EXCEPT !.pc = "look"]
  <2>2. /\ Becomes(r, n) /\ blobs' = blobs \cup {q.sound} /\ UNCHANGED <<survey, audio, told, ids>>
    BY <1>7, <2>1 DEF StoreBlob, Goes
  <2>3. n \in AudioStates /\ n.pc = "look" /\ n.sound = q.sound
    BY DEF AudioStates, Uploading
  <2> HIDE DEF n
  <2>4. n \in States /\ n \notin SurveyStates
    BY <2>3, KindsApart DEF States
  <2>5. HoldsIn(n, survey', audio', blobs')
    BY <2>2, <2>3, <2>4 DEF HoldsIn
  <2> QED
    BY <1>0, <2>2, <2>4, <2>5, SurveyRequestGoesOn DEF SurveysInv, SurveysTyped
<1>8. ASSUME NEW r \in Requests, LookForSegment(r)
      PROVE  SurveysInv'
  <2>1. PICK q \in AudioStates : q = request[r] /\ q.pc = "look" /\ HoldsIn(q, survey, audio, blobs)
    BY <1>8, <1>a, KindsApart DEF LookForSegment, In, Uploading
  <2>2. q.sound \in blobs /\ q.status \in Statuses /\ q.again \in BOOLEAN /\ q.id \in Nat
    BY <2>1 DEF HoldsIn, Uploading, AudioStates
  <2>3. UNCHANGED <<survey, audio, blobs, told, ids>>
    BY <1>8 DEF LookForSegment
  <2>4. PICK pc \in {"insert audio", "reply", "replace"}, status \in Statuses, id \in {q.id} \cup {b.id : b \in audio} :
          /\ Becomes(r, [q EXCEPT !.pc = pc, !.status = status, !.id = id])
          /\ pc # "insert audio" => \E a \in audio : a.id = id
          /\ pc = "insert audio" => id = q.id
    <3>1. CASE audio = {}
      <4>1. [q EXCEPT !.pc = "insert audio"]
              = [q EXCEPT !.pc = "insert audio", !.status = q.status, !.id = q.id]
        BY DEF AudioStates
      <4>2. Becomes(r, [q EXCEPT !.pc = "insert audio"])
        BY <1>8, <2>1, <3>1 DEF LookForSegment, Goes
      <4> QED
        BY <2>2, <4>1, <4>2
    <3>2. CASE audio # {}
      <4>1. PICK a \in audio : IF a.sound = q.sound THEN Replies(r, "known", a.id)
                               ELSE Becomes(r, [q EXCEPT !.pc = "replace", !.id = a.id])
        BY <1>8, <2>1, <3>2 DEF LookForSegment
      <4>0. a.id \in {q.id} \cup {b.id : b \in audio}
        OBVIOUS
      <4>2. CASE a.sound = q.sound
        <5>1. Becomes(r, [q EXCEPT !.pc = "reply", !.status = "known", !.id = a.id]) /\ "known" \in Statuses
          BY <1>s, <2>1, <4>1, <4>2 DEF Replies
        <5> QED
          BY <4>0, <5>1
      <4>3. CASE a.sound # q.sound
        <5>1. [q EXCEPT !.pc = "replace", !.id = a.id]
                = [q EXCEPT !.pc = "replace", !.status = q.status, !.id = a.id]
          BY DEF AudioStates
        <5> QED
          BY <2>2, <4>0, <4>1, <4>3, <5>1, ZenonT(40)
      <4> QED
        BY <4>2, <4>3
    <3> QED
      BY <3>1, <3>2
  <2>5. id \in Nat
    BY <1>0, <2>2, <2>4 DEF SurveysTyped
  <2> DEFINE n == AudioMoved(q, pc, status, id)
  <2>6. /\ n \in AudioStates /\ n \notin SurveyStates /\ n.pc = pc /\ n.what = "audio"
        /\ n.status = status /\ n.id = id /\ n.sound = q.sound
    <3>1. n \in AudioStates
      BY <2>2, <2>5, <2>4 DEF AudioStates, AudioMoved, Uploading
    <3>2. n \notin SurveyStates /\ n.what = "audio"
      BY <3>1, KindsApart DEF States
    <3> QED
      BY <2>2, <2>5, <2>4, <3>1, <3>2 DEF AudioStates, AudioMoved
  <2>7. Becomes(r, n)
    BY <2>4 DEF AudioMoved
  <2> HIDE DEF n
  <2>8. n \in States /\ HoldsIn(n, survey, audio, blobs)
    BY <2>2, <2>4, <2>6 DEF HoldsIn, States, Answered, RecordingKept, Uploading
  <2> QED
    BY <2>3, <2>7, <2>8, OnlyTheSurveyRequest
<1>9. ASSUME NEW r \in Requests, InsertSegment(r)
      PROVE  SurveysInv'
  <2>1. PICK q \in AudioStates : q = request[r] /\ q.pc = "insert audio" /\ HoldsIn(q, survey, audio, blobs)
    BY <1>9, <1>a, KindsApart DEF InsertSegment, In, Uploading
  <2>2. q.sound \in blobs /\ q.sound \in Sounds /\ q.status \in Statuses /\ q.again \in BOOLEAN /\ q.id \in Nat
    BY <2>1 DEF HoldsIn, Uploading, AudioStates
  <2>3. CASE audio = {}
    <3>1. PICK m \in Nat : m = ids + 1
      BY <1>0 DEF SurveysTyped
    <3> DEFINE n == AudioMoved(q, "reply", "created", m)
               a == [id |-> m, sound |-> q.sound]
    <3>3. /\ audio' = {a} /\ ids' = m /\ Becomes(r, n) /\ UNCHANGED <<survey, blobs, told>>
      BY <1>9, <2>1, <2>3, <3>1 DEF InsertSegment, Replies, AudioMoved
    <3>4. /\ n \in AudioStates /\ n \notin SurveyStates /\ n.pc = "reply" /\ n.what = "audio"
          /\ n.status = "created" /\ n.id = m /\ n.sound = q.sound
      <4>1. n \in AudioStates
        BY <2>2, <1>s, <3>1 DEF AudioStates, AudioMoved, Uploading
      <4>2. n \notin SurveyStates /\ n.what = "audio"
        BY <4>1, KindsApart DEF States
      <4> QED
        BY <2>2, <1>s, <3>1, <4>1, <4>2 DEF AudioStates, AudioMoved
    <3>5. a \in [id : Nat, sound : Sounds] /\ a.id = m /\ a.sound = q.sound
      BY <2>2
    <3> HIDE DEF n, a
    <3>6. n \in States /\ HoldsIn(n, survey', audio', blobs')
      BY <3>3, <3>4, <3>5 DEF HoldsIn, States, Answered, RecordingKept, Uploading
    <3> QED
      BY <1>0, <2>2, <2>3, <3>1, <3>3, <3>5, <3>6, SurveyRequestGoesOn
         DEF SurveysInv, SurveysTyped
  <2>4. CASE audio # {}
    <3> DEFINE n == [q EXCEPT !.pc = "look", !.again = TRUE]
    <3>1. Becomes(r, n) /\ UNCHANGED <<survey, audio, blobs, told, ids>>
      BY <1>9, <2>1, <2>4 DEF InsertSegment
    <3>2. n \in AudioStates /\ n.pc = "look" /\ n.sound = q.sound
      BY DEF AudioStates, Uploading
    <3>3. n \notin SurveyStates
      BY <3>2, KindsApart DEF States
    <3> HIDE DEF n
    <3>4. n \in States /\ HoldsIn(n, survey, audio, blobs)
      BY <2>2, <3>2, <3>3 DEF HoldsIn, States
    <3> QED
      BY <3>1, <3>4, OnlyTheSurveyRequest
  <2> QED
    BY <2>3, <2>4
<1>10. ASSUME NEW r \in Requests, ReplaceSegment(r)
       PROVE  SurveysInv'
  <2>1. PICK q \in AudioStates : q = request[r] /\ q.pc = "replace" /\ HoldsIn(q, survey, audio, blobs)
    BY <1>10, <1>a, KindsApart DEF ReplaceSegment, In, Uploading
  <2>2. /\ q.sound \in blobs /\ q.sound \in Sounds /\ q.again \in BOOLEAN /\ q.id \in Nat
        /\ \E a \in audio : a.id = q.id
    BY <2>1 DEF HoldsIn, Uploading, AudioStates, RecordingKept
  <2> DEFINE n == AudioMoved(q, "reply", "known", q.id)
             a == [id |-> q.id, sound |-> q.sound]
  <2>4. audio' = {a} /\ Becomes(r, n) /\ UNCHANGED <<survey, blobs, told, ids>>
    BY <1>10, <2>1 DEF ReplaceSegment, Replaced, Replies, AudioMoved
  <2>5. /\ n \in AudioStates /\ n \notin SurveyStates /\ n.pc = "reply" /\ n.what = "audio"
        /\ n.status = "known" /\ n.id = q.id /\ n.sound = q.sound
    <3>1. n \in AudioStates
      BY <2>2, <1>s DEF AudioStates, AudioMoved, Uploading
    <3>2. n \notin SurveyStates /\ n.what = "audio"
      BY <3>1, KindsApart DEF States
    <3> QED
      BY <2>2, <1>s, <3>1, <3>2 DEF AudioStates, AudioMoved
  <2>6. a \in [id : Nat, sound : Sounds] /\ a.id = q.id /\ a.sound = q.sound
    BY <2>2
  <2> HIDE DEF n, a
  <2>7. n \in States /\ HoldsIn(n, survey', audio', blobs')
    BY <2>4, <2>5, <2>6 DEF HoldsIn, States, Answered, RecordingKept, Uploading
  <2>8. \A x \in audio : x.id = q.id
    BY <2>2 DEF SurveysInv
  <2> QED
    BY <1>0, <2>2, <2>4, <2>6, <2>7, <2>8, SurveyRequestGoesOn DEF SurveysTyped, SurveysInv
<1>11. ASSUME NEW r \in Requests, Reply(r) \/ Lose(r)
       PROVE  SurveysInv'
  <2>1. /\ Becomes(r, NoRequest) /\ UNCHANGED <<survey, audio, blobs, ids>>
        /\ told' = told \/ (request[r].pc = "reply" /\ told' = told \cup {request[r]})
    BY <1>11 DEF Reply, Lose, In
  <2>2. request[r].pc = "reply" => request[r] \in SurveyStates \cup AudioStates /\ Answered(request[r], survey, audio)
    BY <1>a, KindsApart DEF HoldsIn
  <2> QED
    BY <1>b, <2>1, <2>2, OnlyTheSurveyRequest
<1> QED
  BY <1>2, <1>3, <1>4, <1>5, <1>6, <1>7, <1>8, <1>9, <1>10, <1>11 DEF SurveysNext

(* Behind every row of a recording there is a whole file, and the id a phone was told is *)
(* the id of the recording ever after, in whatever order uploads of one segment are      *)
(* worked on, replaced, repeated or die: the upload of encuestasAudioService.             *)
THEOREM RecordingsStayThere == SurveysSpec => []RecordingsAreKept
<1>1. SurveysInv => RecordingsAreKept
  BY DEF SurveysInv, RecordingsAreKept, ToldOf, Answered, RecordingKept
<1> QED
  BY <1>1, SurveysStart, SurveyStep, PTL DEF SurveysSpec

-----------------------------------------------------------------------------
(* What a body says: an accepted body is hashed, stored and shown in the CSV, and the *)
(* three agree on what is the same.                                                  *)
Sound(b) == b.ubicacion.kind \in {"absent", "null", "taken", "missing"} /\ Refusal(b) = "none"

LEMMA SoundBodies ==
  ASSUME NEW b, Sound(b)
  PROVE  /\ b.version \in {1, 3, 4} /\ b.ubicacion.kind \in {"absent", "taken", "missing"}
         /\ b.version = 1 => \/ b.estado = "completada"
                             \/ b.estado = "noElegible"
<1>1. b.version \in Supported /\ Accepted(b)
  BY DEF Sound, Refusal
<1>2. b.ubicacion.kind # "null"
  BY <1>1 DEF Accepted, Common, ubicacion
<1>3. b.version = 1 => b.estado = "completada" \/ b.estado = "noElegible"
  BY <1>1 DEF Accepted
<1> QED
  BY <1>1, <1>2, <1>3 DEF Sound, Supported

SameHash(b, c) ==
  /\ b.idLocal = c.idLocal /\ Trimmed(b.encuestador) = Trimmed(c.encuestador)
  /\ b.version = c.version /\ b.estado = c.estado
  /\ b.inicio.at = c.inicio.at /\ b.fin.at = c.fin.at /\ b.duracion = c.duracion
  /\ Answers(b) = Answers(c) /\ Position(b.ubicacion) = Position(c.ubicacion)
  /\ Trimmed(b.versionAplicacion) = Trimmed(c.versionAplicacion)
  /\ Eligibility(b) = Eligibility(c)

LEMMA HashIsContent == ASSUME NEW b, NEW c PROVE Canonical(b) = Canonical(c) <=> SameHash(b, c)
<1>1. Canonical(b) = Canonical(c) => SameHash(b, c)
  BY DEF Canonical, SameHash
<1>2. SameHash(b, c) => CanonicalVersion(b) = CanonicalVersion(c)
  BY DEF SameHash, CanonicalVersion
<1>3. SameHash(b, c) => Canonical(b) = Canonical(c)
  BY <1>2 DEF SameHash, Canonical
<1> QED
  BY <1>1, <1>3

LEMMA PositionsAndRows ==
  ASSUME NEW u, NEW w, u.kind \in {"absent", "taken", "missing"}, w.kind \in {"absent", "taken", "missing"},
         Position(u) = Position(w)
  PROVE  ubicacionRow(u) = ubicacionRow(w)
<1>1. u.kind = w.kind
  BY DEF Position
<1>2. CASE u.kind = "absent"
  BY <1>1, <1>2 DEF ubicacionRow
<1>3. CASE u.kind = "taken"
  <2>1. u.precision = w.precision /\ u.esValida = w.esValida
    BY <1>1, <1>3 DEF Position
  <2> QED
    BY <1>1, <1>3, <2>1 DEF ubicacionRow
<1>4. CASE u.kind = "missing"
  <2>1. u.permiso = w.permiso /\ u.servicioActivo = w.servicioActivo /\ u.motivo = w.motivo
    BY <1>1, <1>4 DEF Position
  <2> QED
    BY <1>1, <1>4, <2>1 DEF ubicacionRow
<1> QED
  BY <1>2, <1>3, <1>4

LEMMA SameHashSameRow ==
  ASSUME NEW b, NEW c, Sound(b), Sound(c), Canonical(b) = Canonical(c)
  PROVE  mapEncuestaToRow(b) = mapEncuestaToRow(c)
<1>1. SameHash(b, c)
  BY HashIsContent
<1>2. AnswerColumns(b) = AnswerColumns(c)
  <2>1. CASE b.version = 1 /\ b.estado = "noElegible"
    <3>1. b.respuestas.credencial = c.respuestas.credencial
      BY <1>1, <2>1 DEF SameHash, Answers, AnswersV1
    <3> QED
      BY <1>1, <2>1, <3>1 DEF SameHash, AnswerColumns
  <2>2. CASE ~(b.version = 1 /\ b.estado = "noElegible")
    BY <1>1, <2>2 DEF SameHash, AnswerColumns
  <2> QED
    BY <2>1, <2>2
<1>3. ubicacionRow(b.ubicacion) = ubicacionRow(c.ubicacion)
  BY <1>1, PositionsAndRows, SoundBodies DEF SameHash
<1> QED
  BY <1>1, <1>2, <1>3 DEF SameHash, mapEncuestaToRow

(* Cells that are printed as they are: what is there can be read back.               *)
LEMMA CellsTell ==
  ASSUME NEW row, NEW other, NEW column, column \in DOMAIN row, column \in DOMAIN other
  PROVE  Cell(row, column) = Cell(other, column) => row[column] = other[column]
<1>1. Cell(row, column) = {row[column]} /\ Cell(other, column) = {other[column]}
  BY DEF Cell
<1>2. ASSUME NEW x, NEW y, {x} = {y} PROVE x = y
  <2>1. x \in {x}
    OBVIOUS
  <2> QED
    BY <1>2, <2>1
<1> QED
  BY <1>1, <1>2

LEMMA PivotsTell ==
  ASSUME NEW catalogue, NEW row, NEW other, NEW column, column \in DOMAIN row, column \in DOMAIN other,
         Pivot(row, column, catalogue) = Pivot(other, column, catalogue), NEW f, NEW g,
         row[column] = [c \in catalogue |-> f[c]], other[column] = [c \in catalogue |-> g[c]]
  PROVE  row[column] = other[column]
<1>1. ASSUME NEW c \in catalogue PROVE row[column][c] = other[column][c]
  <2>1. Pivot(row, column, catalogue)[c] = {row[column][c]}
    BY DEF Pivot
  <2>2. Pivot(other, column, catalogue)[c] = {other[column][c]}
    BY DEF Pivot
  <2> QED
    BY <2>1, <2>2
<1> QED
  BY <1>1

LEMMA LinesTellPositions ==
  ASSUME NEW u, NEW w, u.kind \in {"absent", "taken", "missing"}, w.kind \in {"absent", "taken", "missing"},
         \A c \in {"disponible", "precision", "esValida", "permiso", "servicioActivo", "motivo"} :
           Cell(ubicacionRow(u), c) = Cell(ubicacionRow(w), c)
  PROVE  Position(u) = Position(w)
<1> DEFINE r == ubicacionRow(u)
           s == ubicacionRow(w)
<1>0. /\ Cell(r, "disponible") = Cell(s, "disponible") /\ Cell(r, "precision") = Cell(s, "precision")
      /\ Cell(r, "esValida") = Cell(s, "esValida") /\ Cell(r, "permiso") = Cell(s, "permiso")
      /\ Cell(r, "servicioActivo") = Cell(s, "servicioActivo") /\ Cell(r, "motivo") = Cell(s, "motivo")
  OBVIOUS
<1>1. ASSUME NEW x
      PROVE  /\ x.kind = "absent" => DOMAIN ubicacionRow(x) = {}
             /\ x.kind = "taken" =>
                  /\ {"disponible", "precision", "esValida"} \subseteq DOMAIN ubicacionRow(x)
                  /\ ubicacionRow(x).disponible = TRUE /\ ubicacionRow(x).precision = x.precision
                  /\ ubicacionRow(x).esValida = x.esValida
             /\ x.kind = "missing" =>
                  /\ {"disponible", "permiso", "servicioActivo", "motivo"} \subseteq DOMAIN ubicacionRow(x)
                  /\ ubicacionRow(x).disponible = FALSE /\ ubicacionRow(x).permiso = x.permiso
                  /\ ubicacionRow(x).servicioActivo = x.servicioActivo /\ ubicacionRow(x).motivo = x.motivo
  <2>1. CASE x.kind = "absent"
    BY <2>1 DEF ubicacionRow
  <2>2. CASE x.kind = "taken"
    BY <2>2 DEF ubicacionRow
  <2>3. CASE x.kind = "missing"
    BY <2>3 DEF ubicacionRow
  <2> QED
    BY <2>1, <2>2, <2>3
<1> HIDE DEF r, s
<1>2. /\ u.kind = "absent" => DOMAIN r = {}
      /\ u.kind = "taken" =>
           /\ {"disponible", "precision", "esValida"} \subseteq DOMAIN r
           /\ r.disponible = TRUE /\ r.precision = u.precision /\ r.esValida = u.esValida
      /\ u.kind = "missing" =>
           /\ {"disponible", "permiso", "servicioActivo", "motivo"} \subseteq DOMAIN r
           /\ r.disponible = FALSE /\ r.permiso = u.permiso
           /\ r.servicioActivo = u.servicioActivo /\ r.motivo = u.motivo
  BY <1>1 DEF r
<1>3. /\ w.kind = "absent" => DOMAIN s = {}
      /\ w.kind = "taken" =>
           /\ {"disponible", "precision", "esValida"} \subseteq DOMAIN s
           /\ s.disponible = TRUE /\ s.precision = w.precision /\ s.esValida = w.esValida
      /\ w.kind = "missing" =>
           /\ {"disponible", "permiso", "servicioActivo", "motivo"} \subseteq DOMAIN s
           /\ s.disponible = FALSE /\ s.permiso = w.permiso
           /\ s.servicioActivo = w.servicioActivo /\ s.motivo = w.motivo
  BY <1>1 DEF s
<1>4. u.kind = w.kind
  <2>1. "disponible" \in DOMAIN r <=> u.kind # "absent"
    BY <1>2
  <2>2. "disponible" \in DOMAIN s <=> w.kind # "absent"
    BY <1>3
  <2>3. "disponible" \in DOMAIN r <=> "disponible" \in DOMAIN s
    BY <1>0 DEF Cell
  <2>4. u.kind # "absent" => r["disponible"] = s["disponible"]
    BY <1>0, <2>1, <2>2, <2>3, CellsTell
  <2> QED
    BY <1>2, <1>3, <2>1, <2>2, <2>3, <2>4
<1>5. CASE u.kind = "absent"
  BY <1>4, <1>5 DEF Position
<1>6. CASE u.kind = "taken"
  <2>1. r["precision"] = s["precision"] /\ r["esValida"] = s["esValida"]
    BY <1>0, <1>2, <1>3, <1>4, <1>6, CellsTell
  <2> QED
    BY <1>2, <1>3, <1>4, <1>6, <2>1 DEF Position
<1>7. CASE u.kind = "missing"
  <2>1. /\ r["permiso"] = s["permiso"] /\ r["servicioActivo"] = s["servicioActivo"]
        /\ r["motivo"] = s["motivo"]
    BY <1>0, <1>2, <1>3, <1>4, <1>7, CellsTell
  <2> QED
    BY <1>2, <1>3, <1>4, <1>7, <2>1 DEF Position
<1> QED
  BY <1>5, <1>6, <1>7

LEMMA LinesTellAnswers ==
  ASSUME NEW b, NEW c, Sound(b), Sound(c), b.version = c.version, b.estado = c.estado,
         AnswerLine(AnswerColumns(b)) = AnswerLine(AnswerColumns(c)),
         \A column \in {"preferenciaOtro", "empresarios", "politicos"} :
           Cell(AnswerColumns(b), column) = Cell(AnswerColumns(c), column)
  PROVE  Answers(b) = Answers(c)
<1> DEFINE r == AnswerColumns(b)
           s == AnswerColumns(c)
<1>1. /\ Cell(r, "credencial") = Cell(s, "credencial")
      /\ Cell(r, "empresarios") = Cell(s, "empresarios")
      /\ Cell(r, "politicos") = Cell(s, "politicos")
      /\ Cell(r, "preferencia") = Cell(s, "preferencia")
      /\ Cell(r, "preferenciaOtro") = Cell(s, "preferenciaOtro")
      /\ Pivot(r, "aprobacion", Governors) = Pivot(s, "aprobacion", Governors)
      /\ Pivot(r, "conocimiento", People) = Pivot(s, "conocimiento", People)
      /\ celdasDeMedios(r) = celdasDeMedios(s)
  BY DEF AnswerLine
<1>2. Cell(r, "tipo") = Cell(s, "tipo") /\ UNION Cell(r, "medios") = UNION Cell(s, "medios")
  BY <1>1 DEF celdasDeMedios
<1>3. b.version \in {1, 3, 4}
  BY SoundBodies
<1>4. CASE b.version = 1 /\ b.estado = "noElegible"
  <2>1. /\ "credencial" \in DOMAIN r /\ r.credencial = b.respuestas.credencial
        /\ "credencial" \in DOMAIN s /\ s.credencial = c.respuestas.credencial
    BY <1>4 DEF AnswerColumns
  <2>2. r.credencial = s.credencial
    BY <1>1, <2>1, CellsTell
  <2> QED
    BY <1>4, <2>1, <2>2 DEF Answers, AnswersV1
<1>5. CASE b.version = 1 /\ b.estado # "noElegible"
  <2>1. r = AnswersV1(b) /\ s = AnswersV1(c) /\ Answers(b) = AnswersV1(b) /\ Answers(c) = AnswersV1(c)
    BY <1>5 DEF AnswerColumns, Answers
  <2> DEFINE K(x) == ByCatalogue(x.respuestas.conocimiento, Person, Level, People)
             M(x) == IF x.respuestas.medios.tipo = "respondida" THEN Range(x.respuestas.medios.medios) ELSE {}
  <2>2. ASSUME NEW x, x.estado # "noElegible"
        PROVE  AnswersV1(x) = [credencial |-> x.respuestas.credencial, conocimiento |-> K(x),
                               tipo |-> x.respuestas.medios.tipo, medios |-> M(x)]
    BY <2>2 DEF AnswersV1
  <2>3. ASSUME NEW x PROVE K(x) = [p \in People |-> K(x)[p]]
    BY DEF ByCatalogue
  <2> HIDE DEF K, M
  <2>4. /\ r = [credencial |-> b.respuestas.credencial, conocimiento |-> K(b),
                tipo |-> b.respuestas.medios.tipo, medios |-> M(b)]
        /\ s = [credencial |-> c.respuestas.credencial, conocimiento |-> K(c),
                tipo |-> c.respuestas.medios.tipo, medios |-> M(c)]
    BY <1>5, <2>1, <2>2
  <2> HIDE DEF r, s
  <2>5. {"credencial", "conocimiento", "tipo", "medios"} \subseteq DOMAIN r \cap DOMAIN s
    BY <2>4
  <2>6. r.credencial = s.credencial /\ r.tipo = s.tipo
    BY <1>1, <1>2, <2>5, CellsTell
  <2>7. r.medios = s.medios
    <3>1. Cell(r, "medios") = {r.medios} /\ Cell(s, "medios") = {s.medios}
      BY <2>5 DEF Cell
    <3>2. ASSUME NEW x PROVE UNION {x} = x
      OBVIOUS
    <3>3. UNION {r.medios} = UNION {s.medios}
      BY <1>2, <3>1
    <3>4. UNION {r.medios} = r.medios /\ UNION {s.medios} = s.medios
      BY <3>2
    <3> QED
      BY <3>3, <3>4
  <2>8. r.conocimiento = s.conocimiento
    <3>1. PICK f : r["conocimiento"] = [p \in People |-> f[p]]
      BY <2>3, <2>4
    <3>2. PICK g : s["conocimiento"] = [p \in People |-> g[p]]
      BY <2>3, <2>4
    <3> QED
      BY <1>1, <2>5, <3>1, <3>2, PivotsTell
  <2> QED
    BY <2>1, <2>4, <2>6, <2>7, <2>8
<1>6. CASE b.version \in {3, 4}
  <2> DEFINE E(x) == TrimmedNames(x.respuestas.empresariosConocidos)
             P(x) == TrimmedNames(x.respuestas.politicosConocidos)
             A(x) == ByCatalogue(x.respuestas.aprobacion, Governor, Mark, Governors)
  <2>1. ASSUME NEW x
        PROVE  AnswersV3(x.respuestas) = [empresarios |-> E(x), politicos |-> P(x),
                                          preferencia |-> x.respuestas.preferencia, aprobacion |-> A(x)]
    BY DEF AnswersV3
  <2>2. ASSUME NEW x PROVE A(x) = [g \in Governors |-> A(x)[g]]
    BY DEF ByCatalogue
  <2> HIDE DEF E, P, A
  <2>3. r = Answers(b) /\ s = Answers(c)
    BY <1>6 DEF AnswerColumns
  <2>4. ASSUME NEW x, x.version \in {3, 4}
        PROVE  LET a == Answers(x)
               IN  /\ {"empresarios", "politicos", "preferencia", "aprobacion"} \subseteq DOMAIN a
                   /\ a.empresarios = E(x) /\ a.politicos = P(x)
                   /\ a.preferencia = x.respuestas.preferencia /\ a.aprobacion = A(x)
                   /\ x.version = 4 => "preferenciaOtro" \in DOMAIN a
                   /\ x.version = 3 => a = [empresarios |-> a.empresarios, politicos |-> a.politicos,
                                            preferencia |-> a.preferencia, aprobacion |-> a.aprobacion]
                   /\ x.version = 4 => a = [empresarios |-> a.empresarios, politicos |-> a.politicos,
                                            preferencia |-> a.preferencia, aprobacion |-> a.aprobacion,
                                            preferenciaOtro |-> a.preferenciaOtro]
    <3>1. CASE x.version = 3
      <4>1. Answers(x) = [empresarios |-> E(x), politicos |-> P(x),
                          preferencia |-> x.respuestas.preferencia, aprobacion |-> A(x)]
        BY <2>1, <3>1 DEF Answers
      <4> QED
        BY <3>1, <4>1
    <3>2. CASE x.version = 4
      <4>1. Answers(x) = AnswersV4(x.respuestas)
        BY <3>2 DEF Answers
      <4> DEFINE same == AnswersV3(x.respuestas)
      <4>0. same = [empresarios |-> E(x), politicos |-> P(x),
                    preferencia |-> x.respuestas.preferencia, aprobacion |-> A(x)]
        BY <2>1
      <4>2. /\ same.empresarios = E(x) /\ same.politicos = P(x)
            /\ same.preferencia = x.respuestas.preferencia /\ same.aprobacion = A(x)
        <5> HIDE DEF same
        <5> QED
          BY <4>0
      <4>3. AnswersV4(x.respuestas) =
              [empresarios |-> same.empresarios, politicos |-> same.politicos,
               preferencia |-> same.preferencia, aprobacion |-> same.aprobacion,
               preferenciaOtro |-> Trimmed(x.respuestas.preferenciaOtro)]
        BY DEF AnswersV4
      <4> HIDE DEF same
      <4>4. Answers(x) = [empresarios |-> E(x), politicos |-> P(x),
                          preferencia |-> x.respuestas.preferencia, aprobacion |-> A(x),
                          preferenciaOtro |-> Trimmed(x.respuestas.preferenciaOtro)]
        BY <4>1, <4>2, <4>3
      <4> QED
        BY <3>2, <4>4
    <3> QED
      BY <2>4, <3>1, <3>2
  <2> HIDE DEF r, s
  <2>5. {"empresarios", "politicos", "preferencia", "aprobacion"} \subseteq DOMAIN r \cap DOMAIN s
    BY <1>6, <2>3, <2>4
  <2>6. r.empresarios = s.empresarios /\ r.politicos = s.politicos /\ r.preferencia = s.preferencia
    BY <1>1, <2>5, CellsTell
  <2>7. r.aprobacion = s.aprobacion
    <3>1. PICK f : r["aprobacion"] = [g \in Governors |-> f[g]]
      BY <1>6, <2>2, <2>3, <2>4
    <3>2. PICK g : s["aprobacion"] = [h \in Governors |-> g[h]]
      BY <1>6, <2>2, <2>3, <2>4
    <3> QED
      BY <1>1, <2>5, <3>1, <3>2, PivotsTell
  <2>8. b.version = 4 => r.preferenciaOtro = s.preferenciaOtro
    <3>1. b.version = 4 => "preferenciaOtro" \in DOMAIN r /\ "preferenciaOtro" \in DOMAIN s
      <4>1. b.version = 4 => "preferenciaOtro" \in DOMAIN Answers(b)
        BY <2>4
      <4>2. c.version = 4 => "preferenciaOtro" \in DOMAIN Answers(c)
        BY <2>4
      <4> QED
        BY <2>3, <4>1, <4>2
    <3>2. b.version = 4 => r["preferenciaOtro"] = s["preferenciaOtro"]
      BY <1>1, <3>1, CellsTell
    <3> QED
      BY <3>2
  <2> QED
    BY <1>6, <2>3, <2>4, <2>6, <2>7, <2>8
<1> QED
  BY <1>3, <1>4, <1>5, <1>6

(* Surveys that were typed alike and have one line in the CSV have one hash.  The line   *)
(* alone would not do: lists of names, and texts like formulas, may print alike.          *)
LEMMA SameLineSameHash ==
  ASSUME NEW b, NEW c, Sound(b), Sound(c),
         Typed(mapEncuestaToRow(b)) = Typed(mapEncuestaToRow(c)),
         toCsvRow(mapEncuestaToRow(b)) = toCsvRow(mapEncuestaToRow(c))
  PROVE  Canonical(b) = Canonical(c)
<1> DEFINE m == mapEncuestaToRow(b)
           n == mapEncuestaToRow(c)
<1>1. ASSUME NEW x
      PROVE  LET y == mapEncuestaToRow(x)
             IN  /\ y.idLocal = x.idLocal /\ y.version = x.version /\ y.estado = x.estado
                 /\ y.inicio = x.inicio.at /\ y.fin = x.fin.at /\ y.duracion = x.duracion
                 /\ y.app = Trimmed(x.versionAplicacion) /\ y.encuestador = Trimmed(x.encuestador)
                 /\ y.elegibilidad = Eligibility(x)
                 /\ y.respuestas = AnswerColumns(x) /\ y.ubicacion = ubicacionRow(x.ubicacion)
  BY DEF mapEncuestaToRow
<1> HIDE DEF m, n
<1>2. /\ toCsvRow(m).common = toCsvRow(n).common /\ m.elegibilidad = n.elegibilidad
      /\ AnswerLine(m.respuestas) = AnswerLine(n.respuestas)
      /\ toCsvRow(m).position = toCsvRow(n).position
  BY DEF toCsvRow, m, n
<1>3. /\ m.idLocal = n.idLocal /\ m.version = n.version
      /\ m.estado = n.estado /\ m.inicio = n.inicio /\ m.fin = n.fin /\ m.duracion = n.duracion
  BY <1>2 DEF toCsvRow
<1>4. /\ m.encuestador = n.encuestador /\ m.app = n.app
      /\ \A column \in {"preferenciaOtro", "empresarios", "politicos"} :
           Cell(m.respuestas, column) = Cell(n.respuestas, column)
  <2>1. Typed(m) = Typed(n)
    BY DEF m, n
  <2> QED
    BY <2>1 DEF Typed
<1>5. ASSUME NEW column \in {"disponible", "precision", "esValida", "permiso", "servicioActivo", "motivo"}
      PROVE  Cell(m.ubicacion, column) = Cell(n.ubicacion, column)
  <2>1. ASSUME NEW y PROVE toCsvRow(y).position[column] = Cell(y.ubicacion, column)
    BY DEF toCsvRow
  <2> QED
    BY <1>2, <2>1
<1>6. Position(b.ubicacion) = Position(c.ubicacion)
  BY <1>1, <1>5, LinesTellPositions, SoundBodies, SMTT(30) DEF m, n
<1>7. Answers(b) = Answers(c)
  BY <1>1, <1>2, <1>3, <1>4, LinesTellAnswers DEF m, n
<1>8. SameHash(b, c)
  BY <1>1, <1>2, <1>3, <1>4, <1>6, <1>7 DEF SameHash, m, n
<1> QED
  BY <1>8, HashIsContent

(* A survey answered with 2xx is stored as exactly what the phone sent, under the id it *)
(* was told; one answered with 409 says something else, in what was typed or in its      *)
(* line of the CSV: the idempotent insert of encuestasIngestService, the hash it         *)
(* compares, and toCsvRow of encuestasRevisionService.                                   *)
THEOREM AnswersStayTrue == SurveysSpec => []AnswersAreTrue
<1>1. SurveysInv => AnswersAreTrue
  <2> SUFFICES ASSUME SurveysInv PROVE AnswersAreTrue
    OBVIOUS
  <2>1. ASSUME NEW b \in Bodies, Refusal(b) = "none" PROVE Sound(b)
    BY <2>1, SurveyConstants DEF Sound
  <2>2. ASSUME NEW a \in told, a.what = "survey", a.status \in Acked \cup {"conflict"}
        PROVE  Sound(a.body) /\ SaysTruth(a, survey)
    <3>1. a \in SurveyStates \cup AudioStates /\ Answered(a, survey, audio)
      BY DEF SurveysInv
    <3>2. a.body \in Bodies
      BY <2>2, <3>1 DEF SurveyStates, AudioStates
    <3> QED
      BY <2>1, <2>2, <3>1, <3>2 DEF Answered, SaysTruth
  <2>3. ASSUME NEW s \in survey
        PROVE  \E b \in Bodies : RowOf(s, b) /\ Sound(b)
    BY <2>1 DEF SurveysInv, RowOf
  <2>4. ASSUME NEW a \in told, a.what = "survey", a.status \in Acked
        PROVE  \E s \in survey : s.remote = a.id /\ s.row = mapEncuestaToRow(a.body)
    <3>1. PICK s \in survey : s.remote = a.id /\ s.hash = Canonical(a.body)
      BY <2>2, <2>4 DEF SaysTruth
    <3>2. PICK b \in Bodies : RowOf(s, b) /\ Sound(b)
      BY <2>3
    <3> QED
      BY <2>2, <2>4, <3>1, <3>2, SameHashSameRow DEF RowOf
  <2>5. ASSUME NEW a \in told, a.what = "survey", a.status = "conflict"
        PROVE  \E s \in survey : Typed(s.row) = Typed(mapEncuestaToRow(a.body))
                                   => toCsvRow(s.row) # toCsvRow(mapEncuestaToRow(a.body))
    <3>1. PICK s \in survey : s.hash # Canonical(a.body)
      BY <2>2, <2>5 DEF SaysTruth, Acked
    <3>2. PICK b \in Bodies : RowOf(s, b) /\ Sound(b)
      BY <2>3
    <3> QED
      BY <2>2, <2>5, <3>1, <3>2, SameLineSameHash DEF RowOf
  <2> QED
    BY <2>4, <2>5 DEF AnswersAreTrue, ToldOf
<1> QED
  BY <1>1, SurveysStart, SurveyStep, PTL DEF SurveysSpec

-----------------------------------------------------------------------------
(* The downloads.  The rows of a batch are counted by their places.                    *)

(* Some natural numbers have a smallest one. *)
LEMMA SmallestOf ==
  ASSUME NEW A \in SUBSET Nat, A # {}
  PROVE  \E n \in A : \A m \in A : n <= m
<1> DEFINE Below == {ss \in Nat \X Nat : ss[1] < ss[2]}
<1>1. IsWellFoundedOn(Below, Nat)
  BY NatLessThanWellFounded DEF OpToRel
<1> HIDE DEF Below
<1>2. \E n \in A : \A m \in A : ~(<<m, n>> \in Below)
  BY <1>1, WFMin
<1>3. \E n \in A : \A m \in A : ~(m < n)
  BY <1>2 DEF Below
<1> QED
  BY <1>3

(* Some surveys have a last one, and Max finds it. *)
LEMMA LargestOf ==
  ASSUME NEW N \in Nat, NEW A \in SUBSET (1..N), A # {}
  PROVE  /\ \E n \in A : \A m \in A : m <= n
         /\ Max(A) \in A /\ \A m \in A : m <= Max(A)
<1> DEFINE Gaps == {N - a : a \in A}
<1>0. \A a \in A : a \in 1..N
  OBVIOUS
<1>1. Gaps \in SUBSET Nat /\ Gaps # {}
  <2>1. \A a \in A : N - a \in Nat
    BY <1>0
  <2> QED
    BY <2>1
<1>2. PICK g \in Gaps : \A f \in Gaps : g <= f
  BY <1>1, SmallestOf
<1>3. PICK a \in A : g = N - a
  OBVIOUS
<1>4. \A m \in A : N - a <= N - m
  BY <1>2, <1>3
<1>5. \A m \in A : m <= a /\ a >= m
  BY <1>0, <1>3, <1>4
<1>6. Max(A) \in A /\ \A m \in A : Max(A) >= m
  BY <1>5 DEF Max
<1> QED
  BY <1>5, <1>6

(* Those of F up to i; the place of a survey among those from the cursor on. *)
Until(i, F) == {j \in F : j <= i}

LEMMA PlaceIs == \A i, F : Place(i, F) = Cardinality(Until(i, F))
BY DEF Place, Until

(* Places ascend, and none is left out below one that is taken. *)
LEMMA Places ==
  ASSUME NEW N \in Nat, NEW F \in SUBSET (1..N)
  PROVE  /\ IsFiniteSet(F)
         /\ \A i \in F : Place(i, F) \in Nat /\ Place(i, F) >= 1
         /\ \A i, j \in F : i < j => Place(i, F) < Place(j, F)
         /\ \A i \in F : \A v \in 1..Place(i, F) : \E j \in F : Place(j, F) = v
<1>0. \A i \in F : i \in Nat
  OBVIOUS
<1>1. IsFiniteSet(F)
  <2>1. IsFiniteSet(1..N)
    BY FS_Interval
  <2> QED
    BY <2>1, FS_Subset
<1>2. ASSUME NEW i
      PROVE  /\ IsFiniteSet(Until(i, F)) /\ Cardinality(Until(i, F)) \in Nat
             /\ Place(i, F) = Cardinality(Until(i, F)) /\ Until(i, F) \in SUBSET F
  <2>1. Until(i, F) \in SUBSET F
    BY DEF Until
  <2>2. IsFiniteSet(Until(i, F)) /\ Cardinality(Until(i, F)) \in Nat
    BY <1>1, <2>1, FS_Subset, FS_CardinalityType
  <2> QED
    BY <2>1, <2>2, PlaceIs
<1>3. ASSUME NEW i \in F
      PROVE  Place(i, F) >= 1
  <2>1. i \in Until(i, F)
    BY DEF Until
  <2>2. Cardinality(Until(i, F)) # 0
    BY <1>2, <2>1, FS_EmptySet
  <2> QED
    BY <1>2, <2>2
<1>4. ASSUME NEW i \in F, NEW j \in F, i < j
      PROVE  Place(i, F) < Place(j, F)
  <2>0. i \in Nat /\ j \in Nat
    BY <1>0
  <2>1. Until(i, F) \subseteq Until(j, F)
    <3>1. \A h \in F : h <= i => h <= j
      BY <1>0, <1>4, <2>0
    <3> QED
      BY <3>1 DEF Until
  <2>3. j \in Until(j, F) /\ j \notin Until(i, F)
    BY <1>4, <2>0 DEF Until
  <2>2. /\ Cardinality(Until(i, F)) <= Cardinality(Until(j, F))
        /\ Cardinality(Until(j, F)) = Cardinality(Until(i, F)) => Until(j, F) = Until(i, F)
    BY <1>2, <2>1, FS_Subset
  <2> QED
    BY <1>2, <2>1, <2>2, <2>3
<1>5. ASSUME NEW i \in F, NEW v \in 1..Place(i, F)
      PROVE  \E j \in F : Place(j, F) = v
  <2> DEFINE Late == {j \in F : Place(j, F) >= v}
  <2>0. v \in Nat /\ Place(i, F) \in Nat /\ v <= Place(i, F)
    BY <1>2
  <2>1. i \in Late /\ Late \subseteq Nat
    BY <1>0, <2>0
  <2>2. PICK j \in Late : \A h \in Late : j <= h
    BY <2>1, SmallestOf
  <2>3. j \in F /\ Place(j, F) \in Nat /\ Place(j, F) >= v
    BY <1>2, <2>2
  <2> DEFINE Before == {h \in F : h < j}
  <2>8. j \notin Before /\ Before \subseteq F
    BY <1>0, <2>3
  <2>9. Until(j, F) = Before \cup {j}
    <3>1. \A h \in F : h <= j <=> (h < j \/ h = j)
      BY <1>0, <2>3
    <3> QED
      BY <2>3, <3>1 DEF Until
  <2>4. Until(j, F) = Before \cup {j} /\ j \notin Before /\ Before \subseteq F
    BY <2>8, <2>9
  <2>5. /\ IsFiniteSet(Before) /\ Cardinality(Before) \in Nat
        /\ Cardinality(Before \cup {j}) = Cardinality(Before) + 1
    BY <1>1, <2>4, FS_Subset, FS_AddElement, FS_CardinalityType
  <2>6. Place(j, F) = Cardinality(Before) + 1
    BY <1>2, <2>4, <2>5
  <2>7. Cardinality(Before) < v
    <3>1. CASE Before = {}
      BY <3>1, FS_EmptySet
    <3>2. CASE Before # {}
      <4>0. Before \in SUBSET (1..N)
        BY <2>4
      <4>1. PICK b \in Before : \A h \in Before : h <= b
        BY <3>2, <4>0, LargestOf
      <4>2. b \in F /\ b < j
        BY <4>1
      <4>3. b \notin Late
        BY <2>2, <2>3, <4>2
      <4>4. ~(Place(b, F) >= v)
        BY <4>2, <4>3
      <4>5. Until(b, F) = Before
        <5>1. \A h \in F : h <= b <=> h < j
          BY <1>0, <2>3, <4>1, <4>2
        <5> QED
          BY <5>1 DEF Until
      <4>6. Place(b, F) = Cardinality(Before)
        BY <1>2, <4>5
      <4> QED
        BY <2>5, <4>4, <4>6
    <3> QED
      BY <3>1, <3>2
  <2> QED
    BY <2>3, <2>5, <2>6, <2>7
<1> QED
  BY <1>1, <1>2, <1>3, <1>4, <1>5

(* The n rows after the first a. *)
Slice(F, a, n) == {i \in F : Place(i, F) > a /\ Place(i, F) <= a + n}

(* A slice has n rows if any are left behind it, and never more. *)
LEMMA Slices ==
  ASSUME NEW N \in Nat, NEW F \in SUBSET (1..N), NEW a \in Nat, NEW n \in Nat
  PROVE  /\ IsFiniteSet(Slice(F, a, n)) /\ Cardinality(Slice(F, a, n)) \in Nat
         /\ Cardinality(Slice(F, a, n)) <= n
         /\ (\E i \in F : Place(i, F) > a + n) => Cardinality(Slice(F, a, n)) = n
<1> DEFINE slice == {i \in F : Place(i, F) > a /\ Place(i, F) <= a + n}
           T == (a + 1)..(a + n)
           f == [i \in slice |-> Place(i, F)]
<1>1. /\ IsFiniteSet(F)
      /\ \A i \in F : Place(i, F) \in Nat /\ Place(i, F) >= 1
      /\ \A i, j \in F : i < j => Place(i, F) < Place(j, F)
      /\ \A i \in F : \A v \in 1..Place(i, F) : \E j \in F : Place(j, F) = v
  BY Places
<1>2. IsFiniteSet(slice) /\ Cardinality(slice) \in Nat
  BY <1>1, FS_Subset, FS_CardinalityType
<1>3. IsFiniteSet(T) /\ Cardinality(T) = n
  <2>1. Cardinality(T) = IF a + 1 > a + n THEN 0 ELSE (a + n) - (a + 1) + 1
    BY FS_Interval
  <2>2. IsFiniteSet(T)
    BY FS_Interval
  <2> QED
    BY <2>1, <2>2
<1>4. f \in Injection(slice, T)
  <2>1. \A i \in slice : f[i] \in T
    BY <1>1
  <2>2. ASSUME NEW i \in slice, NEW j \in slice, f[i] = f[j]
        PROVE  i = j
    <3>1. i \in F /\ j \in F /\ i \in Int /\ j \in Int
      OBVIOUS
    <3>2. Place(i, F) = Place(j, F) /\ Place(i, F) \in Nat
      BY <1>1, <2>2
    <3>3. ~(i < j) /\ ~(j < i)
      BY <1>1, <3>1, <3>2
    <3> QED
      BY <3>1, <3>3
  <2> QED
    BY <2>1, <2>2 DEF Injection, IsInjective
<1>5. Cardinality(slice) <= n
  BY <1>3, <1>4, FS_Injection
<1>6. ASSUME NEW i \in F, Place(i, F) > a + n
      PROVE  Cardinality(slice) = n
  <2>1. ASSUME NEW v \in T
        PROVE  \E j \in slice : f[j] = v
    <3>1. v \in 1..Place(i, F)
      BY <1>1, <1>6
    <3>2. PICK j \in F : Place(j, F) = v
      BY <1>1, <3>1
    <3> QED
      BY <3>2
  <2>2. f \in [slice -> T]
    BY <1>4 DEF Injection
  <2> HIDE DEF f
  <2>3. f \in Surjection(slice, T)
    BY <2>1, <2>2 DEF Surjection
  <2> QED
    BY <1>3, <1>4, <2>3, FS_Injection
<1>7. Slice(F, a, n) = slice
  BY DEF Slice
<1> HIDE DEF slice
<1> QED
  BY <1>2, <1>5, <1>6, <1>7

-----------------------------------------------------------------------------
(* One batch: of the rows from the cursor on that match, all up to its last are *)
(* sent, but for at most one, and only if the cursor does not match any more.   *)
Lost(take, c) ==
  LET rows == FindMany(take, c)
  IN  {i \in Matching \ rows : /\ i > c
                               /\ \/ Cardinality(rows) < take
                                  \/ rows # {} /\ i <= Max(rows)}

(* What a batch leaves out. *)
LEMMA OneBatch ==
  ASSUME LastId \in Nat, NEW take \in Nat, NEW c \in Nat
  PROVE  LET rows == FindMany(take, c)
         IN  /\ IsFiniteSet(rows) /\ rows \subseteq Matching
             /\ Cardinality(rows) \in Nat /\ Cardinality(rows) <= take
             /\ \A i \in rows : c <= i
             /\ rows # {} => Max(rows) \in rows /\ \A i \in rows : i <= Max(rows)
             /\ \A i, j \in Lost(take, c) : i = j
             /\ Lost(take, c) # {} => c # 0 /\ c \notin Matching
<1> DEFINE F == From(c)
           n == Skipped(c)
           rows == {i \in F : Place(i, F) > n /\ Place(i, F) <= n + take}
<1>1. F \in SUBSET (1..LastId) /\ F \subseteq Matching /\ n \in Nat /\ n <= 1
      /\ \A i \in F : i \in Nat /\ c <= i
  BY DEF From, Matching, Surveyed, Skipped
<1>2. rows = FindMany(take, c)
  BY DEF FindMany
<1> HIDE DEF F, n
<1>3. /\ \A i \in F : Place(i, F) \in Nat /\ Place(i, F) >= 1
      /\ \A i, j \in F : i < j => Place(i, F) < Place(j, F)
  BY <1>1, Places
<1>4. /\ IsFiniteSet(rows) /\ Cardinality(rows) \in Nat /\ Cardinality(rows) <= take
      /\ (\E i \in F : Place(i, F) > n + take) => Cardinality(rows) = take
  <2>1. rows = Slice(F, n, take)
    BY DEF Slice
  <2> HIDE DEF rows
  <2> QED
    BY <1>1, <2>1, Slices
<1>5. rows # {} => Max(rows) \in rows /\ \A i \in rows : i <= Max(rows)
  <2>1. rows \in SUBSET (1..LastId)
    BY <1>1
  <2> HIDE DEF rows
  <2> QED
    BY <2>1, LargestOf
<1>6. ASSUME NEW i \in Lost(take, c)
      PROVE  i \in F /\ i > c /\ i \in Nat /\ n = 1 /\ Place(i, F) = 1
  <2>1. /\ i \in Matching /\ i \notin rows /\ i > c
        /\ Cardinality(rows) < take \/ (rows # {} /\ i <= Max(rows))
    BY <1>2 DEF Lost
  <2>2. i \in F /\ i \in Nat
    BY <2>1 DEF F, From, Matching, Surveyed
  <2>3. ASSUME Place(i, F) > n + take
        PROVE  FALSE
    <3>1. Cardinality(rows) = take
      BY <1>4, <2>2, <2>3
    <3>2. rows # {} /\ i <= Max(rows)
      BY <1>4, <2>1, <3>1
    <3>3. Max(rows) \in F /\ Place(Max(rows), F) <= n + take /\ Max(rows) \in rows
      BY <1>5, <3>2
    <3>4. Max(rows) \in Nat /\ i # Max(rows)
      BY <1>1, <2>1, <3>3
    <3>5. Place(i, F) < Place(Max(rows), F)
      BY <1>3, <2>2, <3>2, <3>3, <3>4
    <3> QED
      <4>1. Place(i, F) \in Nat /\ Place(Max(rows), F) \in Nat
        BY <1>3, <2>2, <3>3
      <4> HIDE DEF rows
      <4> QED
        BY <1>1, <2>3, <3>3, <3>5, <4>1
  <2>4. ~(Place(i, F) > n) /\ Place(i, F) \in Nat /\ Place(i, F) >= 1
    BY <1>1, <1>3, <2>1, <2>2, <2>3
  <2> QED
    BY <1>1, <2>1, <2>2, <2>4
<1>7. \A i, j \in Lost(take, c) : i = j
  <2> SUFFICES ASSUME NEW i \in Lost(take, c), NEW j \in Lost(take, c)
               PROVE  i = j
    OBVIOUS
  <2>1. i \in F /\ j \in F /\ i \in Nat /\ j \in Nat /\ Place(i, F) = 1 /\ Place(j, F) = 1
    BY <1>6
  <2>2. ~(i < j) /\ ~(j < i)
    BY <1>3, <2>1
  <2> QED
    BY <2>1, <2>2
<1>8. ASSUME NEW i \in Lost(take, c)
      PROVE  c # 0 /\ c \notin Matching
  <2>1. i \in F /\ i > c /\ n = 1 /\ Place(i, F) = 1
    BY <1>6
  <2>2. c # 0
    BY <2>1 DEF n, Skipped
  <2>3. ASSUME c \in Matching
        PROVE  FALSE
    <3>1. c \in F
      BY <2>3 DEF F, From
    <3>2. Place(c, F) < 1 /\ Place(c, F) >= 1 /\ Place(c, F) \in Nat
      BY <1>3, <2>1, <3>1
    <3> QED
      BY <3>2
  <2> QED
    BY <2>2, <2>3
<1>9. rows \subseteq Matching /\ \A i \in rows : c <= i
  BY <1>1
<1> QED
  <2> HIDE DEF rows
  <2> QED
    BY <1>2, <1>4, <1>5, <1>7, <1>8, <1>9

(* What is missing grows by one at most, and only with what went away. *)
LEMMA OneForOne ==
  ASSUME NEW A, NEW B, NEW A2, NEW B2, NEW L, NEW c,
         IsFiniteSet(A), IsFiniteSet(L), IsFiniteSet(B2),
         A2 \subseteq A \cup L, B \subseteq B2,
         \A i, j \in L : i = j, L # {} => c \in B2 \ B,
         Cardinality(A) <= Cardinality(B)
  PROVE  Cardinality(A2) <= Cardinality(B2)
<1>1. /\ IsFiniteSet(B) /\ Cardinality(A) \in Nat /\ Cardinality(B) \in Nat
      /\ Cardinality(B2) \in Nat /\ Cardinality(B) <= Cardinality(B2)
  BY FS_Subset, FS_CardinalityType
<1>2. CASE L = {}
  <2>1. A2 \subseteq A
    BY <1>2
  <2>2. Cardinality(A2) \in Nat /\ Cardinality(A2) <= Cardinality(A)
    BY <2>1, FS_Subset, FS_CardinalityType
  <2> QED
    BY <1>1, <2>2
<1>3. CASE L # {}
  <2>1. PICK f \in L : L = {f}
    BY <1>3
  <2>7. IsFiniteSet(A \cup {f}) /\ Cardinality(A \cup {f}) \in {Cardinality(A), Cardinality(A) + 1}
    <3>1. CASE f \in A
      <4>1. A \cup {f} = A
        BY <3>1
      <4> QED
        BY <4>1
    <3>2. CASE f \notin A
      BY <3>2, FS_AddElement
    <3> QED
      BY <3>1, <3>2
  <2>2. /\ A2 \subseteq A \cup {f} /\ IsFiniteSet(A \cup {f})
        /\ Cardinality(A \cup {f}) <= Cardinality(A) + 1
        /\ Cardinality(A \cup {f}) \in Nat
    BY <1>1, <2>1, <2>7
  <2>3. Cardinality(A2) \in Nat /\ Cardinality(A2) <= Cardinality(A \cup {f})
    BY <2>2, FS_Subset, FS_CardinalityType
  <2>4. B \cup {c} \subseteq B2 /\ c \notin B
    BY <1>3
  <2>5. Cardinality(B \cup {c}) = Cardinality(B) + 1
    BY <1>1, <2>4, FS_AddElement
  <2>6. Cardinality(B \cup {c}) <= Cardinality(B2)
    BY <2>4, FS_Subset
  <2> QED
    BY <1>1, <2>2, <2>3, <2>5, <2>6
<1> QED
  BY <1>2, <1>3

-----------------------------------------------------------------------------
(* The invariant *)

(* What a snapshot of the database holds. *)
Snapshots == [stored : [Surveyed -> {"none", "pending", "in"}],
              recording : [Surveyed -> Blobs \cup {NoBlob}]]
(* A line of the manifest of a ZIP. *)
Entries == [survey : Surveyed, blob : Blobs, missing : BOOLEAN]

(* Steady surveys the CSV has passed by, and sent ones that match no more. *)
PassedBy == {i \in steady \ csv.sent : i <= csv.cursor}
GoneSince == (csv.sent \ {csv.cursor}) \ Matching

(* The types of the state. *)
ExportTyped ==
  /\ stored \in [Surveyed -> {"none", "pending", "in"}]
  /\ recording \in [Surveyed -> Blobs \cup {NoBlob}]
  /\ filter \in {"all", "with", "without"}
  /\ csv \in [pc : {"idle", "reading", "over"}, cursor : Nat, sent : SUBSET Surveyed,
              status : {"none", "complete", "error", "truncated", "closed"}]
  /\ zip \in [pc : {"idle", "failed", "surveys", "audios", "published"},
              snapshot : Snapshots \cup {<<>>}, surveys : SUBSET Surveyed,
              manifest : SUBSET Entries, left : Nat]

(* The CSV so far: what it has passed by is paid for by what it had sent and has gone. *)
CsvInv ==
  /\ csv.pc = "idle" => csv.sent = {} /\ csv.cursor = 0
  /\ csv.status = "complete" => csv.pc = "over"
  /\ csv.pc = "reading" => \A i \in csv.sent : i <= csv.cursor
  /\ csv.cursor # 0 => csv.cursor \in csv.sent
  /\ Cardinality(csv.sent) <= MaxRecords
  /\ \A i \in csv.sent : stored[i] = "in"
  /\ filter # "without" => csv.sent \subseteq Matching
  /\ steady \subseteq Matching
  /\ csv.pc = "reading" => Cardinality(PassedBy) <= Cardinality(GoneSince)
  /\ csv.pc = "reading" => Cardinality(csv.sent) < MaxRecords \/ csv.sent = {}
  /\ CsvOver => Cardinality(steady \ csv.sent) <= Cardinality(csv.sent \ Matching)

(* The ZIP so far: what is in it is what its snapshot says. *)
ZipInv ==
  /\ zip.pc \in {"surveys", "audios", "published"} =>
       zip.snapshot \in Snapshots /\ Cardinality({i \in Surveyed : InZip(i)}) <= MaxRecords
  /\ zip.pc \in {"audios", "published"} => zip.surveys = {i \in Surveyed : InZip(i)}
  /\ zip.pc \in {"idle", "failed", "surveys"} => zip.manifest = {}
  /\ zip.pc \in {"audios", "published"} =>
       /\ \A m \in zip.manifest : m.survey \in DueAudios
       /\ \A m, n \in zip.manifest : m.survey = n.survey => m = n
  /\ zip.pc = "published" => DueAudios = {m.survey : m \in zip.manifest}

ExportInv == ExportTyped /\ CsvInv /\ ZipInv

(* The bounds are natural numbers, and no recording is the lack of one. *)
LEMMA ExportNaturals ==
  /\ LastId \in Nat /\ MaxRecords \in Nat /\ MaxBytes \in Nat /\ ZipAttempts \in Nat
  /\ BatchSize \in Nat /\ BatchSize > 0 /\ NoBlob \notin Blobs
BY ExportConstants

(* Surveys are finitely many. *)
LEMMA SomeOfThem ==
  ASSUME NEW A, A \subseteq Surveyed
  PROVE  IsFiniteSet(A) /\ Cardinality(A) \in Nat
<1>1. IsFiniteSet(Surveyed)
  BY ExportNaturals, FS_Interval DEF Surveyed
<1> QED
  BY <1>1, FS_Subset, FS_CardinalityType

(* Before a download is begun. *)
LEMMA ExportInitially ==
  ASSUME ExportInit
  PROVE  ExportInv
<1>1. ExportTyped
  BY ExportNaturals, ExportConstants DEF ExportInit, ExportTyped
<1>2. CsvInv
  BY ExportNaturals, FS_EmptySet DEF ExportInit, CsvInv, CsvOver
<1>3. ZipInv
  BY DEF ExportInit, ZipInv
<1> QED
  BY <1>1, <1>2, <1>3 DEF ExportInv

(* What phones do leaves a ZIP that is being written alone. *)
LEMMA ZipStays ==
  ASSUME ZipInv, UNCHANGED <<filter, zip>>
  PROVE  ZipInv'
<1>1. /\ DueAudios' = DueAudios
      /\ {i \in Surveyed : InZip(i)}' = {i \in Surveyed : InZip(i)}
  BY DEF DueAudios, InZip, MatchesIn, Seen
<1> QED
  BY <1>1 DEF ZipInv

(* What changes no survey and nothing of the CSV leaves it as it is. *)
LEMMA CsvStays ==
  ASSUME CsvInv, UNCHANGED <<stored, recording, filter, csv, steady>>
  PROVE  CsvInv'
<1>1. Matching' = Matching
  BY DEF Matching, MatchesIn
<1> QED
  BY <1>1 DEF CsvInv, CsvOver, PassedBy, GoneSince

(* The phones go on: a survey that was sent and matches no more never matches again. *)
LEMMA PhonesGoOn ==
  ASSUME ExportInv, UNCHANGED <<filter, csv, zip>>, ExportTyped',
         \A i \in Surveyed : stored[i] = "in" => stored'[i] = "in",
         \A i \in Surveyed : recording[i] # NoBlob => recording'[i] # NoBlob,
         steady' \subseteq steady, steady' \subseteq Matching'
  PROVE  ExportInv'
<1>0. csv.sent \subseteq Surveyed /\ filter \in {"all", "with", "without"}
  BY DEF ExportInv, ExportTyped
<1>1. ASSUME NEW i \in csv.sent, i \notin Matching
      PROVE  i \notin Matching'
  <2>1. filter = "without"
    BY <1>0, <1>1 DEF ExportInv, CsvInv
  <2> QED
    BY <1>0, <1>1, <2>1 DEF ExportInv, CsvInv, Matching, MatchesIn
<1>2. ASSUME filter # "without", NEW i \in csv.sent
      PROVE  i \in Matching'
  <2>1. i \in Matching
    BY <1>2 DEF ExportInv, CsvInv
  <2> QED
    BY <1>0, <1>2, <2>1 DEF Matching, MatchesIn
<1>3. GoneSince \subseteq GoneSince' /\ GoneSince' \subseteq Surveyed
  BY <1>0, <1>1 DEF GoneSince
<1>4. csv.sent \ Matching \subseteq csv.sent \ Matching'
  BY <1>1
<1>5. PassedBy' \subseteq PassedBy /\ steady' \ csv.sent \subseteq steady \ csv.sent
  BY DEF PassedBy
<1>6. steady \subseteq Surveyed /\ PassedBy \subseteq Surveyed
  BY DEF ExportInv, CsvInv, Matching, PassedBy
<1>7. csv.pc = "reading" => Cardinality(PassedBy') <= Cardinality(GoneSince')
  <2>1. /\ IsFiniteSet(PassedBy) /\ IsFiniteSet(GoneSince')
        /\ Cardinality(PassedBy) \in Nat /\ Cardinality(PassedBy') \in Nat
        /\ Cardinality(GoneSince) \in Nat /\ Cardinality(GoneSince') \in Nat
    BY <1>3, <1>5, <1>6, SomeOfThem
  <2>2. /\ Cardinality(PassedBy') <= Cardinality(PassedBy)
        /\ Cardinality(GoneSince) <= Cardinality(GoneSince')
    BY <1>3, <1>5, <2>1, FS_Subset
  <2> QED
    BY <2>1, <2>2 DEF ExportInv, CsvInv
<1>8. CsvOver => Cardinality(steady' \ csv.sent) <= Cardinality(csv.sent \ Matching')
  <2> DEFINE S == steady \ csv.sent
             S2 == steady' \ csv.sent
             M == csv.sent \ Matching
             M2 == csv.sent \ Matching'
  <2>0. S2 \subseteq S /\ M \subseteq M2 /\ S \subseteq Surveyed /\ M2 \subseteq Surveyed
    BY <1>0, <1>4, <1>5, <1>6
  <2>3. CsvOver => Cardinality(S) <= Cardinality(M)
    BY DEF ExportInv, CsvInv
  <2> HIDE DEF S, S2, M, M2
  <2>1. /\ IsFiniteSet(S) /\ IsFiniteSet(M2)
        /\ Cardinality(S) \in Nat /\ Cardinality(S2) \in Nat
        /\ Cardinality(M) \in Nat /\ Cardinality(M2) \in Nat
    BY <2>0, SomeOfThem
  <2>2. Cardinality(S2) <= Cardinality(S) /\ Cardinality(M) <= Cardinality(M2)
    BY <2>0, <2>1, FS_Subset
  <2>4. CsvOver => Cardinality(S2) <= Cardinality(M2)
    BY <2>1, <2>2, <2>3
  <2> QED
    BY <2>4 DEF S2, M2
<1>9. CsvInv'
  <2>1. CsvOver' <=> CsvOver
    BY DEF CsvOver
  <2>2. \A i \in csv.sent : stored'[i] = "in"
    BY <1>0 DEF ExportInv, CsvInv
  <2>3. filter # "without" => csv.sent \subseteq Matching'
    BY <1>2
  <2> QED
    BY <1>7, <1>8, <2>1, <2>2, <2>3 DEF ExportInv, CsvInv
<1> QED
  BY <1>9, ZipStays DEF ExportInv

-----------------------------------------------------------------------------
(* The steps *)

(* A CSV that is begun has passed by nothing. *)
LEMMA CsvBegins ==
  ASSUME ExportInv, BeginCsv
  PROVE  CsvInv'
<1>1. /\ csv.pc = "idle" /\ csv' = [csv EXCEPT !.pc = "reading"] /\ steady' = Matching
      /\ UNCHANGED <<stored, recording, filter>>
      /\ csv.sent = {} /\ csv.cursor = 0 /\ csv.status # "complete"
  BY DEF BeginCsv, ExportInv, CsvInv
<1>2. csv'.pc = "reading" /\ csv'.sent = {} /\ csv'.cursor = 0 /\ csv'.status # "complete"
  BY <1>1 DEF ExportInv, ExportTyped
<1>3. Matching' = Matching
  BY <1>1 DEF Matching, MatchesIn
<1>4. PassedBy' = {} /\ GoneSince' = {}
  <2>1. \A i \in Surveyed : ~(i <= 0)
    BY ExportNaturals DEF Surveyed
  <2>2. steady' \subseteq Surveyed
    BY <1>1 DEF Matching
  <2> QED
    BY <1>2, <2>1, <2>2 DEF PassedBy, GoneSince
<1> QED
  BY <1>1, <1>2, <1>3, <1>4, ExportNaturals, FS_EmptySet DEF CsvInv, CsvOver

(* A batch: see OneBatch; at the end of the file nothing is left behind it. *)
LEMMA CsvReads ==
  ASSUME ExportInv, NextBatch
  PROVE  CsvInv' /\ csv'.cursor \in Nat /\ csv'.sent \subseteq Surveyed
<1> DEFINE c == csv.cursor
           take == Take
           rows == FindMany(take, c)
           sent == csv.sent \cup rows
           ends == Cardinality(rows) < take \/ Cardinality(sent) = MaxRecords
<1>1. /\ csv.pc = "reading"
      /\ csv' = IF ends THEN [csv EXCEPT !.pc = "over", !.sent = sent, !.status = "complete"]
                ELSE [csv EXCEPT !.sent = sent, !.cursor = Max(rows)]
      /\ UNCHANGED <<stored, recording, filter, steady>>
  BY DEF NextBatch
<1>2. /\ c \in Nat /\ csv.sent \subseteq Surveyed /\ steady \subseteq Matching
      /\ \A i \in csv.sent : i <= c
      /\ c # 0 => c \in csv.sent
      /\ Cardinality(csv.sent) <= MaxRecords
      /\ Cardinality(csv.sent) < MaxRecords \/ csv.sent = {}
      /\ \A i \in csv.sent : stored[i] = "in"
      /\ filter # "without" => csv.sent \subseteq Matching
      /\ Cardinality(PassedBy) <= Cardinality(GoneSince)
      /\ csv.status # "complete"
  BY <1>1 DEF ExportInv, ExportTyped, CsvInv
<1>3. Matching' = Matching /\ Matching \subseteq Surveyed /\ \A i \in Matching : stored[i] = "in"
  BY <1>1 DEF Matching, MatchesIn
<1>4. IsFiniteSet(csv.sent) /\ Cardinality(csv.sent) \in Nat
  BY <1>2, SomeOfThem
<1>5. /\ take \in Nat /\ take <= MaxRecords - Cardinality(csv.sent)
      /\ take = 0 => Cardinality(csv.sent) = MaxRecords
  <2> DEFINE left == MaxRecords - Cardinality(csv.sent)
  <2>1. left \in Nat
    BY <1>2, <1>4, ExportNaturals
  <2> HIDE DEF left
  <2>2. take = Min({BatchSize, left})
    BY DEF Take, left
  <2>3. take \in {BatchSize, left} /\ take <= left
    BY <2>1, <2>2, ExportNaturals DEF Min
  <2>4. take \in Nat /\ take <= left /\ (take = 0 => left = 0)
    BY <2>1, <2>3, ExportNaturals
  <2> QED
    BY <1>4, <2>4, ExportNaturals DEF left
<1> HIDE DEF take
<1>6. /\ IsFiniteSet(rows) /\ rows \subseteq Matching
      /\ Cardinality(rows) \in Nat /\ Cardinality(rows) <= take
      /\ \A i \in rows : c <= i
      /\ rows # {} => Max(rows) \in rows /\ \A i \in rows : i <= Max(rows)
      /\ \A i, j \in Lost(take, c) : i = j
      /\ Lost(take, c) # {} => c # 0 /\ c \notin Matching
  BY <1>2, <1>5, ExportNaturals, OneBatch
<1>7. Lost(take, c) = {i \in Matching \ rows : /\ i > c
                             /\ \/ Cardinality(rows) < take
                                \/ rows # {} /\ i <= Max(rows)}
  BY DEF Lost
<1> HIDE DEF rows
<1>8. /\ IsFiniteSet(sent) /\ Cardinality(sent) \in Nat /\ Cardinality(sent) <= MaxRecords
      /\ sent \subseteq Surveyed
  <2>1. sent \subseteq Surveyed
    BY <1>2, <1>3, <1>6
  <2>2. Cardinality(sent) <= Cardinality(csv.sent) + Cardinality(rows)
    <3>1. Cardinality(sent) = Cardinality(csv.sent) + Cardinality(rows) - Cardinality(csv.sent \cap rows)
      BY <1>4, <1>6, FS_Union
    <3>2. Cardinality(csv.sent \cap rows) \in Nat
      BY <1>4, FS_Intersection, FS_CardinalityType
    <3> QED
      BY <1>4, <1>6, <3>1, <3>2
  <2>3. IsFiniteSet(sent) /\ Cardinality(sent) \in Nat
    BY <2>1, SomeOfThem
  <2> HIDE DEF sent
  <2> QED
    BY <1>4, <1>5, <1>6, <2>1, <2>2, <2>3, ExportNaturals
<1>9. ~ends => rows # {}
  <2>1. rows = {} => Cardinality(rows) = 0 /\ sent = csv.sent
    BY FS_EmptySet
  <2> QED
    BY <1>5, <1>6, <2>1
<1>10. (\A i \in sent : stored[i] = "in") /\ (filter # "without" => sent \subseteq Matching)
  BY <1>2, <1>3, <1>6
<1>11. /\ IsFiniteSet(PassedBy) /\ IsFiniteSet(Lost(take, c))
       /\ \A i \in Surveyed : i \in Nat
  <2>1. PassedBy \subseteq Surveyed /\ Lost(take, c) \subseteq Surveyed
    BY <1>2, <1>3, <1>7 DEF PassedBy
  <2>2. IsFiniteSet(PassedBy) /\ IsFiniteSet(Lost(take, c))
    BY <2>1, SomeOfThem
  <2>3. \A i \in Surveyed : i \in Nat
    BY ExportNaturals DEF Surveyed
  <2> QED
    BY <2>2, <2>3
<1>12. GoneSince = (csv.sent \ {c}) \ Matching
  BY DEF GoneSince
<1>13. CASE ends
  <2>1. /\ csv'.pc = "over" /\ csv'.sent = sent /\ csv'.status = "complete" /\ csv'.cursor = c
    BY <1>1, <1>13 DEF ExportInv, ExportTyped
  <2>2. ASSUME Cardinality(sent) < MaxRecords
        PROVE  Cardinality(steady \ sent) <= Cardinality(sent \ Matching)
    <3>1. Cardinality(rows) < take
      BY <1>8, <1>13, <2>2, ExportNaturals
    <3>2. steady \ sent \subseteq PassedBy \cup Lost(take, c)
      <4>1. \A i \in steady \ sent : i \in Surveyed /\ i \in Matching /\ i \notin rows /\ i \in steady \ csv.sent
        BY <1>2, <1>3
      <4>2. \A i \in Surveyed : i <= c \/ i > c
        BY <1>2, <1>11
      <4> QED
        BY <1>7, <3>1, <4>1, <4>2 DEF PassedBy
    <3>3. GoneSince \subseteq sent \ Matching
      BY <1>12
    <3>4. Lost(take, c) # {} => c \in (sent \ Matching) \ GoneSince
      BY <1>2, <1>6, <1>12
    <3>5. IsFiniteSet(sent \ Matching)
      BY <1>8, FS_Subset
    <3> HIDE DEF sent
    <3> QED
      BY <1>2, <1>6, <1>11, <3>2, <3>3, <3>4, <3>5, OneForOne
  <2>3. CsvOver' => Cardinality(steady' \ csv'.sent) <= Cardinality(csv'.sent \ Matching')
    BY <1>1, <1>3, <2>1, <2>2 DEF CsvOver
  <2>4. c # 0 => c \in sent
    BY <1>2
  <2> HIDE DEF sent, c
  <2> QED
    BY <1>1, <1>2, <1>3, <1>8, <1>10, <2>1, <2>3, <2>4 DEF CsvInv, c
<1>14. CASE ~ends
  <2> DEFINE d == Max(rows)
  <2>1. rows # {} /\ d \in rows /\ \A i \in rows : i <= d
    BY <1>6, <1>9, <1>14
  <2>2. d \in Surveyed /\ d \in Nat /\ c <= d
    BY <1>3, <1>6, <1>11, <2>1
  <2>3. csv'.pc = "reading" /\ csv'.sent = sent /\ csv'.cursor = d /\ csv'.status # "complete"
    BY <1>1, <1>2, <1>14 DEF ExportInv, ExportTyped
  <2>4. \A i \in sent : i <= d
    BY <1>2, <1>11, <2>1, <2>2
  <2>5. PassedBy' \subseteq PassedBy \cup Lost(take, c)
    <3>1. PassedBy' = {i \in steady \ sent : i <= d}
      BY <1>1, <2>3 DEF PassedBy
    <3>2. \A i \in Surveyed : i <= c \/ i > c
      BY <1>2, <1>11
    <3>3. \A i \in steady \ sent : i \in Surveyed /\ i \in Matching /\ i \notin rows /\ i \in steady \ csv.sent
      BY <1>2, <1>3
    <3> QED
      BY <1>7, <2>1, <3>1, <3>2, <3>3 DEF PassedBy
  <2>6. GoneSince' = (sent \ {d}) \ Matching
    BY <1>3, <2>3 DEF GoneSince
  <2>7. GoneSince \subseteq GoneSince'
    BY <1>6, <1>12, <2>1, <2>6
  <2>8. Lost(take, c) # {} => c \in GoneSince' \ GoneSince
    BY <1>2, <1>6, <1>12, <2>1, <2>6
  <2>9. IsFiniteSet(GoneSince')
    BY <1>8, <2>6, FS_Subset
  <2>10. Cardinality(PassedBy') <= Cardinality(GoneSince')
    <3> HIDE DEF c
    <3> QED
      BY <1>2, <1>6, <1>11, <2>5, <2>7, <2>8, <2>9, OneForOne
  <2>11. d \in sent /\ Cardinality(sent) < MaxRecords
    BY <1>8, <1>14, <2>1, ExportNaturals
  <2> HIDE DEF sent, c, d
  <2> QED
    BY <1>1, <1>2, <1>3, <1>8, <1>10, <2>2, <2>3, <2>4, <2>10, <2>11 DEF CsvInv, CsvOver
<1> QED
  BY <1>13, <1>14

(* A CSV that breaks off promises nothing. *)
LEMMA CsvEnds ==
  ASSUME ExportInv, ReadFails \/ ConnectionCloses
  PROVE  CsvInv'
<1>1. /\ csv'.pc = "over" /\ csv'.status # "complete"
      /\ csv'.sent = csv.sent /\ csv'.cursor = csv.cursor
      /\ UNCHANGED <<stored, recording, filter, steady>>
  BY DEF ReadFails, ConnectionCloses, ExportInv, ExportTyped
<1>2. Matching' = Matching
  BY <1>1 DEF Matching, MatchesIn
<1> QED
  BY <1>1, <1>2 DEF ExportInv, CsvInv, CsvOver

(* The ZIP: what is due is fixed by the snapshot. *)
LEMMA ZipMoves ==
  ASSUME ExportInv, Measure \/ WriteSurveys \/ WriteAudio \/ Publish \/ AttemptFails
  PROVE  ZipInv' /\ ExportTyped'
<1>1. UNCHANGED <<stored, recording, onDisk, filter, csv, steady>>
  BY DEF Measure, WriteSurveys, WriteAudio, Publish, AttemptFails
<1>2. /\ stored \in [Surveyed -> {"none", "pending", "in"}]
      /\ recording \in [Surveyed -> Blobs \cup {NoBlob}]
      /\ filter \in {"all", "with", "without"}
      /\ csv \in [pc : {"idle", "reading", "over"}, cursor : Nat, sent : SUBSET Surveyed,
              status : {"none", "complete", "error", "truncated", "closed"}]
      /\ zip \in [pc : {"idle", "failed", "surveys", "audios", "published"},
              snapshot : Snapshots \cup {<<>>}, surveys : SUBSET Surveyed,
              manifest : SUBSET Entries, left : Nat]
  BY DEF ExportInv, ExportTyped
<1>3. ASSUME zip' \in [pc : {"idle", "failed", "surveys", "audios", "published"},
              snapshot : Snapshots \cup {<<>>}, surveys : SUBSET Surveyed,
              manifest : SUBSET Entries, left : Nat]
      PROVE  ExportTyped'
  BY <1>1, <1>2, <1>3 DEF ExportTyped
<1>4. ASSUME zip'.snapshot = zip.snapshot
      PROVE  /\ DueAudios' = DueAudios
             /\ {i \in Surveyed : InZip(i)}' = {i \in Surveyed : InZip(i)}
  BY <1>1, <1>4 DEF DueAudios, InZip, MatchesIn, Seen
<1>5. CASE Measure
  <2> DEFINE now == [stored |-> stored, recording |-> recording]
             big == \/ Cardinality(Matching) > MaxRecords
                    \/ Cardinality({i \in Matching : recording[i] # NoBlob}) > MaxBytes
  <2>1. /\ zip.pc = "idle" /\ zip.left > 0
        /\ zip' = [zip EXCEPT !.left = zip.left - 1, !.snapshot = now,
                              !.pc = IF big THEN "failed" ELSE "surveys"]
    BY <1>5 DEF Measure
  <2>2. now \in Snapshots /\ zip.left - 1 \in Nat /\ zip.manifest = {}
    BY <1>2, <2>1 DEF Snapshots, ExportInv, ZipInv
  <2> HIDE DEF big, now
  <2>3. /\ zip'.snapshot = now /\ zip'.manifest = {}
        /\ zip'.pc = IF big THEN "failed" ELSE "surveys"
    BY <1>2, <2>1, <2>2
  <2>4. {i \in Surveyed : InZip(i)}' = Matching
    <3>1. zip'.snapshot.stored = stored /\ zip'.snapshot.recording = recording /\ filter' = filter
      BY <1>1, <2>3 DEF now
    <3>2. \A i \in Surveyed : InZip(i)' <=> MatchesIn(stored, recording, i)
      BY <3>1 DEF InZip, Seen, MatchesIn
    <3>3. {i \in Surveyed : InZip(i)}' = {i \in Surveyed : MatchesIn(stored, recording, i)}
      BY <3>2
    <3> QED
      BY <3>3 DEF Matching
  <2>5. ~big => Cardinality(Matching) <= MaxRecords
    <3>1. Matching \subseteq Surveyed
      BY DEF Matching
    <3>2. Cardinality(Matching) \in Nat
      BY <3>1, SomeOfThem
    <3> QED
      BY <3>2, ExportNaturals DEF big
  <2>6. ZipInv'
    BY <2>2, <2>3, <2>4, <2>5 DEF ZipInv
  <2>7. ExportTyped'
    BY <1>2, <1>3, <2>1, <2>2
  <2> QED
    BY <2>6, <2>7
<1>6. CASE WriteSurveys
  <2>1. /\ zip.pc = "surveys"
        /\ zip' = [zip EXCEPT !.surveys = {i \in Surveyed : InZip(i)}, !.pc = "audios"]
    BY <1>6 DEF WriteSurveys
  <2>2. /\ zip'.pc = "audios" /\ zip'.surveys = {i \in Surveyed : InZip(i)}
        /\ zip'.snapshot = zip.snapshot /\ zip'.manifest = zip.manifest
    BY <1>2, <2>1
  <2>3. ZipInv'
    BY <1>4, <2>1, <2>2 DEF ZipInv, ExportInv
  <2>4. ExportTyped'
    <3>1. {i \in Surveyed : InZip(i)} \in SUBSET Surveyed
      OBVIOUS
    <3> QED
      BY <1>2, <1>3, <2>1, <3>1
  <2> QED
    BY <2>3, <2>4
<1>7. CASE WriteAudio
  <2> DEFINE e(i) == [survey |-> i, blob |-> Seen(zip.snapshot).recording[i],
                      missing |-> Seen(zip.snapshot).recording[i] \notin onDisk]
  <2>1. PICK i \in DueAudios :
          /\ zip.pc = "audios"
          /\ \A m \in zip.manifest : m.survey < i
          /\ zip' = [zip EXCEPT !.manifest = @ \cup {e(i)}]
    BY <1>7 DEF WriteAudio
  <2>2. zip.snapshot \in Snapshots /\ i \in Surveyed
    BY <2>1 DEF ExportInv, ZipInv, DueAudios
  <2>3. e(i) \in Entries /\ e(i).survey = i
    BY <2>1, <2>2 DEF Entries, DueAudios, Seen, Snapshots
  <2> HIDE DEF e
  <2>4. /\ zip'.pc = "audios" /\ zip'.surveys = zip.surveys
        /\ zip'.snapshot = zip.snapshot /\ zip'.manifest = zip.manifest \cup {e(i)}
    BY <1>2, <2>1
  <2>5. \A m \in zip.manifest : m.survey # i
    <3>1. i \in Nat /\ \A m \in zip.manifest : m.survey \in Nat
      BY <1>2, <2>2, ExportNaturals DEF Entries, Surveyed
    <3> QED
      BY <2>1, <3>1
  <2>6. /\ \A m \in zip'.manifest : m.survey \in DueAudios
        /\ \A m, n \in zip'.manifest : m.survey = n.survey => m = n
    BY <2>1, <2>3, <2>4, <2>5 DEF ExportInv, ZipInv
  <2>7. ZipInv'
    BY <1>4, <2>1, <2>4, <2>6 DEF ZipInv, ExportInv
  <2>8. ExportTyped'
    BY <1>2, <1>3, <2>1, <2>3
  <2> QED
    BY <2>7, <2>8
<1>8. CASE Publish
  <2>1. /\ zip.pc = "audios" /\ DueAudios = {m.survey : m \in zip.manifest}
        /\ zip' = [zip EXCEPT !.pc = "published"]
    BY <1>8 DEF Publish
  <2>2. /\ zip'.pc = "published" /\ zip'.surveys = zip.surveys
        /\ zip'.snapshot = zip.snapshot /\ zip'.manifest = zip.manifest
    BY <1>2, <2>1
  <2>3. ZipInv'
    BY <1>4, <2>1, <2>2 DEF ZipInv, ExportInv
  <2>4. ExportTyped'
    BY <1>2, <1>3, <2>1
  <2> QED
    BY <2>3, <2>4
<1>9. CASE AttemptFails
  <2>1. zip' = [zip EXCEPT !.pc = "idle", !.snapshot = <<>>, !.surveys = {}, !.manifest = {}]
    BY <1>9 DEF AttemptFails
  <2>2. zip'.pc = "idle" /\ zip'.manifest = {}
    BY <1>2, <2>1
  <2>3. ZipInv'
    BY <2>2 DEF ZipInv
  <2>4. ExportTyped'
    BY <1>2, <1>3, <2>1
  <2> QED
    BY <2>3, <2>4
<1> QED
  BY <1>5, <1>6, <1>7, <1>8, <1>9

(* Every step keeps the invariant. *)
LEMMA ExportStep ==
  ASSUME ExportInv, [ExportNext]_exportVars
  PROVE  ExportInv'
<1>1. /\ stored \in [Surveyed -> {"none", "pending", "in"}]
      /\ recording \in [Surveyed -> Blobs \cup {NoBlob}]
      /\ filter \in {"all", "with", "without"}
      /\ csv \in [pc : {"idle", "reading", "over"}, cursor : Nat, sent : SUBSET Surveyed,
              status : {"none", "complete", "error", "truncated", "closed"}]
      /\ zip \in [pc : {"idle", "failed", "surveys", "audios", "published"},
              snapshot : Snapshots \cup {<<>>}, surveys : SUBSET Surveyed,
              manifest : SUBSET Entries, left : Nat]
      /\ steady \subseteq Matching
  BY DEF ExportInv, ExportTyped, CsvInv
<1>2. ASSUME UNCHANGED exportVars
      PROVE  ExportInv'
  <2>1. ExportTyped'
    BY <1>2 DEF ExportInv, ExportTyped, exportVars
  <2> QED
    BY <1>2, <2>1, CsvStays, ZipStays DEF ExportInv, exportVars
<1>3. ASSUME NEW i \in Surveyed, TakeId(i) \/ CommitSurvey(i)
      PROVE  ExportInv'
  <2>1. /\ UNCHANGED <<recording, filter, csv, zip, steady>> /\ stored[i] # "in"
        /\ \E x \in {"pending", "in"} : stored' = [stored EXCEPT ![i] = x]
    BY <1>3 DEF TakeId, CommitSurvey
  <2>2. ExportTyped'
    BY <1>1, <2>1 DEF ExportTyped
  <2>3. \A j \in Surveyed : stored[j] = "in" => stored'[j] = "in"
    BY <1>1, <2>1
  <2>4. steady' \subseteq Matching'
    BY <1>1, <2>1, <2>3 DEF Matching, MatchesIn
  <2> QED
    BY <2>1, <2>2, <2>3, <2>4, PhonesGoOn
<1>4. ASSUME NEW i \in Surveyed, NEW b \in Blobs, RecordingArrives(i, b)
      PROVE  ExportInv'
  <2>1. /\ UNCHANGED <<stored, filter, csv, zip>> /\ recording' = [recording EXCEPT ![i] = b]
        /\ steady' = steady \cap Matching'
    BY <1>4 DEF RecordingArrives, StillSteady, Matching, MatchesIn
  <2>2. ExportTyped'
    BY <1>1, <2>1 DEF ExportTyped
  <2>3. \A j \in Surveyed : recording[j] # NoBlob => recording'[j] # NoBlob
    BY <1>1, <2>1, ExportNaturals
  <2>4. steady' \subseteq steady /\ steady' \subseteq Matching'
    BY <2>1
  <2> QED
    BY <2>1, <2>2, <2>3, <2>4, PhonesGoOn
<1>5. ASSUME NEW b \in Blobs, FileIsMissing(b)
      PROVE  ExportInv'
  <2>1. UNCHANGED <<stored, recording, filter, csv, zip, steady>>
    BY <1>5 DEF FileIsMissing
  <2>2. ExportTyped'
    BY <2>1 DEF ExportInv, ExportTyped
  <2> QED
    BY <2>1, <2>2, CsvStays, ZipStays DEF ExportInv
<1>6. CASE BeginCsv
  <2>1. /\ UNCHANGED <<stored, recording, filter, zip>> /\ csv' = [csv EXCEPT !.pc = "reading"]
    BY <1>6 DEF BeginCsv
  <2>2. ExportTyped'
    BY <1>1, <2>1 DEF ExportTyped
  <2> QED
    BY <1>6, <2>1, <2>2, CsvBegins, ZipStays DEF ExportInv
<1>7. CASE NextBatch
  <2>1. /\ UNCHANGED <<stored, recording, filter, zip>>
        /\ csv'.cursor \in Nat /\ csv'.sent \subseteq Surveyed /\ CsvInv'
    BY <1>7, CsvReads DEF NextBatch
  <2>2. \E s, c : \/ csv' = [csv EXCEPT !.pc = "over", !.sent = s, !.status = "complete"]
                  \/ csv' = [csv EXCEPT !.sent = s, !.cursor = c]
    BY <1>7 DEF NextBatch
  <2>3. csv' \in [pc : {"idle", "reading", "over"}, cursor : Nat, sent : SUBSET Surveyed,
              status : {"none", "complete", "error", "truncated", "closed"}]
    BY <1>1, <2>1, <2>2
  <2>4. ExportTyped'
    BY <1>1, <2>1, <2>3 DEF ExportTyped
  <2> QED
    BY <2>1, <2>4, ZipStays DEF ExportInv
<1>8. CASE ReadFails \/ ConnectionCloses
  <2>1. /\ UNCHANGED <<stored, recording, filter, zip>>
        /\ \E x \in {"error", "truncated", "closed"} :
             csv' = [csv EXCEPT !.pc = "over", !.status = x]
    BY <1>8 DEF ReadFails, ConnectionCloses
  <2>2. ExportTyped'
    BY <1>1, <2>1 DEF ExportTyped
  <2> QED
    BY <1>8, <2>1, <2>2, CsvEnds, ZipStays DEF ExportInv
<1>9. CASE Measure \/ WriteSurveys \/ WriteAudio \/ Publish \/ AttemptFails
  <2>1. UNCHANGED <<stored, recording, filter, csv, steady>>
    BY <1>9 DEF Measure, WriteSurveys, WriteAudio, Publish, AttemptFails
  <2> QED
    BY <1>9, <2>1, CsvStays, ZipMoves DEF ExportInv
<1> QED
  BY <1>2, <1>3, <1>4, <1>5, <1>6, <1>7, <1>8, <1>9 DEF ExportNext

(* The recordings listed are as many as their lines in the manifest, one for each survey. *)
LEMMA DownloadsDoAgree ==
  ASSUME ExportInv
  PROVE  DownloadsAgree
<1>1. CsvOver => Cardinality(steady \ csv.sent) <= Cardinality(csv.sent \ Matching)
  BY DEF ExportInv, CsvInv
<1>2. ASSUME zip.pc = "published"
      PROVE  LET listed == {m.survey : m \in zip.manifest}
             IN  /\ listed \subseteq zip.surveys /\ Cardinality(zip.surveys) <= MaxRecords
                 /\ filter = "with" => listed = zip.surveys
                 /\ filter = "without" => listed = {}
                 /\ Cardinality(listed) = Cardinality(zip.manifest)
  <2> DEFINE listed == {m.survey : m \in zip.manifest}
             f == [m \in zip.manifest |-> m.survey]
  <2>1. /\ listed = DueAudios /\ zip.surveys = {i \in Surveyed : InZip(i)}
        /\ Cardinality(zip.surveys) <= MaxRecords
        /\ \A m, n \in zip.manifest : m.survey = n.survey => m = n
    BY <1>2 DEF ExportInv, ZipInv
  <2>2. listed \subseteq zip.surveys
    BY <2>1 DEF DueAudios
  <2>3. filter = "with" => listed = zip.surveys
    BY <2>1 DEF DueAudios, InZip, MatchesIn
  <2>4. filter = "without" => listed = {}
    BY <2>1 DEF DueAudios, InZip, MatchesIn
  <2>5. Cardinality(listed) = Cardinality(zip.manifest)
    <3>1. f \in Bijection(zip.manifest, listed)
      BY <2>1 DEF Bijection, Injection, Surjection, IsInjective
    <3>2. IsFiniteSet(listed)
      <4>1. listed \subseteq Surveyed
        BY <2>1 DEF DueAudios
      <4> QED
        BY <4>1, SomeOfThem
    <3> HIDE DEF f, listed
    <3>3. ExistsBijection(zip.manifest, listed)
      BY <3>1 DEF ExistsBijection
    <3>4. ExistsBijection(listed, zip.manifest)
      BY <3>3, Fun_ExistsBijSymmetric
    <3> QED
      BY <3>2, <3>4, FS_Bijection
  <2> QED
    BY <2>1, <2>2, <2>3, <2>4, <2>5
<1> QED
  BY <1>1, <1>2 DEF DownloadsAgree

(* GET /export.csv and generate_encuestas_export: a survey the reviewer had on the list all  *)
(* the while is in a CSV that came to its end, but for at most one for each survey sent   *)
(* that got its recording when those without were asked for; and the manifest of a         *)
(* published ZIP has just the recordings of the surveys of its CSV, whatever the phones     *)
(* did meanwhile.                                                                           *)
THEOREM DownloadsDoNotDiffer == ExportSpec => []DownloadsAgree
<1>1. ExportInit => ExportInv
  BY ExportInitially
<1>2. ExportInv /\ [ExportNext]_exportVars => ExportInv'
  BY ExportStep
<1>3. ExportInv => DownloadsAgree
  BY DownloadsDoAgree
<1> QED
  BY <1>1, <1>2, <1>3, PTL DEF ExportSpec
=============================================================================
