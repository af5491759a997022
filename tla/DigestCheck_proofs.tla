------------------------- MODULE DigestCheck_proofs --------------------------
(***************************************************************************)
(* The verdicts and the refusals of DigestCheck have their reasons, for    *)
(* any number of concurrent calls, digests and images, and any faults.     *)
(***************************************************************************)
EXTENDS DigestCheck, TLAPS

(* What a call may hold: its type, and a result exactly when it is over.   *)
Typed(c) == c \in Call /\ (c.result # "none" <=> c.pc = "done")

LEMMA TypedCalls == TypeOK => \A w \in Calls : Typed(call[w])
BY DEF TypeOK, Typed

(* A step that changes what one call holds.                                *)
LEMMA BecomesTyped ==
  ASSUME TypeOK, NEW w \in Calls, NEW c, Become(w, c), Typed(c)
  PROVE  /\ call' \in [Calls -> Call]
         /\ \A v \in Calls : call'[v].result # "none" <=> call'[v].pc = "done"
BY DEF TypeOK, Become, Typed

(* The ways a call goes on.                                                *)
LEMMA GoesOnTyped ==
  ASSUME NEW c, Typed(c), c.pc # "done", NEW pc \in Working
  PROVE  Typed([c EXCEPT !.pc = pc])
BY DEF Typed, Call, Working

LEMMA EndsTyped ==
  ASSUME NEW c, Typed(c), c.pc # "done", NEW res \in {"upToDate", "pulled", "pullFailed"}
  PROVE  Typed([c EXCEPT !.pc = "done", !.result = res])
BY DEF Typed, Call, Working

LEMMA ErrorTyped ==
  ASSUME NEW c, Typed(c), c.pc # "done"
  PROVE  Typed([c EXCEPT !.pc = "options", !.error = TRUE])
BY DEF Typed, Call, Working

LEMMA HitTyped ==
  ASSUME NEW c, Typed(c)
  PROVE  Typed([c EXCEPT !.hit = TRUE])
BY DEF Typed, Call

LEMMA ImageTyped ==
  ASSUME NEW c, Typed(c), NEW i \in Images
  PROVE  Typed([c EXCEPT !.image = i])
BY DEF Typed, Call

LEMMA CredsTyped ==
  ASSUME NEW c, Typed(c), NEW creds \in {"none", "wrong", "right", "identity"}
  PROVE  Typed([c EXCEPT !.creds = creds])
BY DEF Typed, Call

-----------------------------------------------------------------------------
(* Each step makes of its call something typed.                            *)
LEMMA StepTyped ==
  ASSUME TypeOK, NEW w \in Calls, Step(w)
  PROVE  \E c : Become(w, c) /\ Typed(c)
<1> DEFINE c0 == call[w]
<1>1. Typed(c0)
  BY TypedCalls
<1>2. c0.pc # "done"
  BY
     DEF Step, At, Begin, Inspect, MatchKnown, Credentials, Manifest, Token, Retry, PullOptions, Pull, PullAgain
<1>3. Typed(CheckFails(w)) /\ Typed([CheckFails(w) EXCEPT !.hit = TRUE])
  BY <1>1, <1>2, ErrorTyped, HitTyped DEF CheckFails
<1>4. \A pc \in Working : Typed(Goto(w, pc)) /\ Typed([Goto(w, pc) EXCEPT !.hit = TRUE])
  BY <1>1, <1>2, GoesOnTyped, HitTyped DEF Goto
<1>5. \A res \in {"upToDate", "pulled", "pullFailed"} :
        Typed(End(w, res)) /\ Typed([End(w, res) EXCEPT !.hit = TRUE])
  BY <1>1, <1>2, EndsTyped, HitTyped DEF End
<1>6. Typed(Verdict(w))
  BY <1>4, <1>5 DEF Verdict, Working
<1>7. login \in {"none", "wrong", "right", "identity"}
  BY LoginsAssumption DEF TypeOK
<1>8. CASE Begin(w)
  <2> DEFINE c == [c0 EXCEPT !.pc = IF c0.kind = "pull" THEN "options" ELSE "inspect", !.served = {remote}]
  <2>1. Typed(c)
    BY <1>1, <1>2 DEF Typed, Call, Working, TypeOK
  <2> QED BY <1>8, <2>1 DEF Begin
<1>9. CASE Inspect(w)
  <2>1. ASSUME local # NoImage, NEW d \in LocalDigests(local)
        PROVE  Typed([c0 EXCEPT !.pc = "credentials", !.image = local, !.digest = d])
    BY <1>1, <1>2, <2>1 DEF Typed, Call, Working, TypeOK, LocalDigests, RepoDigests
  <2> QED BY <1>3, <1>9, <2>1 DEF Inspect, Fails
<1>10. CASE MatchKnown(w)
  <2>1. ASSUME local # NoImage
        PROVE  /\ Typed([End(w, "upToDate") EXCEPT !.image = local])
               /\ Typed([Goto(w, "options") EXCEPT !.image = local])
    BY <1>4, <1>5, <2>1, ImageTyped DEF TypeOK, Working
  <2> QED BY <1>3, <1>10, <2>1 DEF MatchKnown, Fails
<1>11. CASE Credentials(w)
  <2>1. Typed([Goto(w, "manifest") EXCEPT !.creds = IF login = "identity" THEN "none" ELSE login])
    BY <1>4, <1>7, CredsTyped DEF Working
  <2> QED BY <1>3, <1>4, <1>11, <2>1 DEF Credentials, Fails, Working
<1>12. CASE Manifest(w)
  BY <1>3, <1>4, <1>6, <1>12 DEF Manifest, Fails, Working
<1>13. CASE Token(w)
  BY <1>3, <1>4, <1>13 DEF Token, Fails, Working
<1>14. CASE Retry(w)
  BY <1>3, <1>6, <1>14 DEF Retry, Fails
<1>15. CASE PullOptions(w)
  <2>1. Typed([Goto(w, "pull") EXCEPT !.creds = login])
    BY <1>4, <1>7, CredsTyped DEF Working
  <2>2. Typed([Goto(w, "pull") EXCEPT !.creds = "none"])
    BY <1>4, CredsTyped DEF Working
  <2>3. Typed([[Goto(w, "pull") EXCEPT !.creds = "none"] EXCEPT !.hit = TRUE])
    BY <2>2, HitTyped
  <2> QED BY <1>5, <1>15, <2>1, <2>3 DEF PullOptions, Fails
<1>16. CASE Pull(w)
  BY <1>4, <1>5, <1>16 DEF Pull, Pulled, Fails, Working
<1>17. CASE PullAgain(w)
  BY <1>5, <1>17 DEF PullAgain, Pulled, Fails
<1> QED BY <1>8, <1>9, <1>10, <1>11, <1>12, <1>13, <1>14, <1>15, <1>16, <1>17 DEF Step

-----------------------------------------------------------------------------
(* Calls stay well-formed, and have a result exactly when they are over    *)
(* (TypeOK).                                                               *)
THEOREM TypeCorrect == Spec => []TypeOK
<1>1. Init => TypeOK
  <2> SUFFICES ASSUME Init PROVE TypeOK
    OBVIOUS
  <2>1. ASSUME NEW w \in Calls PROVE call[w] \in Call /\ call[w].result = "none" /\ call[w].pc = "idle"
    <3>1. PICK c \in [pc : {"idle"}, kind : Kinds, known : Digests \cup {NoDigest}, image : {NoImage},
                      digest : {NoDigest}, creds : {"none"}, served : {{}}, error : {FALSE},
                      hit : {FALSE}, result : {"none"}] : call[w] = c
      BY DEF Init
    <3> QED BY <3>1 DEF Call
  <2>2. call \in [Calls -> Call]
    BY <2>1 DEF Init
  <2>3. repoDigests \subseteq Digests
    BY DEF Init
  <2> QED BY <2>1, <2>2, <2>3, BoundsAssumption DEF Init, TypeOK
<1>2. TypeOK /\ [Next]_vars => TypeOK'
  <2> SUFFICES ASSUME TypeOK, [Next]_vars PROVE TypeOK'
    OBVIOUS
  <2>1. ASSUME NEW w \in Calls, Step(w) PROVE TypeOK'
    <3>1. /\ call' \in [Calls -> Call]
          /\ \A v \in Calls : call'[v].result # "none" <=> call'[v].pc = "done"
      BY <2>1, StepTyped, BecomesTyped
    <3>2. UNCHANGED <<access, remote, login, changes>>
      BY <2>1 DEF Step, Begin, Inspect, MatchKnown, Credentials, Manifest, Token, Retry, PullOptions, Pull,
                  PullAgain
    <3>3. faults' \in 0..MaxFaults
      <4>1. faults' = faults \/ (faults < MaxFaults /\ faults' = faults + 1)
        BY <2>1 DEF Step, Begin, Inspect, MatchKnown, Credentials, Manifest, Token, Retry, PullOptions, Pull,
                    PullAgain, Answered, Fails
      <4> QED BY <4>1, BoundsAssumption DEF TypeOK
    <3>4. \/ UNCHANGED <<local, repoDigests>>
          \/ local' = ImageOf[remote] /\ repoDigests' = repoDigests \cup {remote}
      BY <2>1 DEF Step, Begin, Inspect, MatchKnown, Credentials, Manifest, Token, Retry, PullOptions, Pull,
                  PullAgain, Pulled
    <3>5. local' \in Images \cup {NoImage} /\ repoDigests' \subseteq Digests
      BY <3>4, DigestsAssumption DEF TypeOK
    <3> QED BY <3>1, <3>2, <3>3, <3>5 DEF TypeOK
  <2>2. CASE Publish
    <3>1. PICK d \in Digests :
            /\ remote' = d
            /\ call' = [w \in Calls |-> IF At(w, "idle") \/ At(w, "done") THEN call[w]
                                        ELSE [call[w] EXCEPT !.served = @ \cup {d}]]
      BY <2>2 DEF Publish
    <3>2. ASSUME NEW w \in Calls
          PROVE  call'[w] \in Call /\ call'[w].pc = call[w].pc /\ call'[w].result = call[w].result
      <4>1. call[w] \in Call
        BY DEF TypeOK
      <4>2. [call[w] EXCEPT !.served = @ \cup {d}] \in Call
        BY <4>1 DEF Call
      <4>3. /\ [call[w] EXCEPT !.served = @ \cup {d}].pc = call[w].pc
            /\ [call[w] EXCEPT !.served = @ \cup {d}].result = call[w].result
        BY <4>1 DEF Call
      <4> QED BY <3>1, <4>1, <4>2, <4>3
    <3>3. call' \in [Calls -> Call]
      BY <3>1, <3>2
    <3>4. changes' \in 0..MaxChanges
      BY <2>2, BoundsAssumption DEF Publish, Changes, TypeOK
    <3> QED BY <2>2, <3>1, <3>2, <3>3, <3>4 DEF Publish, TypeOK
  <2>3. CASE ChangeImage
    <3>1. changes' \in 0..MaxChanges
      BY <2>3, BoundsAssumption DEF ChangeImage, Changes, TypeOK
    <3>2. local' \in Images \cup {NoImage} /\ repoDigests' \subseteq Digests
      BY <2>3, DigestsAssumption DEF ChangeImage, TypeOK
    <3> QED BY <2>3, <3>1, <3>2 DEF ChangeImage, TypeOK
  <2>4. CASE LogIn
    BY <2>4, BoundsAssumption DEF LogIn, Changes, TypeOK
  <2>5. CASE UNCHANGED vars
    BY <2>5 DEF vars, TypeOK
  <2> QED BY <2>1, <2>2, <2>3, <2>4, <2>5 DEF Next
<1> QED BY <1>1, <1>2, PTL DEF Spec

-----------------------------------------------------------------------------
(* The inductive invariant, call by call.                                  *)
Verdicts(c) ==
  c.result = "upToDate" => IF c.kind = "known" THEN c.image = ImageOf[c.known]
                                               ELSE \E d \in c.served : c.image = ImageOf[d]
Refusals(c) ==
  ~c.hit => /\ c.error /\ c.pc = "options" => c.image = NoImage \/ RefusedForCredentials(c.creds)
            /\ c.result = "pullFailed" => access \in {"basic", "private"} /\ c.creds \in {"none", "wrong"}
Right(c) == Sound(c) /\ Verdicts(c) /\ Refusals(c)

LEMMA StepRight ==
  ASSUME TypeOK, NEW w \in Calls, Step(w), Right(call[w])
  PROVE  \E c : Become(w, c) /\ Right(c)
<1> DEFINE c0 == call[w]
<1>1. c0 \in Call /\ (c0.result = "none" <=> c0.pc # "done") /\ Right(c0)
  BY DEF TypeOK
<1>2. access \in {"open", "basic", "token", "private"} /\ login \in {"none", "wrong", "right", "identity"}
  BY AccessAssumption, LoginsAssumption DEF TypeOK
<1>8. CASE Begin(w)
  <2> DEFINE c == [c0 EXCEPT !.pc = IF c0.kind = "pull" THEN "options" ELSE "inspect", !.served = {remote}]
  <2>1. Right(c)
    BY <1>1, <1>8 DEF Begin, At, Call, Working, Right, Sound, Verdicts, Refusals
  <2> QED BY <1>8, <2>1 DEF Begin
<1>9. CASE Inspect(w)
  <2>1. ASSUME local # NoImage, NEW d \in LocalDigests(local)
        PROVE  Right([c0 EXCEPT !.pc = "credentials", !.image = local, !.digest = d])
    <3>1. d \in Digests => ImageOf[d] = local
      BY <2>1, DigestsAssumption DEF LocalDigests, RepoDigests, TypeOK
    <3> QED BY <1>1, <1>9, <3>1 DEF Inspect, At, Call, Working, Right, Sound, Verdicts, Refusals
  <2>2. Right([CheckFails(w) EXCEPT !.hit = TRUE]) /\ Right(CheckFails(w))
    BY <1>1, <1>9 DEF Inspect, CheckFails, At, Call, Working, Right, Sound, Verdicts, Refusals
  <2> QED BY <1>9, <2>1, <2>2 DEF Inspect, Fails
<1>10. CASE MatchKnown(w)
  <2>1. Right([Goto(w, "options") EXCEPT !.image = local])
    BY <1>1, <1>10 DEF MatchKnown, Goto, At, Call, Working, Right, Sound, Verdicts, Refusals
  <2>2. ASSUME c0.known \in RepoDigests(local) PROVE Right([End(w, "upToDate") EXCEPT !.image = local])
    BY <1>1, <1>10, <2>2 DEF MatchKnown, RepoDigests, End, At, Call, Working, Right, Sound, Verdicts, Refusals
  <2>3. Right([CheckFails(w) EXCEPT !.hit = TRUE]) /\ Right(CheckFails(w))
    BY <1>1, <1>10 DEF MatchKnown, CheckFails, At, Call, Working, Right, Sound, Verdicts, Refusals
  <2> QED BY <1>10, <2>1, <2>2, <2>3 DEF MatchKnown, Fails
<1>11. CASE Credentials(w)
  <2>1. Right([Goto(w, "manifest") EXCEPT !.creds = IF login = "identity" THEN "none" ELSE login])
    BY <1>1, <1>2, <1>11 DEF Credentials, Goto, At, Call, Working, Right, Sound, Verdicts, Refusals
  <2>2. Right([CheckFails(w) EXCEPT !.hit = TRUE])
    BY <1>1, <1>11 DEF Credentials, CheckFails, At, Call, Working, Right, Sound, Verdicts, Refusals
  <2>3. Right([Goto(w, "manifest") EXCEPT !.hit = TRUE])
    BY <1>1, <1>11 DEF Credentials, Goto, At, Call, Working, Right, Sound, Verdicts, Refusals
  <2> QED BY <1>11, <2>1, <2>2, <2>3 DEF Credentials, Fails
<1>12. CASE Manifest(w) \/ Retry(w)
  <2>1. c0.pc \in {"manifest", "retry"}
    BY <1>12 DEF Manifest, Retry, At
  <2>2. Right(Verdict(w))
    <3>1. c0.digest = remote => ImageOf[remote] = c0.image /\ remote \in c0.served
      BY <1>1, <2>1 DEF TypeOK, Working, Right, Sound
    <3> QED BY <1>1, <2>1, <3>1 DEF Verdict, End, Goto, Call, Working, Right, Sound, Verdicts, Refusals
  <2>3. Right([CheckFails(w) EXCEPT !.hit = TRUE])
    BY <1>1, <2>1 DEF CheckFails, Call, Working, Right, Sound, Verdicts, Refusals
  <2>4. ~Granted(w) /\ ~Challenged(w) => Right(CheckFails(w))
    BY <1>1, <1>2, <2>1
       DEF CheckFails, Granted, Challenged, RefusedForCredentials, Call, Working, Right, Sound, Verdicts, Refusals
  <2>5. c0.pc = "manifest" /\ Challenged(w) => Right(Goto(w, "token"))
    BY <1>1, <2>1 DEF Goto, Challenged, Call, Working, Right, Sound, Verdicts, Refusals
  <2> QED BY <1>12, <2>2, <2>3, <2>4, <2>5 DEF Manifest, Retry, Fails, At
<1>13. CASE Token(w)
  <2>1. Right(Goto(w, "retry"))
    BY <1>1, <1>13 DEF Token, Goto, At, Call, Working, Right, Sound, Verdicts, Refusals
  <2>2. Right([CheckFails(w) EXCEPT !.hit = TRUE])
    BY <1>1, <1>13 DEF Token, CheckFails, At, Call, Working, Right, Sound, Verdicts, Refusals
  <2>3. ~TokenGiven(w) => Right(CheckFails(w))
    BY <1>1, <1>2, <1>13
       DEF Token, CheckFails, TokenGiven, RefusedForCredentials, At, Call, Working, Right, Sound, Verdicts, Refusals
  <2> QED BY <1>13, <2>1, <2>2, <2>3 DEF Token, Fails
<1>15. CASE PullOptions(w)
  <2>1. \A creds \in {login, "none"} : Right([Goto(w, "pull") EXCEPT !.creds = creds])
    BY <1>1, <1>2, <1>15 DEF PullOptions, Goto, At, Call, Working, Right, Sound, Verdicts, Refusals
  <2>2. Right([[Goto(w, "pull") EXCEPT !.creds = "none"] EXCEPT !.hit = TRUE])
    BY <1>1, <1>2, <1>15 DEF PullOptions, Goto, At, Call, Working, Right, Sound, Verdicts, Refusals
  <2>3. Right([End(w, "pullFailed") EXCEPT !.hit = TRUE])
    BY <1>1, <1>15 DEF PullOptions, End, At, Call, Working, Right, Sound, Verdicts, Refusals
  <2> QED BY <1>15, <2>1, <2>2, <2>3 DEF PullOptions, Fails
<1>16. CASE Pull(w) \/ PullAgain(w)
  <2>1. c0.pc = "pull" \/ (c0.pc = "repull" /\ c0.creds = "wrong")
    BY <1>1, <1>16 DEF Pull, PullAgain, At, Right, Sound
  <2>2. Right(End(w, "pulled")) /\ Right([End(w, "pullFailed") EXCEPT !.hit = TRUE])
    BY <1>1, <2>1 DEF End, Call, Working, Right, Sound, Verdicts, Refusals
  <2>3. ~Allowed("none") /\ c0.creds \in {"none", "wrong"} => Right(End(w, "pullFailed"))
    BY <1>1, <1>2, <2>1 DEF Allowed, End, Call, Working, Right, Sound, Verdicts, Refusals
  <2>4. c0.pc = "pull" /\ ~Allowed(c0.creds) /\ c0.creds # "none" => Right(Goto(w, "repull"))
    <3>1. ~Allowed(c0.creds) /\ c0.creds # "none" => c0.creds = "wrong"
      BY <1>1 DEF Allowed, Call
    <3> QED BY <1>1, <2>1, <3>1 DEF Goto, Call, Working, Right, Sound, Verdicts, Refusals
  <2> QED BY <1>16, <2>1, <2>2, <2>3, <2>4 DEF Pull, PullAgain, Pulled, Fails, At
<1> QED BY <1>8, <1>9, <1>10, <1>11, <1>12, <1>13, <1>15, <1>16, Zenon DEF Step
-----------------------------------------------------------------------------
AllRight == \A w \in Calls : Right(call[w])

(* A step leaves its own call right, and what it does not touch is what    *)
(* the others' being right is about.                                       *)
LEMMA StepAllRight ==
  ASSUME TypeOK, AllRight, NEW w \in Calls, Step(w)
  PROVE  AllRight'
<1>1. UNCHANGED <<access, remote>>
  BY DEF Step, Begin, Inspect, MatchKnown, Credentials, Manifest, Token, Retry, PullOptions, Pull, PullAgain
<1>2. PICK c : Become(w, c) /\ Right(c)
  BY StepRight DEF AllRight
<1>3. \A v \in Calls : Right(call'[v])
  BY <1>2 DEF Become, TypeOK, AllRight
<1>4. ASSUME NEW v \in Calls PROVE Right(call[v])'
  BY <1>1, <1>3 DEF Right, Sound, Verdicts, Refusals, RefusedForCredentials
<1> QED BY <1>4 DEF AllRight

(* What the registry serves from now on is served to the calls under way.  *)
LEMMA PublishAllRight ==
  ASSUME TypeOK, AllRight, Publish
  PROVE  AllRight'
<1>1. PICK d \in Digests :
        /\ remote' = d
        /\ call' = [w \in Calls |-> IF At(w, "idle") \/ At(w, "done") THEN call[w]
                                    ELSE [call[w] EXCEPT !.served = @ \cup {d}]]
  BY DEF Publish
<1>2. ASSUME NEW w \in Calls PROVE Right(call[w])'
  <2>1. call[w] \in Call /\ Right(call[w]) /\ access' = access
    BY DEF TypeOK, AllRight, Publish
  <2>2. CASE At(w, "idle") \/ At(w, "done")
    <3>1. call'[w] = call[w]
      BY <1>1, <2>2
    <3> QED BY <2>1, <2>2, <3>1 DEF At, Working, Right, Sound, Verdicts, Refusals
  <2>3. CASE ~(At(w, "idle") \/ At(w, "done"))
    <3>1. call'[w] = [call[w] EXCEPT !.served = @ \cup {d}]
      BY <1>1, <2>3
    <3>2. /\ call'[w].served = call[w].served \cup {d}
          /\ call'[w].pc = call[w].pc /\ call'[w].kind = call[w].kind
          /\ call'[w].known = call[w].known /\ call'[w].image = call[w].image
          /\ call'[w].digest = call[w].digest /\ call'[w].creds = call[w].creds
          /\ call'[w].error = call[w].error /\ call'[w].hit = call[w].hit
          /\ call'[w].result = call[w].result
      BY <2>1, <3>1 DEF Call
    <3>3. Sound(call[w])'
      BY <1>1, <2>1, <3>2 DEF Right, Sound
    <3>4. Verdicts(call'[w]) /\ Refusals(call[w])'
      BY <2>1, <3>2 DEF Right, Verdicts, Refusals, RefusedForCredentials
    <3> QED BY <3>3, <3>4 DEF Right, Verdicts
  <2> QED BY <2>2, <2>3
<1> QED BY <1>2 DEF AllRight

LEMMA AllRightHolds == Spec => []AllRight
<1>1. Init => AllRight
  <2> SUFFICES ASSUME Init, NEW w \in Calls PROVE Right(call[w])
    BY DEF AllRight
  <2>1. PICK c \in [pc : {"idle"}, kind : Kinds, known : Digests \cup {NoDigest}, image : {NoImage},
                    digest : {NoDigest}, creds : {"none"}, served : {{}}, error : {FALSE},
                    hit : {FALSE}, result : {"none"}] : call[w] = c
    BY DEF Init
  <2> QED BY <2>1 DEF Right, Sound, Verdicts, Refusals, Working
<1>2. TypeOK /\ AllRight /\ [Next]_vars => AllRight'
  <2> SUFFICES ASSUME TypeOK, AllRight, [Next]_vars PROVE AllRight'
    OBVIOUS
  <2>1. CASE \E w \in Calls : Step(w)
    BY <2>1, StepAllRight
  <2>2. CASE Publish
    BY <2>2, PublishAllRight
  <2>3. CASE ChangeImage \/ LogIn \/ UNCHANGED vars
    <3>1. UNCHANGED <<call, access, remote>>
      BY <2>3 DEF ChangeImage, LogIn, vars
    <3> QED BY <3>1 DEF AllRight, Right, Sound, Verdicts, Refusals, RefusedForCredentials
  <2> QED BY <2>1, <2>2, <2>3 DEF Next
<1> QED BY <1>1, <1>2, TypeCorrect, PTL DEF Spec

(* An image passes for up to date only when the registry served it during  *)
(* the check, or the record names it (UpToDateIsTrue).                     *)
THEOREM UpToDateIsTrueHolds == Spec => []UpToDateIsTrue
<1>1. AllRight => UpToDateIsTrue
  BY DEF AllRight, Right, Verdicts, UpToDateIsTrue
<1> QED BY <1>1, AllRightHolds, PTL

(* A call none of whose requests failed is refused an image only for the   *)
(* want of credentials the registry asks for (RefusalsHaveAReason).        *)
THEOREM RefusalsHaveAReasonHolds == Spec => []RefusalsHaveAReason
<1>1. AllRight => RefusalsHaveAReason
  BY DEF AllRight, Right, Refusals, RefusalsHaveAReason, At
<1> QED BY <1>1, AllRightHolds, PTL
=============================================================================
