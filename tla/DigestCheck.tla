----------------------------- MODULE DigestCheck -----------------------------
(***************************************************************************)
(* How the updater finds out whether an image needs an update, and pulls   *)
(* it: Checker of internal/digestcheck, the default RegistryDigestResolver *)
(* and ImagePuller (defaults.go, default_auth.go), and the exchange with a *)
(* registry that asks for a token (registry/registry_http.go).             *)
(*                                                                         *)
(* Calls act on one reference concurrently.  The registry publishes, the   *)
(* daemon's image is pulled or removed by others and gets digests of other *)
(* repositories, and the host logs in and out, between any two requests.   *)
(* Any request may fail; what fails for a malformed answer, a challenge    *)
(* without an https realm, a missing header or an unreadable Docker config *)
(* is a failure like any other.                                            *)
(***************************************************************************)
EXTENDS Naturals

CONSTANTS
  Calls,
  Kinds,            \* what calls are for
  Digests,          \* of manifests
  Images, NoImage,  \* image IDs
  ImageOf,          \* the image a manifest stands for: [Digests -> Images]
  NoDigest,
  Accesses,         \* what the registry may ask for
  Logins,           \* what the Docker config may hold for the registry
  MaxChanges,       \* bound on what changes around the calls
  MaxFaults         \* bound on failing requests

ASSUME KindsAssumption ==
  Kinds \subseteq {"check",    \* planImageUpToDate asks the registry, then the image is pulled
                   "known",    \* it has a digest from the record
                   "pull"}     \* UpdateContainer, or a forced plan: nothing is checked
ASSUME DigestsAssumption ==
  /\ ImageOf \in [Digests -> Images]
  /\ NoImage \notin Images /\ NoDigest \notin Digests \cup Images /\ Digests \cap Images = {}
ASSUME AccessAssumption ==
  Accesses \subseteq {"open",       \* nothing
                      "basic",      \* the credentials
                      "token",      \* a token, which it gives to anyone
                      "private"}    \* a token, for which it wants the credentials
ASSUME LoginsAssumption ==
  Logins \subseteq {"none", "wrong", "right",
                    "identity"}     \* an identity token without a user: only the daemon can use it
ASSUME BoundsAssumption == MaxChanges \in Nat /\ MaxFaults \in Nat

VARIABLES
  access,           \* of the registry
  remote,           \* the digest it serves
  local,            \* the daemon's image of the reference
  repoDigests,      \* the digests it knows its images by, of whatever repository
  login,            \* in the Docker config
  call,             \* the locals of each call
  changes, faults   \* bounds

vars == <<access, remote, local, repoDigests, login, call, changes, faults>>

Working == {"inspect", "credentials", "manifest", "token", "retry", "options", "pull", "repull"}

Call == [pc       : Working \cup {"idle", "done"},
         kind     : Kinds,
         known    : Digests \cup {NoDigest},     \* LatestDigest of the record
         image    : Images \cup {NoImage},      \* of the inspect
         digest   : Digests \cup Images \cup {NoDigest},  \* the local digest
         creds    : {"none", "wrong", "right", "identity"},
         served   : SUBSET Digests,             \* by the registry since the call began
         error    : BOOLEAN,                    \* of the check
         hit      : BOOLEAN,                    \* whether a request of the call failed
         result   : {"none", "upToDate", "pulled", "pullFailed"}]

TypeOK ==
  /\ access \in Accesses /\ remote \in Digests
  /\ local \in Images \cup {NoImage} /\ repoDigests \subseteq Digests
  /\ login \in Logins
  /\ call \in [Calls -> Call]
  /\ \A w \in Calls : call[w].result # "none" <=> call[w].pc = "done"
  /\ changes \in 0..MaxChanges /\ faults \in 0..MaxFaults

-----------------------------------------------------------------------------
Init ==
  /\ access \in Accesses /\ remote \in Digests
  /\ local \in Images \cup {NoImage}
  /\ repoDigests \in SUBSET {d \in Digests : ImageOf[d] = local}
  /\ login \in Logins
  /\ call \in [Calls -> {c \in [pc : {"idle"}, kind : Kinds, known : Digests \cup {NoDigest}, image : {NoImage},
                                digest : {NoDigest}, creds : {"none"}, served : {{}}, error : {FALSE},
                                hit : {FALSE}, result : {"none"}] :
                           c.known = NoDigest <=> c.kind # "known"}]
  /\ changes = 0 /\ faults = 0

At(w, pc)     == call[w].pc = pc
Goto(w, pc)   == [call[w] EXCEPT !.pc = pc]
End(w, res)   == [call[w] EXCEPT !.pc = "done", !.result = res]
Become(w, c)  == call' = [call EXCEPT ![w] = c]

(* The request does what it should; or it fails, and the call goes on as c.*)
Answered   == UNCHANGED faults
Fails(w, c) == /\ faults < MaxFaults /\ faults' = faults + 1
               /\ Become(w, [c EXCEPT !.hit = TRUE])

(* A check that ends with an error does not say up to date: the plan goes  *)
(* on with the pull (planImageUpToDate).                                   *)
CheckFails(w) == [call[w] EXCEPT !.pc = "options", !.error = TRUE]

Begin(w) ==
  /\ At(w, "idle")
  /\ Become(w, [call[w] EXCEPT !.pc = IF call[w].kind = "pull" THEN "options" ELSE "inspect",
                               !.served = {remote}])
  /\ UNCHANGED <<access, remote, local, repoDigests, login, changes, faults>>

-----------------------------------------------------------------------------
(* The checks.                                                             *)

RepoDigests(image) == {d \in repoDigests : ImageOf[d] = image}

(* localDigest: the first of the image's RepoDigests, whose order is the   *)
(* daemon's, or its ID when it has none.                                   *)
LocalDigests(image) == IF RepoDigests(image) = {} THEN {image} ELSE RepoDigests(image)

(* CheckImageNeedsUpdate inspects the image, ...                           *)
Inspect(w) ==
  /\ At(w, "inspect") /\ call[w].kind = "check"
  /\ \/ /\ Answered /\ local # NoImage
        /\ \E d \in LocalDigests(local) :
             Become(w, [call[w] EXCEPT !.pc = "credentials", !.image = local, !.digest = d])
     \/ Answered /\ local = NoImage /\ Become(w, CheckFails(w))
     \/ Fails(w, CheckFails(w))
  /\ UNCHANGED <<access, remote, local, repoDigests, login, changes>>

(* Wrong on purpose: the image is pulled though it matches.                *)
MatchKnownGoingOn(w) ==
  /\ At(w, "inspect") /\ call[w].kind = "known"
  /\ Answered /\ local # NoImage
  /\ Become(w, [Goto(w, "options") EXCEPT !.image = local,
                   !.result = IF call[w].known \in RepoDigests(local) THEN "upToDate" ELSE "none"])
  /\ UNCHANGED <<access, remote, local, repoDigests, login, changes>>

(* CheckImageMatchesKnownDigest: any of its RepoDigests will do.           *)
MatchKnown(w) ==
  /\ At(w, "inspect") /\ call[w].kind = "known"
  /\ \/ /\ Answered /\ local # NoImage
        /\ IF call[w].known \in RepoDigests(local)
           THEN Become(w, [End(w, "upToDate") EXCEPT !.image = local])
           ELSE Become(w, [Goto(w, "options") EXCEPT !.image = local])
     \/ Answered /\ local = NoImage /\ Become(w, CheckFails(w))
     \/ Fails(w, CheckFails(w))
  /\ UNCHANGED <<access, remote, local, repoDigests, login, changes>>

(* ... defaultDigestCredentials: credentials that lack the user or the     *)
(* token are none; nor is a failed lookup an error.                        *)
Credentials(w) ==
  /\ At(w, "credentials")
  /\ \/ /\ Answered
        /\ Become(w, [Goto(w, "manifest") EXCEPT !.creds = IF login = "identity" THEN "none" ELSE login])
     \/ Fails(w, CheckFails(w))
     \/ Fails(w, Goto(w, "manifest"))
  /\ UNCHANGED <<access, remote, local, repoDigests, login, changes>>

(* The digest the registry gives against the local one.                    *)
Verdict(w) ==
  IF call[w].digest = remote THEN End(w, "upToDate") ELSE Goto(w, "options")

(* authorizedManifestHeaders: the first manifest request carries the       *)
(* credentials, if any.                                                    *)
Granted(w)    == access = "open" \/ (access = "basic" /\ call[w].creds = "right")
Challenged(w) == access \in {"token", "private"}

Manifest(w) ==
  /\ At(w, "manifest")
  /\ \/ Answered /\ Granted(w) /\ Become(w, Verdict(w))
     \/ Answered /\ Challenged(w) /\ Become(w, Goto(w, "token"))
     \/ Answered /\ ~Granted(w) /\ ~Challenged(w) /\ Become(w, CheckFails(w))
     \/ Fails(w, CheckFails(w))
  /\ UNCHANGED <<access, remote, local, repoDigests, login, changes>>

(* fetchRegistryToken: wrong credentials are refused, not ignored.         *)
TokenGiven(w) == call[w].creds = "right" \/ (call[w].creds = "none" /\ access = "token")

Token(w) ==
  /\ At(w, "token")
  /\ \/ Answered /\ TokenGiven(w) /\ Become(w, Goto(w, "retry"))
     \/ Answered /\ ~TokenGiven(w) /\ Become(w, CheckFails(w))
     \/ Fails(w, CheckFails(w))
  /\ UNCHANGED <<access, remote, local, repoDigests, login, changes>>

(* Wrong on purpose: a refused token is asked for again.                   *)
RetryForEver(w) ==
  /\ At(w, "retry")
  /\ \/ Answered /\ Become(w, Verdict(w))
     \/ Answered /\ Become(w, Goto(w, "token"))
  /\ UNCHANGED <<access, remote, local, repoDigests, login, changes>>

(* Wrong on purpose: an answer without the digest counts as unchanged.     *)
RetryTrusting(w) ==
  /\ At(w, "retry")
  /\ \/ Answered /\ Become(w, Verdict(w))
     \/ Fails(w, End(w, "upToDate"))
  /\ UNCHANGED <<access, remote, local, repoDigests, login, changes>>

(* The request is repeated with the token, once.                           *)
Retry(w) ==
  /\ At(w, "retry")
  /\ \/ Answered /\ Become(w, Verdict(w))
     \/ Fails(w, CheckFails(w))
  /\ UNCHANGED <<access, remote, local, repoDigests, login, changes>>

-----------------------------------------------------------------------------
(* defaultImagePuller.PullImage.                                           *)

(* defaultImagePullOptions: whatever credentials there are go along, and   *)
(* with them the privilege function.                                       *)
PullOptions(w) ==
  /\ At(w, "options")
  /\ \/ Answered /\ Become(w, [Goto(w, "pull") EXCEPT !.creds = login])
     \/ Fails(w, End(w, "pullFailed"))
     \/ Fails(w, [Goto(w, "pull") EXCEPT !.creds = "none"])
  /\ UNCHANGED <<access, remote, local, repoDigests, login, changes>>

(* What the registry gives to a daemon with the given credentials.         *)
Allowed(creds) ==
  \/ access = "open"
  \/ access = "token" /\ creds # "wrong"
  \/ creds \in {"right", "identity"}

Pulled(w) ==
  /\ Become(w, End(w, "pulled"))
  /\ local' = ImageOf[remote] /\ repoDigests' = repoDigests \cup {remote}

(* Wrong on purpose: there is no privilege function.                       *)
PullOnce(w) ==
  /\ At(w, "pull")
  /\ \/ Answered /\ Allowed(call[w].creds) /\ Pulled(w)
     \/ /\ Answered /\ ~Allowed(call[w].creds)
        /\ Become(w, End(w, "pullFailed")) /\ UNCHANGED <<local, repoDigests>>
  /\ UNCHANGED <<access, remote, login, changes>>

(* A refusal of credentials makes the client call the privilege function,  *)
(* which gives none, and try again.  A pull that fails may have succeeded. *)
Pull(w) ==
  /\ At(w, "pull")
  /\ \/ Answered /\ Allowed(call[w].creds) /\ Pulled(w)
     \/ /\ Answered /\ ~Allowed(call[w].creds)
        /\ Become(w, IF call[w].creds = "none" THEN End(w, "pullFailed") ELSE Goto(w, "repull"))
        /\ UNCHANGED <<local, repoDigests>>
     \/ /\ Fails(w, End(w, "pullFailed"))
        /\ \/ UNCHANGED <<local, repoDigests>>
           \/ local' = ImageOf[remote] /\ repoDigests' = repoDigests \cup {remote}
  /\ UNCHANGED <<access, remote, login, changes>>

PullAgain(w) ==
  /\ At(w, "repull")
  /\ \/ Answered /\ Allowed("none") /\ Pulled(w)
     \/ Answered /\ ~Allowed("none") /\ Become(w, End(w, "pullFailed")) /\ UNCHANGED <<local, repoDigests>>
     \/ Fails(w, End(w, "pullFailed")) /\ UNCHANGED <<local, repoDigests>>
  /\ UNCHANGED <<access, remote, login, changes>>

-----------------------------------------------------------------------------
Changes == changes < MaxChanges /\ changes' = changes + 1

Publish ==
  /\ Changes
  /\ \E d \in Digests :
       /\ remote' = d
       /\ call' = [w \in Calls |-> IF At(w, "idle") \/ At(w, "done") THEN call[w]
                                   ELSE [call[w] EXCEPT !.served = @ \cup {d}]]
  /\ UNCHANGED <<access, local, repoDigests, login, faults>>

(* Others pull the image, by this reference or under another repository,   *)
(* load one without digests, or remove it.                                 *)
ChangeImage ==
  /\ Changes
  /\ \/ local' = ImageOf[remote] /\ repoDigests' = repoDigests \cup {remote}
     \/ \E d \in Digests : ImageOf[d] = local /\ repoDigests' = repoDigests \cup {d} /\ UNCHANGED local
     \/ \E i \in Images \cup {NoImage} : local' = i /\ UNCHANGED repoDigests
  /\ UNCHANGED <<access, remote, login, call, faults>>

LogIn ==
  /\ Changes
  /\ login' \in Logins
  /\ UNCHANGED <<access, remote, local, repoDigests, call, faults>>

Step(w) ==
  \/ Begin(w) \/ Inspect(w) \/ MatchKnown(w) \/ Credentials(w)
  \/ Manifest(w) \/ Token(w) \/ Retry(w)
  \/ PullOptions(w) \/ Pull(w) \/ PullAgain(w)

Next == Publish \/ ChangeImage \/ LogIn \/ \E w \in Calls : Step(w)

Spec == Init /\ [][Next]_vars

(* A call goes on: its requests are answered, or time out (30 seconds for  *)
(* the exchange, NewHTTPClient and FetchDigest).                           *)
FairSpec == Spec /\ \A w \in Calls : WF_vars(Step(w))

-----------------------------------------------------------------------------
(* An image that passes for up to date, so that its plan is skipped, is    *)
(* one the registry has served for the reference during the check, or the  *)
(* one the record was made for: neither failing requests nor the digests   *)
(* of other repositories hide an update, whatever changes in between.      *)
UpToDateIsTrue ==
  \A w \in Calls : call[w].result = "upToDate" =>
    IF call[w].kind = "known" THEN call[w].image = ImageOf[call[w].known]
                              ELSE \E d \in call[w].served : call[w].image = ImageOf[d]

(* When no request fails, a check ends with an error, and a pull without   *)
(* the image, only for the registry's want of credentials: credentials     *)
(* that cannot be used for a digest do not keep it from an image anyone    *)
(* may have, and wrong ones do not keep the daemon from it (default_auth.go*)
(* 41-59 and 110-112).                                                     *)
RefusedForCredentials(creds) ==
  IF access \in {"open", "token"} THEN access = "token" /\ creds = "wrong" ELSE creds # "right"

RefusalsHaveAReason ==
  \A w \in Calls : ~call[w].hit =>
    /\ call[w].error /\ At(w, "options") =>
         call[w].image = NoImage \/ RefusedForCredentials(call[w].creds)
    /\ call[w].result = "pullFailed" => access \in {"basic", "private"} /\ call[w].creds \in {"none", "wrong"}

(* Every call ends: a registry that refuses its own token is not asked for *)
(* another one.                                                            *)
EveryCallEnds == \A w \in Calls : (call[w].pc \in Working) ~> (call[w].pc = "done")

-----------------------------------------------------------------------------
(* What is known of a call in the middle of it, which is what its verdict  *)
(* and its refusals rest on: the local digest is one of the image that was *)
(* inspected, and the registry's present digest is one it served to it.    *)
Sound(c) ==
  /\ c.pc \in {"idle", "inspect", "credentials", "manifest", "token", "retry"} => ~c.error
  /\ c.pc \in {"idle", "inspect"} => c.image = NoImage
  /\ c.pc \in {"credentials", "manifest", "token", "retry"} =>
       c.kind = "check" /\ (c.digest \in Digests => ImageOf[c.digest] = c.image)
  /\ c.pc \in {"idle", "inspect", "credentials"} => c.creds = "none"
  /\ c.pc \in {"manifest", "token", "retry"} => c.creds # "identity"
  /\ c.pc = "token" => access \in {"token", "private"}
  /\ c.pc = "repull" => c.creds = "wrong"
  /\ c.pc \in Working => remote \in c.served
=============================================================================
