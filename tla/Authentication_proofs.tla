----------------------- MODULE Authentication_proofs -----------------------
(***************************************************************************)
(* Proofs about Authentication, for every set of concurrent calls, keys,   *)
(* tokens and bodies.                                                      *)
(***************************************************************************)
EXTENDS Authentication, TLAPS

Asking == {"lookup", "locked", "fetch", "merge", "merging"}
Fetching == {"fetch", "merge", "merging"}

-----------------------------------------------------------------------------
(* What is true of a call while the issuer publishes pub and has published *)
(* kn, and the cache is ca.                                                *)

(* Its token: a genuine one is signed with a key that was published.       *)
TokenOK(call, kn) ==
    call.step \in Asking \cup {"verify"} \/ call.answer = "unauthorized" =>
        /\ call.token \in Tokens
        /\ call.token # DevToken /\ call.token.genuine => call.token.kid \in kn

(* Where it can be: at the issuer only when it has not been let in before, *)
(* and at the check of the signature only with a key.                      *)
PlaceOK(call, ca) ==
    /\ call.step # "done" => call.answer = "none"
    /\ call.step \in Asking => call.token # DevToken
    /\ call.step # "done" /\ call.passed => call.body \in Bodies \ {Null}
    /\ call.step \in Fetching => ~call.passed
    /\ call.step = "verify" /\ call.token # DevToken => call.token.kid \in ca
    /\ call.step \in Asking \cup {"verify"} /\ call.passed /\ call.token # DevToken =>
            call.token.kid \in ca /\ Genuine(call.token)

(* What it fetched: keys that were published, and those that are missing   *)
(* were withdrawn.                                                         *)
FetchedOK(call, pub, kn) ==
    /\ call.fetched \subseteq kn
    /\ call.step \in {"merge", "merging"} /\ call.token.genuine =>
            call.token.kid \in call.fetched \/ call.token.kid \notin pub

(* What it was answered.                                                   *)
AnswerOK(call, pub) ==
    call.answer = "unauthorized" =>
        /\ call.passed => call.expired
        /\ call.token # DevToken /\ Genuine(call.token) /\ ~call.expired /\ ~call.failed =>
                call.token.kid \notin pub

CallOK(call, pub, kn, ca) ==
    /\ call \in Call
    /\ TokenOK(call, kn) /\ PlaceOK(call, ca)
    /\ FetchedOK(call, pub, kn) /\ AnswerOK(call, pub)

IssuerOK == published \subseteq known /\ known \subseteq Kids
CacheOK == cache \subseteq known /\ mu \in Calls \cup {Null}
CallsOK ==
    /\ DOMAIN calls = Calls /\ calls = [c \in Calls |-> calls[c]]
    /\ \A c \in Calls : CallOK(calls[c], published, known, cache)

AuthInv == IssuerOK /\ CacheOK /\ CallsOK

-----------------------------------------------------------------------------
LEMMA NoCallOK ==
    ASSUME NEW pub, NEW kn, NEW ca
    PROVE  CallOK(NoCall, pub, kn, ca) /\ CallOK(BadRequest, pub, kn, ca)
BY DEF CallOK, Call, NoCall, BadRequest, Steps, Answers, TokenOK, PlaceOK, FetchedOK, AnswerOK,
    Asking, Fetching

LEMMA InitInv == Init => AuthInv
BY NoCallOK DEF Init, AuthInv, IssuerOK, CacheOK, CallsOK

(* What is true of a call stays true while other calls add to the cache    *)
(* and the issuer adds new keys or withdraws old ones.                     *)
LEMMA CallStays ==
    ASSUME NEW call, NEW pub, NEW kn, NEW ca, NEW pub2, NEW kn2, NEW ca2,
           CallOK(call, pub, kn, ca),
           kn \subseteq kn2, ca \subseteq ca2, pub2 \cap kn \subseteq pub
    PROVE  CallOK(call, pub2, kn2, ca2)
<1>1. TokenOK(call, kn2)
  BY DEF CallOK, TokenOK
<1>2. PlaceOK(call, ca2)
  BY DEF CallOK, PlaceOK
<1>3. FetchedOK(call, pub2, kn2)
  <2> SUFFICES ASSUME call.step \in {"merge", "merging"}, call.token.genuine,
                      call.token.kid \notin call.fetched
               PROVE  call.token.kid \notin pub2
    BY DEF CallOK, FetchedOK
  <2>1. call.token.kid \in kn
    BY DEF CallOK, TokenOK, PlaceOK, Asking
  <2> QED
    BY <2>1 DEF CallOK, FetchedOK
<1>4. AnswerOK(call, pub2)
  <2> SUFFICES ASSUME call.answer = "unauthorized", call.token # DevToken,
                      Genuine(call.token), ~call.expired, ~call.failed
               PROVE  call.token.kid \notin pub2
    BY DEF CallOK, AnswerOK
  <2>1. call.token.kid \in kn
    BY DEF CallOK, TokenOK, Genuine
  <2> QED
    BY <2>1 DEF CallOK, AnswerOK
<1> QED
  BY <1>1, <1>2, <1>3, <1>4 DEF CallOK

(* So a step of one call only has to keep what is true of itself.          *)
LEMMA OneCall ==
    ASSUME AuthInv, NEW c \in Calls, NEW call,
           calls' = [calls EXCEPT ![c] = call],
           CallOK(call, published, known, cache'),
           UNCHANGED <<published, known>>,
           cache \subseteq cache', cache' \subseteq known, mu' \in Calls \cup {Null}
    PROVE  AuthInv'
<1>1. ASSUME NEW d \in Calls
      PROVE  CallOK(calls'[d], published', known', cache')
  <2>1. CASE d = c
    BY <2>1 DEF AuthInv, CallsOK
  <2>2. CASE d # c
    <3>1. CallOK(calls[d], published, known, cache')
      BY CallStays DEF AuthInv, CallsOK
    <3> QED
      BY <2>2, <3>1 DEF AuthInv, CallsOK
  <2> QED
    BY <2>1, <2>2
<1> QED
  BY <1>1 DEF AuthInv, IssuerOK, CacheOK, CallsOK

-----------------------------------------------------------------------------
(* The steps of a call.                                                    *)

LEMMA ArriveInv ==
    ASSUME AuthInv, NEW c \in Calls, Arrive(c)
    PROVE  AuthInv'
<1>1. PICK token \in Tokens :
        /\ token # DevToken => (token.genuine => token.kid \in known)
        /\ calls' = [calls EXCEPT ![c] = [NoCall EXCEPT !.step = FirstStep(token), !.token = token]]
  BY DEF Arrive
<1> DEFINE call == [NoCall EXCEPT !.step = FirstStep(token), !.token = token]
<1>2. CallOK(call, published, known, cache)
  BY <1>1 DEF CallOK, Call, NoCall, FirstStep, Steps, Answers, TokenOK, PlaceOK, FetchedOK,
      AnswerOK, Asking, Fetching
<1> QED
  BY <1>1, <1>2, OneCall DEF Arrive, AuthInv, CacheOK

(* A step that moves a call on without learning anything.                  *)
LEMMA MoveOK ==
    ASSUME AuthInv, NEW c \in Calls, NEW to \in Steps,
           \/ calls[c].step = "lookup" /\ to = "locked"
           \/ calls[c].step = "merge" /\ to = "merging"
           \/ calls[c].step = "locked" /\ to = "verify" /\ calls[c].token.kid \in cache
           \/ calls[c].step = "locked" /\ to = "fetch" /\ calls[c].token.kid \notin cache
    PROVE  CallOK([calls[c] EXCEPT !.step = to], published, known, cache)
<1> DEFINE old == calls[c]
           call == [old EXCEPT !.step = to]
<1>1. CallOK(old, published, known, cache)
  BY DEF AuthInv, CallsOK
<1>2. call \in Call /\ old \in Call
  BY <1>1 DEF CallOK, Call
<1>3. /\ call.token = old.token /\ call.passed = old.passed /\ call.answer = old.answer
      /\ call.fetched = old.fetched /\ call.expired = old.expired /\ call.failed = old.failed
      /\ call.body = old.body
      /\ call.step = to
  BY <1>2 DEF Call
<1> HIDE DEF old, call
<1>4. /\ \/ old.step = "lookup" /\ to = "locked"
         \/ old.step = "merge" /\ to = "merging"
         \/ old.step = "locked" /\ to = "verify" /\ old.token.kid \in cache
         \/ old.step = "locked" /\ to = "fetch" /\ old.token.kid \notin cache
  BY DEF old
<1>5. TokenOK(call, known) /\ AnswerOK(call, published)
  BY <1>1, <1>3, <1>4 DEF CallOK, TokenOK, AnswerOK, Asking
<1>6. PlaceOK(call, cache)
  BY <1>1, <1>3, <1>4 DEF CallOK, PlaceOK, Asking, Fetching
<1>7. FetchedOK(call, published, known)
  BY <1>1, <1>3, <1>4 DEF CallOK, FetchedOK
<1>8. CallOK(call, published, known, cache)
  BY <1>2, <1>5, <1>6, <1>7 DEF CallOK
<1> QED
  BY <1>8 DEF call, old

LEMMA LockInv ==
    ASSUME AuthInv, NEW c \in Calls, Lock(c) \/ Hit(c) \/ Miss(c)
    PROVE  AuthInv'
<1>1. PICK to \in Steps :
        /\ calls' = [calls EXCEPT ![c] = [calls[c] EXCEPT !.step = to]]
        /\ \/ calls[c].step = "lookup" /\ to = "locked"
           \/ calls[c].step = "merge" /\ to = "merging"
           \/ calls[c].step = "locked" /\ to = "verify" /\ calls[c].token.kid \in cache
           \/ calls[c].step = "locked" /\ to = "fetch" /\ calls[c].token.kid \notin cache
  BY DEF Lock, Hit, Miss, Goto, Steps
<1>2. UNCHANGED <<published, known, cache>> /\ mu' \in Calls \cup {Null}
  BY DEF Lock, Hit, Miss
<1> QED
  BY <1>1, <1>2, MoveOK, OneCall DEF AuthInv, CacheOK

(* An answer "unauthorized" to a call that is at the issuer.               *)
LEMMA RefusedThere ==
    ASSUME AuthInv, NEW c \in Calls, NEW call, call \in Call, NEW ca,
           calls[c].step \in Fetching,
           call.step = "done", call.token = calls[c].token, call.passed = calls[c].passed,
           call.fetched = {}, call.answer = "unauthorized",
           call.failed \/ call.token.kid \notin published \/ ~call.token.genuine
    PROVE  CallOK(call, published, known, ca)
<1> DEFINE old == calls[c]
<1>1. CallOK(old, published, known, cache)
  BY DEF AuthInv, CallsOK
<1>2. ~call.passed /\ TokenOK(call, known)
  BY <1>1 DEF CallOK, PlaceOK, TokenOK, Asking, Fetching
<1> QED
  BY <1>2 DEF CallOK, TokenOK, PlaceOK, FetchedOK, AnswerOK, Genuine, Asking, Fetching

LEMMA FetchInv ==
    ASSUME AuthInv, NEW c \in Calls, Fetch(c)
    PROVE  AuthInv'
<1> DEFINE old == calls[c]
           call == [old EXCEPT !.step = "merge", !.fetched = published]
<1>1. CallOK(old, published, known, cache)
  BY DEF AuthInv, CallsOK
<1>2. old.step = "fetch" /\ calls' = [calls EXCEPT ![c] = call]
  BY DEF Fetch, AuthInv, CallsOK
<1>3. old \in Call /\ call \in Call
  BY <1>1 DEF CallOK, Call, Steps, AuthInv, IssuerOK
<1>4. /\ call.token = old.token /\ call.passed = old.passed /\ call.answer = old.answer
      /\ call.body = old.body /\ call.step = "merge" /\ call.fetched = published
  BY <1>3 DEF Call
<1>5. CallOK(call, published, known, cache)
  <2> HIDE DEF old, call
  <2> QED
    BY <1>1, <1>2, <1>3, <1>4 DEF CallOK, TokenOK, PlaceOK, FetchedOK, AnswerOK, Asking, Fetching,
        AuthInv, IssuerOK
<1> QED
  BY <1>2, <1>5, OneCall DEF Fetch, AuthInv, CacheOK

LEMMA FetchFailInv ==
    ASSUME AuthInv, NEW c \in Calls, FetchFail(c)
    PROVE  AuthInv'
<1> DEFINE call == [Answered(calls[c], "unauthorized") EXCEPT !.failed = TRUE]
<1>1. calls[c] \in Call
  BY DEF AuthInv, CallsOK, CallOK
<1>2. /\ call \in Call /\ call.step = "done" /\ call.token = calls[c].token /\ call.failed
      /\ call.passed = calls[c].passed /\ call.fetched = {} /\ call.answer = "unauthorized"
  BY <1>1 DEF Answered, Call, Steps, Answers
<1>3. calls[c].step \in Fetching /\ calls' = [calls EXCEPT ![c] = call]
  BY DEF FetchFail, Fetching
<1> HIDE DEF call
<1>4. CallOK(call, published, known, cache)
  BY <1>2, <1>3, RefusedThere
<1> QED
  BY <1>3, <1>4, OneCall DEF FetchFail, AuthInv, CacheOK

(* The merged set holds every key any call has used, and a published key   *)
(* this call's token is signed with.                                       *)
LEMMA MergeInv ==
    ASSUME AuthInv, NEW c \in Calls, Merge(c)
    PROVE  AuthInv'
<1> DEFINE old == calls[c]
<1>1. CallOK(old, published, known, cache) /\ old.step = "merging" /\ old \in Call
  BY DEF AuthInv, CallsOK, CallOK, Merge
<1>2. /\ cache' = cache \cup old.fetched /\ UNCHANGED <<published, known>>
      /\ mu' \in Calls \cup {Null}
  BY DEF Merge, Merged, Unlocked
<1>3. cache \subseteq cache' /\ cache' \subseteq known
  BY <1>1, <1>2 DEF CallOK, FetchedOK, AuthInv, CacheOK
<1>4. CASE old.token.kid \in cache'
  <2> DEFINE call == [old EXCEPT !.step = "verify", !.fetched = {}]
  <2>1. calls' = [calls EXCEPT ![c] = call]
    BY <1>4 DEF Merge
  <2>2. /\ call \in Call /\ call.step = "verify" /\ call.token = old.token /\ call.fetched = {}
        /\ call.passed = old.passed /\ call.answer = old.answer /\ call.body = old.body
    BY <1>1 DEF Call, Steps
  <2>3. CallOK(call, published, known, cache')
    <3> HIDE DEF old, call
    <3> QED
      BY <1>1, <1>4, <2>2 DEF CallOK, TokenOK, PlaceOK, FetchedOK, AnswerOK, Asking, Fetching
  <2> QED
    BY <1>2, <1>3, <2>1, <2>3, OneCall
<1>5. CASE old.token.kid \notin cache'
  <2> DEFINE call == Answered(old, "unauthorized")
  <2>1. calls' = [calls EXCEPT ![c] = call]
    BY <1>5 DEF Merge
  <2>2. /\ call \in Call /\ call.step = "done" /\ call.token = old.token /\ call.fetched = {}
        /\ call.passed = old.passed /\ call.answer = "unauthorized"
    BY <1>1 DEF Answered, Call, Steps, Answers
  <2>3. old.token.kid \notin published \/ ~old.token.genuine
    BY <1>1, <1>2, <1>5 DEF CallOK, FetchedOK
  <2> HIDE DEF call
  <2>4. CallOK(call, published, known, cache')
    BY <1>1, <2>2, <2>3, RefusedThere DEF Fetching
  <2> QED
    BY <1>2, <1>3, <2>1, <2>4, OneCall
<1> QED
  BY <1>4, <1>5

LEMMA CheckInv ==
    ASSUME AuthInv, NEW c \in Calls, NEW expired \in BOOLEAN, Check(c, expired)
    PROVE  AuthInv'
<1> DEFINE old == calls[c]
           call == Refused(old, expired)
<1>1. CallOK(old, published, known, cache) /\ old \in Call
  BY DEF AuthInv, CallsOK, CallOK
<1>2. /\ old.step = "verify" /\ old.token # DevToken /\ (expired \/ ~Genuine(old.token))
      /\ calls' = [calls EXCEPT ![c] = call]
  BY DEF Check
<1>3. /\ call \in Call /\ call.step = "done" /\ call.token = old.token /\ call.fetched = {}
      /\ call.passed = old.passed /\ call.answer = "unauthorized" /\ call.expired = expired
  BY <1>1 DEF Refused, Answered, Call, Steps, Answers
<1>4. CallOK(call, published, known, cache)
  <2> HIDE DEF old, call
  <2> QED
    BY <1>1, <1>2, <1>3 DEF CallOK, TokenOK, PlaceOK, FetchedOK, AnswerOK, Asking, Fetching
<1> QED
  BY <1>2, <1>4, OneCall DEF Check, AuthInv, CacheOK

(* Let in once, a call looks its key up again: with the key in the cache.  *)
LEMMA ReadBodyInv ==
    ASSUME AuthInv, NEW c \in Calls, ReadBody(c)
    PROVE  AuthInv'
<1> DEFINE old == calls[c]
<1>1. CallOK(old, published, known, cache) /\ old \in Call
  BY DEF AuthInv, CallsOK, CallOK
<1>2. old.step = "verify" /\ (old.token # DevToken => Genuine(old.token))
  BY DEF ReadBody, Passes
<1>3. PICK body \in Bodies :
        calls' = [calls EXCEPT ![c] =
            IF body = Null THEN BadRequest
            ELSE [old EXCEPT !.step = FirstStep(old.token), !.body = body, !.passed = TRUE]]
  BY DEF ReadBody
<1>4. CASE body = Null
  BY <1>3, <1>4, NoCallOK, OneCall DEF ReadBody, AuthInv, CacheOK
<1>5. CASE body # Null
  <2> DEFINE call == [old EXCEPT !.step = FirstStep(old.token), !.body = body, !.passed = TRUE]
  <2>1. /\ call \in Call /\ call.step = FirstStep(old.token) /\ call.token = old.token
        /\ call.fetched = old.fetched /\ call.answer = old.answer /\ call.passed
        /\ call.body = body
    BY <1>1 DEF Call, Steps, FirstStep
  <2>2. CallOK(call, published, known, cache)
    <3> HIDE DEF old, call
    <3> QED
      BY <1>1, <1>2, <1>5, <2>1 DEF CallOK, TokenOK, PlaceOK, FetchedOK, AnswerOK, Asking,
          Fetching, FirstStep
  <2>3. calls' = [calls EXCEPT ![c] = call]
    BY <1>3, <1>5
  <2> QED
    BY <2>2, <2>3, OneCall DEF ReadBody, AuthInv, CacheOK
<1> QED
  BY <1>4, <1>5

LEMMA MakeKeyInv ==
    ASSUME AuthInv, NEW c \in Calls, MakeKey(c)
    PROVE  AuthInv'
<1> DEFINE old == calls[c]
<1>1. CallOK(old, published, known, cache) /\ old \in Call
  BY DEF AuthInv, CallsOK, CallOK
<1>2. CASE ~Askable(old.body)
  <2>1. calls' = [calls EXCEPT ![c] = BadRequest]
    BY <1>2 DEF MakeKey
  <2> QED
    BY <2>1, NoCallOK, OneCall DEF MakeKey, AuthInv, CacheOK
<1>3. CASE Askable(old.body)
  <2> DEFINE key == ComputeIdemKey(old.token, old.body)
             call == [Answered(old, "accepted") EXCEPT !.key = key]
  <2>1. calls' = [calls EXCEPT ![c] = call]
    BY <1>3 DEF MakeKey
  <2>2. /\ call.step = "done" /\ call.fetched = {} /\ call.answer = "accepted"
    BY <1>1 DEF Answered, Call
  <2>3. key \in IdemKeys
    BY <1>1 DEF MakeKey, Passes, CallOK, TokenOK, PlaceOK, IdemKeys
  <2>5. call \in Call
    <3> HIDE DEF key
    <3> QED
      BY <1>1, <2>3 DEF Answered, Call, Steps, Answers
  <2>4. CallOK(call, published, known, cache)
    <3> HIDE DEF old, call
    <3> QED
      BY <2>2, <2>5 DEF CallOK, TokenOK, PlaceOK, FetchedOK, AnswerOK, Asking, Fetching
  <2> QED
    BY <2>1, <2>4, OneCall DEF MakeKey, AuthInv, CacheOK
<1> QED
  BY <1>2, <1>3

-----------------------------------------------------------------------------
(* The issuer: a key that was withdrawn does not come back.                *)
LEMMA RotateInv ==
    ASSUME AuthInv, Rotate
    PROVE  AuthInv'
<1>1. /\ known \subseteq known' /\ published' \cap known \subseteq published
      /\ published' \subseteq known' /\ known' \subseteq Kids
      /\ UNCHANGED <<cache, mu, calls>>
  BY DEF Rotate, AuthInv, IssuerOK
<1>2. \A c \in Calls : CallOK(calls[c], published', known', cache)
  BY <1>1, CallStays DEF AuthInv, CallsOK
<1> QED
  BY <1>1, <1>2 DEF AuthInv, IssuerOK, CacheOK, CallsOK

LEMMA RestartInv ==
    ASSUME AuthInv, Restart
    PROVE  AuthInv'
<1>1. ASSUME NEW c \in Calls
      PROVE  CallOK(calls'[c], published, known, {})
  <2>1. CASE calls[c].step = "done"
    <3>1. calls'[c] = calls[c] /\ CallOK(calls[c], published, known, cache)
      BY <2>1 DEF Restart, AuthInv, CallsOK
    <3> QED
      BY <2>1, <3>1 DEF CallOK, PlaceOK, Asking, Fetching
  <2>2. CASE calls[c].step # "done"
    BY <2>2, NoCallOK DEF Restart
  <2> QED
    BY <2>1, <2>2
<1> QED
  BY <1>1 DEF Restart, AuthInv, IssuerOK, CacheOK, CallsOK

-----------------------------------------------------------------------------
LEMMA StepInv == AuthInv /\ [Next]_vars => AuthInv'
<1> SUFFICES ASSUME AuthInv, [Next]_vars
             PROVE  AuthInv'
  OBVIOUS
<1>1. ASSUME NEW c \in Calls, Arrive(c) \/ Lock(c) \/ Local(c) \/ Fetch(c) \/ FetchFail(c)
      PROVE  AuthInv'
  BY <1>1, ArriveInv, LockInv, FetchInv, FetchFailInv, MergeInv, CheckInv, ReadBodyInv, MakeKeyInv
      DEF Local
<1>2. CASE UNCHANGED vars
  BY <1>2 DEF AuthInv, IssuerOK, CacheOK, CallsOK, vars
<1> QED
  BY <1>1, <1>2, RotateInv, RestartInv DEF Next

(* Keys, cache and calls keep their types; only keys that were published   *)
(* are ever in the cache.                                                  *)
THEOREM AuthTypeCorrect == Spec => []TypeOK
<1>1. AuthInv => TypeOK
  BY DEF AuthInv, IssuerOK, CacheOK, CallsOK, CallOK, TypeOK
<1> QED
  BY <1>1, InitInv, StepInv, PTL DEF Spec

(* A call that was let in once is not turned away when its handler asks    *)
(* again, unless its token has run out.                                    *)
THEOREM SecondAlwaysAgrees == Spec => []SecondAgrees
<1>1. AuthInv => SecondAgrees
  BY DEF AuthInv, CallsOK, CallOK, AnswerOK, SecondAgrees
<1> QED
  BY <1>1, InitInv, StepInv, PTL DEF Spec

(* A good token under a published key is refused only if the issuer could  *)
(* not be asked.                                                           *)
THEOREM RotationAlwaysFollowed == Spec => []RotationIsFollowed
<1>1. AuthInv => RotationIsFollowed
  BY DEF AuthInv, CallsOK, CallOK, AnswerOK, RotationIsFollowed
<1> QED
  BY <1>1, InitInv, StepInv, PTL DEF Spec

-----------------------------------------------------------------------------
(* Keys: an accepted call acts under the key of its token and its body.    *)

KeyOK(call) ==
    call.answer = "accepted" =>
        /\ call.token \in Tokens /\ call.body \in Bodies \ {Null}
        /\ call.key = ComputeIdemKey(call.token, call.body)

KeysOK == \A c \in Calls : KeyOK(calls[c])

(* A call touches only its own record.                                     *)
LEMMA OthersStay ==
    ASSUME AuthInv, NEW c \in Calls,
           Arrive(c) \/ Lock(c) \/ Local(c) \/ Fetch(c) \/ FetchFail(c)
    PROVE  \A d \in Calls \ {c} : calls'[d] = calls[d]
<1>1. DOMAIN calls = Calls
  BY DEF AuthInv, CallsOK
<1>2. CASE Arrive(c) \/ Lock(c) \/ Fetch(c) \/ FetchFail(c)
  BY <1>1, <1>2 DEF Arrive, Lock, Goto, Fetch, FetchFail
<1>3. CASE Hit(c) \/ Miss(c) \/ Merge(c)
  BY <1>1, <1>3 DEF Hit, Miss, Goto, Merge
<1>4. CASE (\E expired \in BOOLEAN : Check(c, expired)) \/ ReadBody(c) \/ MakeKey(c)
  BY <1>1, <1>4 DEF Check, ReadBody, MakeKey
<1> QED
  BY <1>2, <1>3, <1>4 DEF Local

(* Only a call that is accepted gets a key.                                *)
LEMMA CallKeys ==
    ASSUME AuthInv, KeysOK, NEW c \in Calls,
           Arrive(c) \/ Lock(c) \/ Local(c) \/ Fetch(c) \/ FetchFail(c)
    PROVE  KeysOK'
<1> DEFINE old == calls[c]
           new == calls'[c]
<1>1. /\ CallOK(old, published, known, cache) /\ old \in Call
      /\ DOMAIN calls = Calls
  BY DEF AuthInv, CallsOK, CallOK
<1>2. ASSUME KeyOK(new) PROVE KeysOK'
  BY <1>2, OthersStay DEF KeysOK
<1>3. old.step # "done" => old.answer = "none"
  BY <1>1 DEF CallOK, PlaceOK
<1>4. CASE Arrive(c)
  <2>1. new.answer = "none"
    BY <1>1, <1>4 DEF Arrive, NoCall
  <2> QED
    BY <1>2, <2>1 DEF KeyOK
<1>5. CASE Lock(c) \/ Hit(c) \/ Miss(c) \/ Fetch(c)
  <2>1. new.answer = old.answer /\ old.step # "done"
    BY <1>1, <1>5 DEF Lock, Hit, Miss, Goto, Fetch, Call
  <2> QED
    BY <1>2, <1>3, <2>1 DEF KeyOK
<1>6. CASE FetchFail(c) \/ \E expired \in BOOLEAN : Check(c, expired)
  <2>1. new.answer = "unauthorized"
    BY <1>1, <1>6 DEF FetchFail, Check, Refused, Answered, Call
  <2> QED
    BY <1>2, <2>1 DEF KeyOK
<1>7. CASE Merge(c)
  <2>1. new.answer \in {old.answer, "unauthorized"} /\ old.step # "done"
    BY <1>1, <1>7 DEF Merge, Answered, Call
  <2> QED
    BY <1>2, <1>3, <2>1 DEF KeyOK
<1>8. CASE ReadBody(c) \/ (MakeKey(c) /\ ~Askable(old.body))
  <2>1. old.step = "verify"
    BY <1>8 DEF ReadBody, MakeKey, Passes
  <2>2. CASE calls' = [calls EXCEPT ![c] = BadRequest]
    <3>1. new.answer = "bad request"
      BY <1>1, <2>2 DEF BadRequest, NoCall
    <3> QED
      BY <1>2, <3>1 DEF KeyOK
  <2>3. CASE \E body : calls' = [calls EXCEPT ![c] =
                [old EXCEPT !.step = FirstStep(old.token), !.body = body, !.passed = TRUE]]
    <3>1. new.answer = old.answer
      BY <1>1, <2>3 DEF Call
    <3> QED
      BY <1>2, <1>3, <2>1, <3>1 DEF KeyOK
  <2> QED
    BY <1>8, <2>2, <2>3 DEF ReadBody, MakeKey
<1>9. CASE MakeKey(c) /\ Askable(old.body)
  <2> DEFINE key == ComputeIdemKey(old.token, old.body)
  <2>1. /\ new = [Answered(old, "accepted") EXCEPT !.key = key]
        /\ old.step = "verify" /\ old.passed
    BY <1>1, <1>9 DEF MakeKey, Passes
  <2>2. /\ old.token \in Tokens /\ old.body \in Bodies \ {Null}
    BY <1>1, <2>1 DEF CallOK, TokenOK, PlaceOK
  <2> HIDE DEF key
  <2>3. new.token = old.token /\ new.body = old.body /\ new.key = key
    BY <1>1, <2>1 DEF Answered, Call
  <2>4. KeyOK(new)
    BY <2>2, <2>3 DEF KeyOK, key
  <2> QED
    BY <1>2, <2>4
<1> QED
  BY <1>4, <1>5, <1>6, <1>7, <1>8, <1>9 DEF Local

LEMMA KeysAlways == Spec => [](AuthInv /\ KeysOK)
<1>1. Init => KeysOK
  BY DEF Init, KeysOK, KeyOK, NoCall
<1>2. AuthInv /\ KeysOK /\ [Next]_vars => KeysOK'
  <2> SUFFICES ASSUME AuthInv, KeysOK, [Next]_vars PROVE KeysOK'
    OBVIOUS
  <2>1. CASE Restart
    BY <2>1 DEF Restart, KeysOK, KeyOK, NoCall
  <2>2. CASE Rotate \/ UNCHANGED vars
    BY <2>2 DEF Rotate, vars, KeysOK
  <2> QED
    BY <2>1, <2>2, CallKeys DEF Next
<1> QED
  BY <1>1, <1>2, InitInv, StepInv, PTL DEF Spec

(* What a key tells apart: two tokens are of one actor exactly if they     *)
(* speak for one workload, and two bodies ask the same exactly if one      *)
(* repeats the other.                                                      *)
LEMMA ActorIsWorkload ==
    ASSUME NEW t \in Tokens, NEW u \in Tokens
    PROVE  Actor(t) = Actor(u) <=> SameWorkload(t, u)
<1> DEFINE Said(claims) ==
              [iss |-> "github", sub |-> claims.sub, repo |-> Repository(claims),
               workflow |-> Workflow(claims), run_id |-> claims.run_id, sha |-> claims.sha]
<1>1. CASE t = DevToken /\ u = DevToken
  BY <1>1 DEF SameWorkload
<1>2. CASE DevToken \in {t, u} /\ t # u
  <2>1. Actor(DevToken).iss = "relia-dev"
    BY DEF Actor
  <2>2. \A v \in {t, u} : v # DevToken => Actor(v).iss = "github"
    BY DEF Actor
  <2> QED
    BY <1>2, <2>1, <2>2 DEF SameWorkload
<1>3. CASE DevToken \notin {t, u}
  <2>1. Actor(t) = Said(t.claims) /\ Actor(u) = Said(u.claims)
    BY <1>3 DEF Actor, FirstNonEmpty, Repository, Workflow
  <2>2. Said(t.claims) = Said(u.claims) <=>
            /\ t.claims.sub = u.claims.sub /\ t.claims.run_id = u.claims.run_id
            /\ t.claims.sha = u.claims.sha
            /\ Repository(t.claims) = Repository(u.claims)
            /\ Workflow(t.claims) = Workflow(u.claims)
    OBVIOUS
  <2> QED
    BY <1>3, <2>1, <2>2 DEF SameWorkload
<1> QED
  BY <1>1, <1>2, <1>3

LEMMA AskedIsRepeated ==
    ASSUME NEW b1, NEW b2
    PROVE  Asked(b1) = Asked(b2) <=> Repeats(b1, b2)
<1> DEFINE Names == Field \ Uncounted
           Sent(b, name) == IF name = "intent" /\ b.intent = "absent" THEN "{}" ELSE b[name]
<1>1. Asked(b1) = Asked(b2) <=> \A name \in Names : Sent(b1, name) = Sent(b2, name)
  <2>1. Asked(b1) = [name \in Names |-> Sent(b1, name)] /\ Asked(b2) = [name \in Names |-> Sent(b2, name)]
    BY DEF Asked
  <2> HIDE DEF Names, Sent
  <2> QED
    BY <2>1
<1>2. \A name \in Names \ {"intent"} : Sent(b1, name) = Sent(b2, name) <=> b1[name] = b2[name]
  OBVIOUS
<1>3. Sent(b1, "intent") = Sent(b2, "intent")
        <=> b1.intent = b2.intent \/ {b1.intent, b2.intent} = {"absent", "{}"}
  OBVIOUS
<1>4. /\ "intent" \in Names
      /\ Names \ {"intent"} = {"action", "resource", "env", "plan_digest", "refs", "request_id"}
  BY DEF Field, Uncounted
<1> QED
  BY <1>1, <1>2, <1>3, <1>4 DEF Repeats

(* Two accepted calls act under one idempotency key exactly if one repeats *)
(* the other, whatever claims the issuer puts into its tokens: a retry     *)
(* finds what the first try left, and nothing else does.                   *)
THEOREM RetriesAlwaysShareTheKey == Spec => []RetriesShareTheKey
<1>1. KeysOK => RetriesShareTheKey
  <2> SUFFICES ASSUME KeysOK, NEW c \in Calls, NEW d \in Calls,
                      calls[c].answer = "accepted", calls[d].answer = "accepted"
               PROVE  calls[c].key = calls[d].key <=>
                        /\ SameWorkload(calls[c].token, calls[d].token)
                        /\ Repeats(calls[c].body, calls[d].body)
    BY DEF RetriesShareTheKey
  <2>1. /\ calls[c].token \in Tokens /\ calls[d].token \in Tokens
        /\ calls[c].key = ComputeIdemKey(calls[c].token, calls[c].body)
        /\ calls[d].key = ComputeIdemKey(calls[d].token, calls[d].body)
    BY DEF KeysOK, KeyOK
  <2>2. calls[c].key = calls[d].key <=>
            /\ Actor(calls[c].token) = Actor(calls[d].token)
            /\ Asked(calls[c].body) = Asked(calls[d].body)
    BY <2>1 DEF ComputeIdemKey
  <2> QED
    BY <2>1, <2>2, ActorIsWorkload, AskedIsRepeated
<1> QED
  BY <1>1, KeysAlways, PTL

=============================================================================
