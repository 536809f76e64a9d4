-------------------------- MODULE Functions_proofs --------------------------
(***************************************************************************)
(* Proofs about nextAttempt and policy.Evaluate: for any number of         *)
(* failing posts, and for every policy, however many rules it has, and     *)
(* every input.                                                            *)
(***************************************************************************)
EXTENDS MCFunctions, WellFoundedInduction, TLAPS

-----------------------------------------------------------------------------
(* The order of waits.                                                     *)

LEMMA Irreflexive == ASSUME NEW x PROVE ~Less(x, x)
BY DEF Less, Differ

(* A number whose highest bit the other does not reach is not less.        *)
LEMMA HigherIsNotLess ==
    ASSUME NEW x \in Int64, NEW y \in Int64, SignBit \notin x,
           NEW t \in x, \A j \in y : j < t
    PROVE  ~Less(x, y)
<1> SUFFICES ASSUME NEW i \in Differ(x, y), \A j \in Differ(x, y) : j <= i,
                    IF i = SignBit THEN i \in x ELSE i \in y
             PROVE  FALSE
  BY DEF Less
<1>1. t \in 0..63 /\ i \in 0..63
  BY DEF Differ, Int64
<1>2. t \in Differ(x, y)
  BY <1>1 DEF Differ
<1> QED
  BY <1>1, <1>2

(* ... and it is more, if neither is negative.                             *)
LEMMA HigherIsMore ==
    ASSUME NEW x \in Int64, NEW y \in Int64, NEW t \in y, t # SignBit,
           \A j \in x : j < t, \A j \in y : j <= t
    PROVE  Less(x, y)
<1>1. t \in 0..63
  BY DEF Int64
<1>2. t \in Differ(x, y)
  BY <1>1 DEF Differ
<1>3. \A j \in Differ(x, y) : j <= t
  BY <1>1 DEF Differ, Int64
<1> QED
  BY <1>2, <1>3 DEF Less

-----------------------------------------------------------------------------
(* The numbers of nextAttempt, bit by bit: 5s reaches bit 32, 5m bit 38.   *)

LEMMA ShiftedType == ASSUME NEW x \in Int64, NEW n \in Nat PROVE ShiftLeft(x, n) \in Int64
BY DEF ShiftLeft, Int64

LEMMA FiveSeconds ==
    LET b == Bits(9765625) IN
    /\ b \subseteq 0..23 /\ {20, 23} \subseteq b
    /\ 21 \notin b /\ 22 \notin b
<1>1. \A i \in 0..30 : i \in Bits(9765625) <=> (9765625 \div 2^i) % 2 = 1
  BY DEF Bits
<1>2. /\ 20 \in Bits(9765625) /\ 21 \notin Bits(9765625)
      /\ 22 \notin Bits(9765625) /\ 23 \in Bits(9765625)
  BY <1>1
<1>3. \A i \in 24..30 : i \notin Bits(9765625)
  BY <1>1
<1>4. Bits(9765625) \subseteq 0..30
  BY DEF Bits
<1> QED
  BY <1>2, <1>3, <1>4

LEMMA FiveMinutes ==
    LET b == Bits(146484375) IN
    /\ b \subseteq 0..27 /\ 27 \in b
    /\ 24 \notin b /\ 25 \notin b /\ 26 \notin b
<1>1. \A i \in 0..30 : i \in Bits(146484375) <=> (146484375 \div 2^i) % 2 = 1
  BY DEF Bits
<1>2. /\ 24 \notin Bits(146484375) /\ 25 \notin Bits(146484375)
      /\ 26 \notin Bits(146484375) /\ 27 \in Bits(146484375)
  BY <1>1
<1>3. \A i \in 28..30 : i \notin Bits(146484375)
  BY <1>1
<1>4. Bits(146484375) \subseteq 0..30
  BY DEF Bits
<1> QED
  BY <1>2, <1>3, <1>4

LEMMA BaseBits ==
    /\ base \in Int64 /\ base \subseteq 9..32
    /\ {29, 32} \subseteq base /\ 30 \notin base /\ 31 \notin base
<1>1. base = {i + 9 : i \in Bits(9765625)} \cap (0..63)
  BY DEF base, ShiftLeft
<1> QED
  BY <1>1, FiveSeconds DEF Int64

LEMMA MaxBits ==
    /\ max \in Int64 /\ max \subseteq 11..38
    /\ 38 \in max /\ 35 \notin max /\ 36 \notin max /\ 37 \notin max
<1>1. max = {i + 11 : i \in Bits(146484375)} \cap (0..63)
  BY DEF max, ShiftLeft
<1> QED
  BY <1>1, FiveMinutes DEF Int64

-----------------------------------------------------------------------------
(* nextAttempt, for as long as no one bit is lost.                         *)

LEMMA Shifted ==
    ASSUME NEW n \in 0..30
    PROVE  /\ ShiftLeft(base, n) \in Int64 /\ ShiftLeft(base, n) \subseteq (n + 9)..(n + 32)
           /\ n + 32 \in ShiftLeft(base, n)
BY BaseBits DEF ShiftLeft, Int64

LEMMA Doubles ==
    ASSUME NEW n \in 0..5
    PROVE  nextAttempt(n) = ShiftLeft(base, n)
<1>1. \A i \in base : i \in 0..63 /\ i + 0 = i
  BY BaseBits DEF Int64
<1>2. ShiftLeft(base, 0) = base
  BY <1>1 DEF ShiftLeft
<1>3. /\ ShiftLeft(base, n) \in Int64 /\ \A j \in ShiftLeft(base, n) : j < 38
      /\ SignBit \notin max
  BY Shifted, MaxBits DEF SignBit
<1>4. ~Less(max, ShiftLeft(base, n))
  BY <1>3, MaxBits, HigherIsNotLess
<1> QED
  BY <1>2, <1>4 DEF nextAttempt, Capped

LEMMA Stays ==
    ASSUME NEW n \in 6..30
    PROVE  nextAttempt(n) = max
<1>1. ASSUME n # 6
      PROVE  Less(max, ShiftLeft(base, n))
  <2>1. /\ ShiftLeft(base, n) \in Int64 /\ n + 32 \in ShiftLeft(base, n)
        /\ n + 32 # SignBit /\ \A j \in max : j < n + 32
        /\ \A j \in ShiftLeft(base, n) : j <= n + 32
    BY <1>1, Shifted, MaxBits DEF SignBit
  <2> QED
    BY <2>1, MaxBits, HigherIsMore
<1>2. ASSUME n = 6
      PROVE  Less(max, ShiftLeft(base, n))
  <2>1. /\ ShiftLeft(base, 6) \in Int64 /\ ShiftLeft(base, 6) \subseteq 15..38
        /\ 38 \in ShiftLeft(base, 6) /\ 35 \in ShiftLeft(base, 6)
        /\ 36 \notin ShiftLeft(base, 6) /\ 37 \notin ShiftLeft(base, 6)
    BY BaseBits DEF ShiftLeft, Int64
  <2>2. 35 \in Differ(max, ShiftLeft(base, 6))
    BY <2>1, MaxBits DEF Differ
  <2>3. \A j \in Differ(max, ShiftLeft(base, 6)) : j <= 35
    BY <2>1, MaxBits DEF Differ, Int64
  <2> QED
    BY <1>2, <2>1, <2>2, <2>3 DEF Less, SignBit
<1> QED
  BY <1>1, <1>2 DEF nextAttempt, Capped

(* The cap holds whatever bits are lost.                                   *)
LEMMA NeverAboveMax ==
    ASSUME NEW n \in Nat
    PROVE  nextAttempt(n) \in Int64 /\ ~Less(max, nextAttempt(n))
<1>1. ~Less(max, base)
  BY BaseBits, MaxBits, HigherIsNotLess DEF SignBit
<1>2. ShiftLeft(base, n) \in Int64
  BY BaseBits, ShiftedType
<1> QED
  BY <1>1, <1>2, BaseBits, MaxBits, Irreflexive DEF nextAttempt, Capped

LEMMA AtLeastBase ==
    ASSUME NEW n \in 0..30
    PROVE  ~Less(nextAttempt(n), base)
<1>1. CASE n = 0
  BY <1>1, Irreflexive DEF nextAttempt
<1>2. CASE n \in 1..5
  <2>1. /\ nextAttempt(n) = ShiftLeft(base, n) /\ ShiftLeft(base, n) \in Int64
        /\ n + 32 \in ShiftLeft(base, n) /\ SignBit \notin ShiftLeft(base, n)
        /\ \A j \in base : j < n + 32
    BY <1>2, Doubles, Shifted, BaseBits DEF SignBit
  <2> QED
    BY <2>1, BaseBits, HigherIsNotLess
<1>3. CASE n \in 6..30
  BY <1>3, Stays, MaxBits, BaseBits, HigherIsNotLess DEF SignBit
<1> QED
  BY <1>1, <1>2, <1>3

LEMMA NeverShrinks ==
    ASSUME NEW n \in 1..30
    PROVE  ~Less(nextAttempt(n), nextAttempt(n - 1))
<1>1. CASE n \in 1..5
  <2>1. /\ nextAttempt(n) = ShiftLeft(base, n)
        /\ nextAttempt(n - 1) = ShiftLeft(base, n - 1)
    BY <1>1, Doubles
  <2>2. n + 32 \in ShiftLeft(base, n) /\ \A j \in ShiftLeft(base, n - 1) : j < n + 32
    BY <1>1, Shifted
  <2>3. /\ ShiftLeft(base, n) \in Int64 /\ ShiftLeft(base, n - 1) \in Int64
        /\ SignBit \notin ShiftLeft(base, n)
    BY <1>1, Shifted DEF SignBit
  <2> QED
    BY <2>1, <2>2, <2>3, HigherIsNotLess
<1>2. CASE n = 6
  <2>1. nextAttempt(6) = max /\ nextAttempt(5) = ShiftLeft(base, 5)
    BY Doubles, Stays
  <2>2. ShiftLeft(base, 5) \in Int64 /\ \A j \in ShiftLeft(base, 5) : j < 38
    BY Shifted
  <2> QED
    BY <1>2, <2>1, <2>2, MaxBits, HigherIsNotLess DEF SignBit
<1>3. CASE n \in 7..30
  BY <1>3, Stays, Irreflexive
<1> QED
  BY <1>1, <1>2, <1>3

-----------------------------------------------------------------------------
(* Over the failing posts of a row.                                        *)

(* The last two waits are those of the last two failures.                  *)
WaitsOK ==
    /\ attempts \in Nat
    /\ wait = (IF attempts = 0 THEN Zero ELSE nextAttempt(attempts - 1))
    /\ previous = (IF attempts <= 1 THEN Zero ELSE nextAttempt(attempts - 2))

LEMMA WaitsStep == WaitsOK /\ [Next]_backoffVars => WaitsOK'
<1> SUFFICES ASSUME WaitsOK, [Next]_backoffVars
             PROVE  WaitsOK'
  OBVIOUS
<1>1. CASE PostFails
  <2>1. /\ attempts \in Nat /\ attempts' = attempts + 1 /\ attempts' - 1 = attempts
        /\ attempts' # 0 /\ attempts' - 2 = attempts - 1 /\ (attempts' <= 1 <=> attempts = 0)
    BY <1>1 DEF WaitsOK, PostFails
  <2>2. wait' = nextAttempt(attempts) /\ previous' = wait
    BY <1>1 DEF PostFails
  <2> QED
    BY <2>1, <2>2 DEF WaitsOK
<1>2. CASE UNCHANGED backoffVars
  BY <1>2 DEF backoffVars, WaitsOK
<1> QED
  BY <1>1, <1>2 DEF Next

LEMMA ZeroIsLeast == Zero \in Int64 /\ \A x \in Int64 : SignBit \notin x => ~Less(x, Zero)
BY DEF Zero, Int64, Less, Differ

LEMMA WaitsAlways == Spec => []WaitsOK
<1>1. Init => WaitsOK
  BY DEF Init, WaitsOK
<1> QED
  BY <1>1, WaitsStep, PTL DEF Spec

(* However often the posts of a row fail, the next try is within five      *)
(* minutes: also where base << attemptCount has lost bits.                 *)
THEOREM PutOffAlwaysBounded == Spec => []NeverPutOffTooLong
<1>1. ASSUME WaitsOK, attempts = 0
      PROVE  NeverPutOffTooLong
  <2>1. wait = Zero /\ SignBit \notin max
    BY <1>1, MaxBits DEF WaitsOK, SignBit
  <2> QED
    BY <2>1, ZeroIsLeast, MaxBits DEF NeverPutOffTooLong
<1>2. ASSUME WaitsOK, attempts # 0
      PROVE  NeverPutOffTooLong
  <2>1. attempts - 1 \in Nat /\ wait = nextAttempt(attempts - 1)
    BY <1>2 DEF WaitsOK
  <2> QED
    BY <2>1, NeverAboveMax DEF NeverPutOffTooLong
<1>3. WaitsOK => NeverPutOffTooLong
  BY <1>1, <1>2
<1> QED
  BY <1>3, WaitsAlways, PTL

(* Over the first 31 failures of a row the wait is at least five seconds   *)
(* and never shrinks.                                                      *)
THEOREM AlwaysGrowsAtFirst == Spec => []GrowsAtFirst
<1>1. ASSUME WaitsOK, attempts = 1
      PROVE  GrowsAtFirst
  <2>1. wait = base /\ previous = Zero /\ SignBit \notin base
    BY <1>1, BaseBits DEF WaitsOK, nextAttempt, SignBit
  <2> QED
    BY <2>1, BaseBits, ZeroIsLeast, Irreflexive DEF GrowsAtFirst
<1>2. ASSUME WaitsOK, attempts \in 2..31
      PROVE  GrowsAtFirst
  <2> DEFINE n == attempts - 1
  <2>1. /\ n \in 0..30 /\ n \in 1..30 /\ n - 1 = attempts - 2
        /\ wait = nextAttempt(n) /\ previous = nextAttempt(n - 1)
    BY <1>2 DEF WaitsOK
  <2> QED
    BY <2>1, AtLeastBase, NeverShrinks DEF GrowsAtFirst
<1>3. WaitsOK => GrowsAtFirst
  BY <1>1, <1>2 DEF GrowsAtFirst, FirstAttempts
<1> QED
  BY <1>3, WaitsAlways, PTL

-----------------------------------------------------------------------------
(* The policy engine.                                                      *)

Before == {ss \in Nat \X Nat : ss[1] < ss[2]}

(* A set of positions in the list of rules has a first one.                *)
LEMMA FirstOfMatching ==
    ASSUME NEW S \in SUBSET Nat, S # {}
    PROVE  P!Min(S) \in S /\ \A i \in S : P!Min(S) <= i
<1>1. IsWellFoundedOn(Before, Nat)
  BY NatLessThanWellFounded DEF Before, OpToRel
<1>2. PICK x \in S : \A i \in S : <<i, x>> \notin Before
  BY <1>1, WFMin
<1>3. ASSUME NEW i \in S
      PROVE  x <= i
  <2>1. <<i, x>> \in Nat \X Nat /\ ~(i < x)
    BY <1>2, <1>3 DEF Before
  <2> QED
    BY <2>1
<1> QED
  BY <1>2, <1>3 DEF P!Min

(* What the verdict of a rule comes to, its two fields given or left out.  *)
LEMMA Verdict ==
    ASSUME NEW p \in P!PolicyFile, NEW i \in DOMAIN p.rules
    PROVE  LET rule == p.rules[i]
               d == P!Settle(P!Apply(P!FromDefaults(p), i, rule)) IN
           /\ d.rule = i /\ d.role = rule.role
           /\ d.verdict = P!VerdictFrom(P!Says(rule.deny, p.deny),
                                        P!Says(rule.require_approval, p.require_approval))
<1> DEFINE rule == p.rules[i]
           applied == P!Apply(P!FromDefaults(p), i, rule)
           denied == P!Says(rule.deny, p.deny)
           asked == P!Says(rule.require_approval, p.require_approval)
<1>1. /\ p.deny \in BOOLEAN /\ p.require_approval \in BOOLEAN
      /\ rule.deny \in BOOLEAN \cup {None} /\ rule.require_approval \in BOOLEAN \cup {None}
  BY DEF P!PolicyFile, P!Rule, P!Optional
<1>2. /\ DOMAIN applied = {"verdict", "require_approval", "role", "rule"}
      /\ applied = [d \in DOMAIN applied |-> applied[d]]
      /\ applied.role = rule.role /\ applied.rule = i
      /\ applied.verdict = P!EffectOnVerdict(IF p.deny THEN "deny" ELSE "allow", rule.deny)
  BY DEF P!Apply, P!FromDefaults
<1>3. applied.require_approval = asked
  BY DEF P!Apply, P!FromDefaults, P!Says
<1>4. P!EffectOnVerdict(IF p.deny THEN "deny" ELSE "allow", rule.deny)
        = (IF denied THEN "deny" ELSE "allow")
  <2>1. CASE rule.deny = None
    BY <2>1, NoneAssumption DEF P!EffectOnVerdict, P!Says
  <2>2. CASE rule.deny = TRUE
    BY <2>2, NoneAssumption DEF P!EffectOnVerdict, P!Says
  <2>3. CASE rule.deny = FALSE
    BY <2>3, NoneAssumption DEF P!EffectOnVerdict, P!Says
  <2> QED
    BY <1>1, <2>1, <2>2, <2>3
<1> QED
  BY <1>2, <1>3, <1>4 DEF P!Settle, P!VerdictFrom

PolicyInv ==
    /\ policy \in P!PolicyFile
    /\ decision \in {None, P!Evaluate(policy, input)}

(* The first rule that matches decides, whatever follows it; its deny wins *)
(* over its approval, and what it leaves out comes from the defaults.      *)
THEOREM FirstMatchAlwaysDecides == P!Spec => []FirstMatchDecides
<1>1. P!Init => PolicyInv
  BY DEF P!Init, PolicyInv
<1>2. PolicyInv /\ [P!Next]_policyVars => PolicyInv'
  BY DEF PolicyInv, P!Next, P!Decide, policyVars
<1>3. ASSUME policy \in P!PolicyFile, decision = P!Evaluate(policy, input)
      PROVE  FirstMatchDecides
  <2> DEFINE matching == P!Matching(policy, input)
  <2>1. DOMAIN policy.rules \subseteq Nat
    BY <1>3 DEF P!PolicyFile
  <2>2. CASE matching = {}
    <3>1. \A i \in DOMAIN policy.rules : ~P!matchRule(policy.rules[i].match, input)
      BY <2>2 DEF P!Matching
    <3>2. policy.deny \in BOOLEAN /\ policy.require_approval \in BOOLEAN
      BY <1>3 DEF P!PolicyFile
    <3>3. decision = P!Settle(P!FromDefaults(policy))
      BY <1>3, <2>2 DEF P!Evaluate
    <3>4. /\ decision.rule = 0 /\ decision.role = None
          /\ decision.verdict = P!VerdictFrom(policy.deny, policy.require_approval)
      BY <3>2, <3>3 DEF P!Settle, P!FromDefaults, P!VerdictFrom
    <3> QED
      BY <3>1, <3>4 DEF FirstMatchDecides, P!FirstMatchDecides
  <2>3. CASE matching # {}
    <3> DEFINE i == P!Min(matching)
    <3>1. matching \in SUBSET Nat
      BY <2>1 DEF P!Matching
    <3>2. i \in matching /\ \A j \in matching : i <= j
      BY <2>3, <3>1, FirstOfMatching
    <3>3. decision = P!Settle(P!Apply(P!FromDefaults(policy), i, policy.rules[i]))
      BY <1>3, <2>3 DEF P!Evaluate, P!FirstMatch
    <3>4. P!Governs(policy.rules[i], i)
      <4>1. ASSUME NEW j \in 1..(i - 1)
            PROVE  j \in DOMAIN policy.rules /\ j \notin matching
        <5>1. PICK n \in 0..MaxRules : DOMAIN policy.rules = 1..n
          BY <1>3 DEF P!PolicyFile
        <5>2. i \in 1..n /\ ~(i <= j)
          BY <3>1, <3>2, <4>1, <5>1 DEF P!Matching
        <5> QED
          BY <3>2, <4>1, <5>1, <5>2
      <4> QED
        BY <3>2, <4>1 DEF P!Governs, P!Matching
    <3>5. i \in DOMAIN policy.rules
      BY <3>2 DEF P!Matching
    <3> QED
      BY <1>3, <3>3, <3>4, <3>5, Verdict DEF FirstMatchDecides, P!FirstMatchDecides
  <2> QED
    BY <2>2, <2>3
<1>4. PolicyInv => FirstMatchDecides
  BY <1>3 DEF PolicyInv, FirstMatchDecides, P!FirstMatchDecides, P!Decided
<1> QED
  BY <1>1, <1>2, <1>4, PTL DEF P!Spec, P!policyVars, policyVars

=============================================================================
