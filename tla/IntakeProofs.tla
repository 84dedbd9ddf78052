---------------------------- MODULE IntakeProofs ----------------------------
(* Intake: what is admitted, for every card length, secret and text.          *)
EXTENDS Intake, FoldLemmas, SequenceTheorems

(* A request is answered when it is refused, and with one of the statuses a   *)
(* refusal may have.                                                          *)
THEOREM IntakeTypes == Spec => []IntakeTypeOK
  <1>1. Init => IntakeTypeOK
    BY DEF Init, IntakeTypeOK
  <1>2. IntakeTypeOK /\ [Next]_intakeVars => IntakeTypeOK'
    <2>1. \A a \in {ValidationError, "INVALID_CARD", "INVALID_WEBHOOK_SIGNATURE", UnexpectedError} :
            a # "none" /\ toHttpStatus(a) \in {400, 401, 422, 500}
      BY DEF ValidationError, UnexpectedError, NoAnswer, toHttpStatus, DomainErrorCode, Failures,
             STATUS_BY_CODE
    <2>2. ASSUME IntakeTypeOK, [Next]_intakeVars PROVE IntakeTypeOK'
      <3>1. ASSUME NEW s \in {"handler", "admitted"}, stage \in {"arrived", "handler"}, proceed(s)
            PROVE  IntakeTypeOK'
        BY <2>2, <3>1 DEF IntakeTypeOK, proceed
      <3>2. ASSUME NEW a \in {ValidationError, "INVALID_CARD", "INVALID_WEBHOOK_SIGNATURE",
                              UnexpectedError}, refuse(a)
            PROVE  IntakeTypeOK'
        BY <2>1, <3>2 DEF IntakeTypeOK, refuse
      <3>3. CASE validate
        BY <3>1, <3>2, <3>3 DEF validate
      <3>4. CASE checkCard
        BY <3>1, <3>2, <3>4 DEF checkCard
      <3>5. CASE takePayment
        BY <3>1, <3>5 DEF takePayment
      <3>6. CASE checkSignature
        BY <3>1, <3>2, <3>6 DEF checkSignature
      <3>7. CASE UNCHANGED intakeVars
        BY <2>2, <3>7 DEF IntakeTypeOK, intakeVars
      <3> QED
        BY <2>2, <3>3, <3>4, <3>5, <3>6, <3>7 DEF Next
    <2> QED
      BY <2>2
  <1> QED
    BY <1>1, <1>2, PTL DEF Spec

-----------------------------------------------------------------------------
(* The pipe and what it lets pass.                                            *)

(* Bodies of one class have its fields, and members where it nests objects.   *)
anyValue == PlainValues \cup NestedValues

bodiesOf(dto) ==
  [fields  : [DOMAIN dto -> anyValue],
   members : [nestedFields(dto) ->
                UNION {[DOMAIN NestedTypes[n] -> anyValue] : n \in nestedFields(dto)}],
   extra   : BOOLEAN]

LEMMA VariantsKeepShape ==
  ASSUME NEW dto, NEW body \in bodiesOf(dto), NEW v \in variants(dto, body)
  PROVE  v \in bodiesOf(dto)
  <1>1. ASSUME NEW f \in DOMAIN dto, NEW x \in PlainValues \cup NestedValues,
               v = [body EXCEPT !.fields[f] = x]
        PROVE  v \in bodiesOf(dto)
    BY <1>1 DEF bodiesOf, anyValue
  <1>2. ASSUME NEW n \in nestedFields(dto), NEW f \in DOMAIN NestedTypes[n], NEW x \in PlainValues,
               v = [body EXCEPT !.members[n][f] = x]
        PROVE  v \in bodiesOf(dto)
    <2> DEFINE Members == UNION {[DOMAIN NestedTypes[m] -> anyValue] : m \in nestedFields(dto)}
    <2>1. body.members \in [nestedFields(dto) -> Members]
      BY DEF bodiesOf
    <2>2. PICK m \in nestedFields(dto) : body.members[n] \in [DOMAIN NestedTypes[m] -> anyValue]
      BY <2>1
    <2>3. [body.members[n] EXCEPT ![f] = x] \in Members
      BY <2>2 DEF anyValue
    <2> HIDE DEF Members
    <2>4. [body.members EXCEPT ![n] = [body.members[n] EXCEPT ![f] = x]]
            \in [nestedFields(dto) -> Members]
      BY <2>1, <2>3
    <2>5. v = [body EXCEPT !.members =
                 [body.members EXCEPT ![n] = [body.members[n] EXCEPT ![f] = x]]]
      BY <1>2
    <2> QED
      BY <2>4, <2>5 DEF bodiesOf, Members
  <1>3. CASE v = [body EXCEPT !.extra = TRUE]
    BY <1>3 DEF bodiesOf
  <1> QED
    BY <1>1, <1>2, <1>3 DEF variants

LEMMA ProperShape ==
  ASSUME NEW dto PROVE properBody(dto) \in bodiesOf(dto)
  BY DEF properBody, bodiesOf, properFields, anyValue, PlainValues, NestedValues

LEMMA NearShape ==
  ASSUME NEW dto, NEW b \in bodiesNear(dto) PROVE b \in bodiesOf(dto)
  <1>1. PICK v \in variants(dto, properBody(dto)) : b \in variants(dto, v)
    BY DEF bodiesNear
  <1> QED
    BY <1>1, ProperShape, VariantsKeepShape

(* What the DTOs require is what the tables and the gateway need: each of the *)
(* three rules of RequiredFields and RequiredMembers is "required".           *)
LEMMA NestedRules ==
  ASSUME NEW n \in {"customer", "delivery", "card"}, NEW f \in RequiredMembers[n]
  PROVE  f \in DOMAIN NestedTypes[n] /\ NestedTypes[n][f] = "required"
  <1>1. CASE n = "customer"
    BY <1>1 DEF RequiredMembers, NestedTypes, CustomerDto
  <1>2. CASE n = "delivery"
    BY <1>2 DEF RequiredMembers, NestedTypes, DeliveryDto
  <1>3. CASE n = "card"
    BY <1>3 DEF RequiredMembers, NestedTypes, CardDto
  <1> QED
    BY <1>1, <1>2, <1>3

LEMMA FieldRules ==
  ASSUME NEW dto \in {CreateTransactionDto, ProcessPaymentDto}
  PROVE  /\ \A f \in DOMAIN dto \cap RequiredFields : dto[f] = "required"
         /\ nestedFields(dto) \subseteq {"customer", "delivery", "card"}
  BY DEF CreateTransactionDto, ProcessPaymentDto, RequiredFields, nestedFields

(* So a body the pipe lets pass is complete.                                  *)
LEMMA PassedBody ==
  ASSUME NEW dto \in {CreateTransactionDto, ProcessPaymentDto}, NEW body \in bodiesOf(dto),
         passesPipe(dto, body)
  PROVE  /\ \A f \in DOMAIN body.fields \cap RequiredFields : body.fields[f] = "proper"
         /\ \A n \in DOMAIN body.members : body.fields[n] = "object" =>
              \A f \in RequiredMembers[n] : body.members[n][f] = "proper"
  <1>1. DOMAIN body.fields = DOMAIN dto /\ DOMAIN body.members = nestedFields(dto)
    BY DEF bodiesOf
  <1>2. \A value : passesRule("required", value) => value = "proper"
    BY DEF passesRule
  <1>3. ASSUME NEW f \in DOMAIN body.fields \cap RequiredFields PROVE body.fields[f] = "proper"
    BY <1>1, <1>2, FieldRules DEF passesPipe
  <1>4. ASSUME NEW n \in DOMAIN body.members, body.fields[n] = "object",
               NEW f \in RequiredMembers[n]
        PROVE  body.members[n][f] = "proper"
    <2>1. n \in nestedFields(dto) /\ n \in {"customer", "delivery", "card"}
      BY <1>1, FieldRules
    <2>2. f \in DOMAIN NestedTypes[n] /\ NestedTypes[n][f] = "required"
      BY <2>1, NestedRules
    <2> QED
      BY <1>2, <1>4, <2>1, <2>2 DEF passesPipe
  <1> QED
    BY <1>3, <1>4

(* A request never changes, and reaches its handler through the pipe alone.   *)
requestsMade == Checkouts \cup PaymentRequests \cup EventRequests

PassedInv ==
  /\ request \in requestsMade
  /\ stage \in {"handler", "admitted"} => passes

LEMMA Passed == Spec => []PassedInv
  <1>1. Init => PassedInv
    BY DEF Init, PassedInv, requestsMade
  <1>2. PassedInv /\ [Next]_intakeVars => PassedInv'
    BY DEF PassedInv, Next, validate, checkCard, takePayment, checkSignature, proceed, refuse,
           intakeVars, passes
  <1> QED
    BY <1>1, <1>2, PTL DEF Spec

(* The DTOs ask for everything the schema and the gateway need, but for a     *)
(* nested object that is missing (PassedInv says how the body came so far).   *)
THEOREM AdmittedIsComplete == Spec => []AdmittedIsStorable
  <1>1. PassedInv => AdmittedIsStorable
    <2> SUFFICES ASSUME PassedInv, stage = "admitted", request.kind \in {"checkout", "payment"}
                 PROVE  /\ \A f \in DOMAIN request.body.fields \cap RequiredFields :
                             request.body.fields[f] = "proper"
                        /\ \A n \in DOMAIN request.body.members :
                             request.body.fields[n] = "object" =>
                               \A f \in RequiredMembers[n] : request.body.members[n][f] = "proper"
      BY DEF AdmittedIsStorable
    <2>1. CASE request.kind = "checkout"
      <3>1. request \in Checkouts
        BY <2>1 DEF PassedInv, requestsMade, PaymentRequests, EventRequests
      <3>2. request.body \in bodiesOf(CreateTransactionDto)
        BY <3>1, NearShape, ProperShape DEF Checkouts
      <3>3. passesPipe(CreateTransactionDto, request.body)
        BY <2>1 DEF PassedInv, passes
      <3> QED
        BY <3>2, <3>3, PassedBody
    <2>2. CASE request.kind = "payment"
      <3>1. request \in PaymentRequests
        BY <2>2 DEF PassedInv, requestsMade, Checkouts, EventRequests
      <3>2. request.body \in bodiesOf(ProcessPaymentDto)
        BY <3>1, NearShape DEF PaymentRequests
      <3>3. passesPipe(ProcessPaymentDto, request.body)
        BY <2>2 DEF PassedInv, passes
      <3> QED
        BY <3>2, <3>3, PassedBody
    <2> QED
      BY <2>1, <2>2
  <1> QED
    BY <1>1, Passed, PTL

-----------------------------------------------------------------------------
(* The brand patterns.                                                        *)

(* Every case of the patterns, and nothing else, lies in the ranges.          *)
LEMMA BrandRanges ==
  ASSUME NEW s \in [1..4 -> Digits], NEW n \in Nat
  PROVE  /\ isMastercard(s, n) <=> n = 16 /\ prefix(s) \in (5100..5599 \cup 2221..2720)
         /\ isVisa(s, n) <=> n \in {13, 16, 19} /\ prefix(s) \in 4000..4999
  <1>1. PICK a \in 0..9, b \in 0..9, c \in 0..9, d \in 0..9 :
          s[1] = a /\ s[2] = b /\ s[3] = c /\ s[4] = d
    <2>1. s[1] \in 0..9 /\ s[2] \in 0..9 /\ s[3] \in 0..9 /\ s[4] \in 0..9
      <3>1. 1 \in 1..4 /\ 2 \in 1..4 /\ 3 \in 1..4 /\ 4 \in 1..4
        OBVIOUS
      <3> QED
        BY <3>1 DEF Digits
    <2> QED
      BY <2>1, Zenon
  <1> DEFINE p == 1000 * a + 100 * b + 10 * c + d
  <1>2. prefix(s) = p /\ p \in Nat
    BY <1>1 DEF prefix
  <1>3. a = 5 /\ b \in 1..5 <=> p \in 5100..5599
    OBVIOUS
  <1>4. \/ a = 2 /\ b = 2 /\ c = 2 /\ d \in 1..9
        \/ a = 2 /\ b = 2 /\ c \in 3..9
        \/ a = 2 /\ b \in 3..6
        \/ a = 2 /\ b = 7 /\ c \in {0, 1}
        \/ a = 2 /\ b = 7 /\ c = 2 /\ d = 0
        <=> p \in 2221..2720
    OBVIOUS
  <1>5. a = 4 <=> p \in 4000..4999
    OBVIOUS
  <1> HIDE DEF p
  <1> QED
    BY <1>1, <1>2, <1>3, <1>4, <1>5 DEF isMastercard, isVisa

(* The brand a card of four to be judged by is given says which range it is   *)
(* in, for every number the service is sent (detectBrand).                    *)
THEOREM BrandsAreRanges == Spec => []BrandsByRange
  <1>1. PassedInv => BrandsByRange
    <2> SUFFICES ASSUME PassedInv, request.kind = "checkout",
                        Len(request.card) = 4, allDigits(request.card), NEW n \in 12..20
                 PROVE  /\ (detectBrand(request.card, n) = "MASTERCARD") <=>
                             (n = 16 /\ prefix(request.card) \in (5100..5599 \cup 2221..2720))
                        /\ (detectBrand(request.card, n) = "VISA") <=>
                             (n \in {13, 16, 19} /\ prefix(request.card) \in 4000..4999)
      BY DEF BrandsByRange
    <2>1. request.card \in Numbers
      BY IntakeAssumption DEF PassedInv, requestsMade, Checkouts, PaymentRequests, EventRequests
    <2>2. request.card \in [1..4 -> Digits]
      BY <2>1, CardAssumption DEF Numbers, allDigits
    <2>3. n \in Nat
      OBVIOUS
    <2>4. ~(isVisa(request.card, n) /\ isMastercard(request.card, n))
      BY DEF isVisa, isMastercard
    <2> QED
      BY <2>2, <2>3, <2>4, BrandRanges DEF detectBrand
  <1> QED
    BY <1>1, Passed, PTL

-----------------------------------------------------------------------------
(* The checksum: the loop of isValidNumber against its standard.              *)

start == [sum |-> 0, shouldDouble |-> FALSE]

(* The loop as a recursion over the sets of places still to be visited.       *)
Rounds(r, s) ==
  r = [t \in SUBSET DOMAIN s |-> IF t = {} THEN start ELSE addDigit(s[Min(t)], r[t \ {Min(t)}])]

LEMMA LoopRuns ==
  ASSUME NEW n \in Nat, NEW s \in [1..n -> Digits]
  PROVE  \E r : Rounds(r, s) /\ FoldRight(addDigit, s, start) = r[1..n]
  <1> DEFINE S == 1..n
             V == [sum : Int, shouldDouble : BOOLEAN]
             F == [p \in S \X V |-> addDigit(s[p[1]], p[2])]
             ch == [t \in SUBSET S |-> Min(t)]
             iter == CHOOSE r : Rounds(r, s)
  <1>1. IsFiniteSet(S)
    BY FS_Interval
  <1>2. start \in V
    BY DEF start
  <1>3. F \in [S \X V -> V]
    BY DEF addDigit, doubled, Digits
  <1>4. \A t \in SUBSET S : t # {} => ch[t] \in t
    <2> SUFFICES ASSUME NEW t \in SUBSET S, t # {} PROVE Min(t) \in t
      OBVIOUS
    <2>1. \E x \in t : \A y \in t : x <= y
      BY Least
    <2> QED
      BY <2>1 DEF Min
  <1>5. \E g \in [SUBSET S -> V] : Unfolds(g, S, ch, start, F)
    <2> HIDE DEF S, V, F, ch, start
    <2> QED
      BY ONLY <1>1, <1>2, <1>3, <1>4, FoldExists
  <1>6. PICK g \in [SUBSET S -> V] : Unfolds(g, S, ch, start, F)
    BY <1>5
  <1>7. Rounds(g, s)
    BY <1>4, <1>6 DEF Unfolds, Rounds
  <1>8. Rounds(iter, s)
    BY <1>7
  <1>9. FoldRight(addDigit, s, start) = iter[S]
    BY DEF FoldRight, MapThenFoldSet, Rounds
  <1> QED
    BY <1>8, <1>9

weights(s) == [i \in DOMAIN s |-> luhnWeight(s, i)]

LEMMA WeightType ==
  ASSUME NEW n \in Nat, NEW s \in [1..n -> Digits]
  PROVE  /\ Len(s) = n /\ DOMAIN s = 1..n
         /\ \A i \in 1..n : weights(s)[i] \in Digits
         /\ \A i \in 1..n :
              weights(s)[i] = IF (n - i) % 2 = 0 THEN s[i] ELSE doubled(s[i])
  <1>1. Len(s) = n /\ DOMAIN s = 1..n
    BY LenProperties
  <1>2. ASSUME NEW d \in 0..9
        PROVE  /\ (2 * d) \div 10 + ((2 * d) % 10) = doubled(d)
               /\ doubled(d) \in 0..9
    BY DEF doubled
  <1> QED
    BY <1>1, <1>2 DEF weights, luhnWeight, Digits

(* After the rounds for the last places, down to k, the loop has added up     *)
(* their weights and doubles next what the standard doubles next.             *)
LEMMA LoopInv ==
  ASSUME NEW n \in Nat, NEW s \in [1..n -> Digits], NEW r, Rounds(r, s)
  PROVE  r[1..n].sum = SumFunction(weights(s))
  <1> DEFINE w == weights(s)
             total(t) == SumFunctionOnSet(w, t)
             tail(m) == (n - m + 1)..n
             Done(m) == r[tail(m)] = [sum |-> total(tail(m)), shouldDouble |-> m % 2 = 1]
             D == {m \in Nat : m <= n => Done(m)}
  <1>1. \A i \in 1..n : w[i] \in Int /\ w[i] = IF (n - i) % 2 = 0 THEN s[i] ELSE doubled(s[i])
    BY WeightType DEF Digits
  <1>2. DOMAIN s = 1..n /\ DOMAIN w = 1..n
    BY DEF weights
  <1>3. /\ r[{}] = start
        /\ \A t \in SUBSET (1..n) : t # {} => r[t] = addDigit(s[Min(t)], r[t \ {Min(t)}])
    BY <1>2 DEF Rounds
  <1> HIDE DEF w
  <1>4. /\ total({}) = 0
        /\ \A t \in SUBSET (1..n) : total(t) \in Int
        /\ \A t \in SUBSET (1..n) : \A x \in t : total(t) = w[x] + total(t \ {x})
    <2>1. \A t \in SUBSET (1..n) : IsFiniteSet(t)
      <3>1. IsFiniteSet(1..n)
        BY FS_Interval
      <3> QED
        BY <3>1, FS_Subset
    <2> QED
      BY <2>1, <1>1, SumStep, SumSplit
  <1> HIDE DEF total
  <1>5. 0 \in D
    <2>1. tail(0) = {}
      OBVIOUS
    <2>2. (0 % 2 = 1) = FALSE
      OBVIOUS
    <2>3. r[tail(0)] = [sum |-> total(tail(0)), shouldDouble |-> FALSE]
      BY <2>1, <1>3, <1>4 DEF start
    <2>4. Done(0)
      BY <2>2, <2>3
    <2> QED
      BY <2>4
  <1>6. ASSUME NEW m \in Nat, m + 1 <= n, Done(m) PROVE Done(m + 1)
    <2> DEFINE k == n - m
    <2>1. k \in 1..n /\ tail(m + 1) = k..n /\ tail(m) = (k + 1)..n
      BY <1>6
    <2> HIDE DEF k
    <2>2. k..n \in SUBSET (1..n) /\ k \in k..n /\ k..n # {}
      <3>1. \A i \in k..n : i \in 1..n
        BY <2>1
      <3>2. k \in k..n
        BY <2>1
      <3> QED
        BY <3>1, <3>2
    <2>3. (k..n) \ {k} = (k + 1)..n
      BY <2>1
    <2>4. \A y \in k..n : y \in Int /\ k <= y
      BY <2>1
    <2>5. Min(k..n) = k
      BY <2>1, <2>2, <2>4 DEF Min
    <2>6. total(k..n) = w[k] + total((k + 1)..n) /\ total((k + 1)..n) \in Int
      <3>1. (k + 1)..n \in SUBSET (1..n)
        BY <2>1
      <3> QED
        BY <1>4, <2>2, <2>3, <3>1
    <2>7. r[k..n] = addDigit(s[k], r[(k + 1)..n])
      BY <1>3, <2>2, <2>3, <2>5
    <2>8. w[k] = IF m % 2 = 0 THEN s[k] ELSE doubled(s[k])
      BY <2>1, <1>1 DEF k
    <2> DEFINE odd == m % 2 = 1
    <2>9. (m + 1) % 2 = 1 <=> ~odd
      BY <1>6
    <2>10. m % 2 = 0 <=> ~odd
      BY <1>6
    <2>11. r[(k + 1)..n] = [sum |-> total((k + 1)..n), shouldDouble |-> odd]
      BY <1>6, <2>1
    <2> HIDE DEF odd
    <2>12. r[k..n] = [sum |-> total((k + 1)..n) + w[k], shouldDouble |-> ~odd]
      <3>1. CASE odd
        BY <3>1, <2>7, <2>8, <2>10, <2>11 DEF addDigit
      <3>2. CASE ~odd
        BY <3>2, <2>7, <2>8, <2>10, <2>11 DEF addDigit
      <3> QED
        BY <3>1, <3>2
    <2>13. total((k + 1)..n) + w[k] = total(k..n)
      BY <2>1, <2>6, <1>1
    <2>14. r[k..n] = [sum |-> total(k..n), shouldDouble |-> (m + 1) % 2 = 1]
      BY <2>9, <2>12, <2>13
    <2> QED
      BY <2>1, <2>14
  <1> HIDE DEF Done
  <1>7. \A m \in D : m + 1 \in D
    BY <1>6
  <1>8. D = Nat
    <2>1. D \in SUBSET Nat
      OBVIOUS
    <2> HIDE DEF D
    <2> QED
      BY <1>5, <1>7, <2>1, NaturalSets
  <1>9. Done(n)
    BY <1>8
  <1>10. tail(n) = 1..n
    OBVIOUS
  <1>11. r[1..n].sum = total(1..n)
    BY <1>9, <1>10 DEF Done
  <1> QED
    BY <1>2, <1>11 DEF w, total, SumFunction

(* The loop accepts what the standard accepts, at every length.               *)
LEMMA LoopIsLuhn ==
  ASSUME NEW s \in Numbers
  PROVE  isValidNumber(s) <=> isLuhn(s)
  <1> SUFFICES ASSUME isDigits(s)
               PROVE  isValidNumber(s) <=> isLuhn(s)
    BY DEF isValidNumber, isLuhn
  <1>1. PICK n \in Nat : s \in [1..n -> Digits]
    <2>1. PICK n \in (MinDigits - 1)..(MaxDigits + 1) : s \in [1..n -> Digits \cup {NotADigit}]
      BY DEF Numbers
    <2>2. n \in Nat
      BY <2>1, CardAssumption
    <2> QED
      BY <2>1, <2>2 DEF isDigits, allDigits
  <1>2. PICK r : Rounds(r, s) /\ FoldRight(addDigit, s, start) = r[1..n]
    BY <1>1, LoopRuns
  <1>3. FoldRight(addDigit, s, start).sum = SumFunction(weights(s))
    BY <1>1, <1>2, LoopInv
  <1> QED
    BY <1>3 DEF isValidNumber, isLuhn, start, weights

(* A checkout is past the check with a number the loop accepted, and is       *)
(* refused for its card with one the loop did not.                            *)
CheckedInv ==
  /\ PassedInv
  /\ answer = "INVALID_CARD" => stage = "refused" /\ request.kind = "checkout"
  /\ request.kind = "checkout" =>
       /\ stage = "admitted" => isValidNumber(request.card)
       /\ answer = "INVALID_CARD" => ~isValidNumber(request.card)

LEMMA Checked == Spec => []CheckedInv
  <1>1. Init => CheckedInv
    BY DEF Init, CheckedInv, PassedInv, requestsMade
  <1>2. CheckedInv /\ [Next]_intakeVars => CheckedInv'
    <2> SUFFICES ASSUME CheckedInv, [Next]_intakeVars PROVE CheckedInv'
      OBVIOUS
    <2>1. PassedInv'
      BY DEF CheckedInv, PassedInv, Next, validate, checkCard, takePayment, checkSignature,
             proceed, refuse, intakeVars, passes
    <2>2. CASE checkCard
      BY <2>1, <2>2 DEF CheckedInv, checkCard, proceed, refuse
    <2>3. CASE takePayment
      BY <2>1, <2>3 DEF CheckedInv, takePayment, proceed
    <2>4. CASE validate
      BY <2>1, <2>4 DEF CheckedInv, validate, proceed, refuse, ValidationError
    <2>5. CASE checkSignature
      BY <2>1, <2>5 DEF CheckedInv, checkSignature, isEvent, proceed, refuse, UnexpectedError
    <2>6. CASE UNCHANGED intakeVars
      BY <2>1, <2>6 DEF CheckedInv, intakeVars
    <2> QED
      BY <2>2, <2>3, <2>4, <2>5, <2>6 DEF Next
  <1> QED
    BY <1>1, <1>2, PTL DEF Spec

LEMMA CardIsNumber ==
  ASSUME PassedInv, request.kind = "checkout" PROVE request.card \in Numbers
  BY IntakeAssumption DEF PassedInv, requestsMade, Checkouts, PaymentRequests, EventRequests

(* Checkout accepts a card number exactly when its checksum is right          *)
(* (isValidNumber, CreateTransactionUseCase.validateCard).                    *)
THEOREM AcceptedIsLuhn == Spec => []AcceptsLuhn
  <1>1. CheckedInv => AcceptsLuhn
    BY CardIsNumber, LoopIsLuhn DEF CheckedInv, AcceptsLuhn
  <1> QED
    BY <1>1, Checked, PTL

(* Doubling in the sense of the checksum loses nothing, and sets a digit      *)
(* apart from any other by how much it adds, but for 0 and 9.                 *)
LEMMA DoubledDiffers ==
  ASSUME NEW a \in Digits, NEW b \in Digits, a # b
  PROVE  /\ doubled(a) \in Digits /\ doubled(b) \in Digits
         /\ doubled(a) # doubled(b)
         /\ {a, b} # {0, 9} => doubled(a) - a # doubled(b) - b
         /\ doubled(a) - a <= 4 /\ a - doubled(a) <= 4
  BY DEF Digits, doubled

(* A multiple of ten that changes by less than ten, and changes, is none.     *)
LEMMA TensApart ==
  ASSUME NEW x \in Int, NEW c \in Int, c # 0, c < 10, -c < 10, x % 10 = 0
  PROVE  (x + c) % 10 # 0
  OBVIOUS

LEMMA LuhnSum ==
  ASSUME NEW n \in Nat, NEW s \in [1..n -> Digits], isLuhn(s)
  PROVE  SumFunctionOnSet(weights(s), 1..n) % 10 = 0
  <1>1. DOMAIN weights(s) = 1..n
    BY DEF weights
  <1> QED
    BY <1>1 DEF isLuhn, weights, SumFunction

(* SumUpdate, over the places of a number.                                    *)
sumTo(n, f) == SumFunctionOnSet(f, 1..n)

differAt(n, f, g, i) ==
  /\ n \in Nat /\ i \in 1..n
  /\ \A j \in 1..n : f[j] \in Int /\ g[j] \in Int
  /\ \A j \in 1..n : j # i => g[j] = f[j]

LEMMA PlaceUpdate ==
  ASSUME NEW n, NEW f, NEW g, NEW i, differAt(n, f, g, i)
  PROVE  sumTo(n, g) = sumTo(n, f) - f[i] + g[i]
  <1> DEFINE S == 1..n
  <1>1. IsFiniteSet(S) /\ i \in S
    BY FS_Interval DEF differAt
  <1>2. \A j \in S : f[j] \in Int /\ g[j] \in Int
    BY DEF differAt
  <1>3. \A j \in S : j # i => g[j] = f[j]
    BY DEF differAt
  <1> HIDE DEF S
  <1>4. SumFunctionOnSet(g, S) = SumFunctionOnSet(f, S) - f[i] + g[i]
    BY ONLY <1>1, <1>2, <1>3, SumUpdate
  <1> QED
    BY <1>4 DEF S, sumTo

(* One wrong digit is caught.                                                 *)
LEMMA WrongDigit ==
  ASSUME NEW n \in Nat, NEW s \in [1..n -> Digits], isLuhn(s),
         NEW i \in 1..n, NEW d \in Digits, d # s[i]
  PROVE  ~isLuhn([s EXCEPT ![i] = d])
  <1> DEFINE t == [s EXCEPT ![i] = d]
             f == weights(s)
             g == weights(t)
  <1> SUFFICES ASSUME isLuhn(t) PROVE FALSE
    OBVIOUS
  <1>1. t \in [1..n -> Digits] /\ t[i] = d /\ \A j \in 1..n : j # i => t[j] = s[j]
    OBVIOUS
  <1> HIDE DEF t
  <1>2. /\ \A j \in 1..n : f[j] \in Digits /\ f[j] = IF (n - j) % 2 = 0 THEN s[j] ELSE doubled(s[j])
        /\ \A j \in 1..n : g[j] \in Digits /\ g[j] = IF (n - j) % 2 = 0 THEN t[j] ELSE doubled(t[j])
    BY <1>1, WeightType
  <1>3. sumTo(n, f) % 10 = 0 /\ sumTo(n, g) % 10 = 0
    BY <1>1, LuhnSum DEF sumTo
  <1> HIDE DEF f, g
  <1>4. IsFiniteSet(1..n)
    BY FS_Interval
  <1>5. sumTo(n, g) = sumTo(n, f) - f[i] + g[i]
    <2>1. \A j \in 1..n : f[j] \in Int /\ g[j] \in Int
      BY <1>2 DEF Digits
    <2>2. \A j \in 1..n : j # i => g[j] = f[j]
      BY <1>1, <1>2
    <2>3. differAt(n, f, g, i)
      BY <2>1, <2>2 DEF differAt
    <2> QED
      BY ONLY <2>3, PlaceUpdate
  <1>6. f[i] # g[i] /\ f[i] \in 0..9 /\ g[i] \in 0..9
    <2>1. s[i] \in Digits /\ t[i] \in Digits /\ s[i] # t[i]
      BY <1>1
    <2>2. CASE (n - i) % 2 = 0
      BY <1>2, <2>1, <2>2 DEF Digits
    <2>3. CASE ~((n - i) % 2 = 0)
      <3>1. f[i] = doubled(s[i]) /\ g[i] = doubled(t[i])
        BY <1>2, <2>3
      <3>2. f[i] # g[i]
        BY <2>1, <3>1, DoubledDiffers
      <3> QED
        BY <1>2, <3>2 DEF Digits
    <2> QED
      BY <2>2, <2>3
  <1>7. sumTo(n, f) \in Int
    BY <1>2, <1>4, SumStep DEF Digits, sumTo
  <1>8. PICK x \in Int : x = sumTo(n, f)
    BY <1>7
  <1>9. PICK a \in 0..9, b \in 0..9 : a = f[i] /\ b = g[i]
    BY <1>6
  <1>10. sumTo(n, g) = x - a + b
    BY <1>5, <1>8, <1>9
  <1>11. a # b
    BY <1>6, <1>9
  <1>12. PICK c \in Int : c = b - a
    OBVIOUS
  <1>13. c # 0 /\ c < 10 /\ -c < 10 /\ x - a + b = x + c
    BY <1>11, <1>12
  <1> QED
    BY <1>3, <1>8, <1>10, <1>13, TensApart

(* Two neighbours exchanged are caught, unless they are 0 and 9.              *)
LEMMA Exchanged ==
  ASSUME NEW n \in Nat, NEW s \in [1..n -> Digits], isLuhn(s),
         NEW i \in 1..(n - 1), s[i] # s[i + 1], {s[i], s[i + 1]} # {0, 9}
  PROVE  ~isLuhn(swapped(s, i))
  <1> DEFINE t == swapped(s, i)
             f == weights(s)
             g == weights(t)
             h == [j \in 1..n |-> IF j = i THEN g[i] ELSE f[j]]
  <1> SUFFICES ASSUME isLuhn(t) PROVE FALSE
    OBVIOUS
  <1>1. /\ t \in [1..n -> Digits] /\ t[i] = s[i + 1] /\ t[i + 1] = s[i]
        /\ \A j \in 1..n : j # i /\ j # i + 1 => t[j] = s[j]
        /\ i \in 1..n /\ i + 1 \in 1..n
    BY DEF swapped
  <1> HIDE DEF t
  <1>2. /\ \A j \in 1..n : f[j] \in Digits /\ f[j] = IF (n - j) % 2 = 0 THEN s[j] ELSE doubled(s[j])
        /\ \A j \in 1..n : g[j] \in Digits /\ g[j] = IF (n - j) % 2 = 0 THEN t[j] ELSE doubled(t[j])
    BY <1>1, WeightType
  <1>3. sumTo(n, f) % 10 = 0 /\ sumTo(n, g) % 10 = 0
    BY <1>1, LuhnSum DEF sumTo
  <1> HIDE DEF f, g
  <1>4. IsFiniteSet(1..n)
    BY FS_Interval
  <1>5. \A j \in 1..n : f[j] \in Int /\ g[j] \in Int
    BY <1>2 DEF Digits
  <1>6. /\ \A j \in 1..n : h[j] \in Int /\ (j # i => h[j] = f[j]) /\ (j # i + 1 => h[j] = g[j])
        /\ h[i] = g[i] /\ h[i + 1] = f[i + 1]
    BY <1>1, <1>2, <1>5
  <1> HIDE DEF h
  <1>7. sumTo(n, h) = sumTo(n, f) - f[i] + h[i]
    <2>1. \A j \in 1..n : f[j] \in Int /\ h[j] \in Int
      BY <1>5, <1>6
    <2>2. i \in 1..n /\ \A j \in 1..n : j # i => h[j] = f[j]
      BY <1>1, <1>6
    <2>3. differAt(n, f, h, i)
      BY <2>1, <2>2 DEF differAt
    <2> QED
      BY ONLY <2>3, PlaceUpdate
  <1>8. sumTo(n, g) = sumTo(n, h) - h[i + 1] + g[i + 1]
    <2>1. \A j \in 1..n : h[j] \in Int /\ g[j] \in Int
      BY <1>5, <1>6
    <2>2. i + 1 \in 1..n /\ \A j \in 1..n : j # i + 1 => g[j] = h[j]
      BY <1>1, <1>6
    <2>3. differAt(n, h, g, i + 1)
      BY <2>1, <2>2 DEF differAt
    <2> QED
      BY ONLY <2>3, PlaceUpdate
  <1>9. sumTo(n, f) \in Int
    BY <1>4, <1>5, SumStep DEF sumTo
  <1>10. (n - (i + 1)) % 2 = 0 <=> ~((n - i) % 2 = 0)
    BY <1>1
  <1>11. PICK x \in Int : x = sumTo(n, f)
    BY <1>9
  <1>12. PICK u \in Int, u1 \in Int, v \in Int, v1 \in Int :
           u = f[i] /\ u1 = f[i + 1] /\ v = g[i] /\ v1 = g[i + 1]
    BY <1>1, <1>5
  <1>13. sumTo(n, h) = x - u + v
    BY <1>6, <1>7, <1>11, <1>12
  <1>14. sumTo(n, g) = (x - u + v) - u1 + v1
    BY <1>6, <1>8, <1>12, <1>13
  <1>15. PICK c \in Int : c = v - u + v1 - u1
    OBVIOUS
  <1>16. c # 0 /\ c < 10 /\ -c < 10
    <2>1. PICK a \in 0..9, b \in 0..9, da \in 0..9, db \in 0..9 :
            a = s[i] /\ b = s[i + 1] /\ da = doubled(a) /\ db = doubled(b)
      BY <1>1, DoubledDiffers DEF Digits
    <2>2. da - a # db - b /\ da - a <= 4 /\ a - da <= 4 /\ db - b <= 4 /\ b - db <= 4
      BY <2>1, DoubledDiffers DEF Digits
    <2>3. CASE (n - i) % 2 = 0
      <3>1. u = a /\ u1 = db /\ v = b /\ v1 = da
        BY <2>1, <2>3, <1>1, <1>2, <1>10, <1>12
      <3> QED
        BY <2>2, <3>1, <1>15
    <2>4. CASE ~((n - i) % 2 = 0)
      <3>1. u = da /\ u1 = b /\ v = db /\ v1 = a
        BY <2>1, <2>4, <1>1, <1>2, <1>10, <1>12
      <3> QED
        BY <2>2, <3>1, <1>15
    <2> QED
      BY <2>3, <2>4
  <1>17. (x - u + v) - u1 + v1 = x + c
    BY <1>15
  <1> QED
    BY <1>3, <1>11, <1>14, <1>16, <1>17, TensApart

(* No admitted number is one slip away from another that would be admitted    *)
(* ("structurally impossible card numbers"), at every length.                 *)
THEOREM SlipsAreCaught == Spec => []CatchesSlips
  <1>1. CheckedInv => CatchesSlips
    <2> SUFFICES ASSUME CheckedInv, stage = "admitted", request.kind = "checkout"
                 PROVE  LET number == request.card IN
                        /\ \A i \in DOMAIN number, d \in Digits :
                             d # number[i] => ~isLuhn([number EXCEPT ![i] = d])
                        /\ \A i \in 1..(Len(number) - 1) :
                             number[i] # number[i + 1] /\ {number[i], number[i + 1]} # {0, 9}
                               => ~isLuhn(swapped(number, i))
      BY DEF CatchesSlips
    <2>1. request.card \in Numbers /\ isLuhn(request.card)
      BY CardIsNumber, LoopIsLuhn DEF CheckedInv
    <2>2. PICK n \in Nat : request.card \in [1..n -> Digits]
      <3>1. PICK n \in (MinDigits - 1)..(MaxDigits + 1) :
              request.card \in [1..n -> Digits \cup {NotADigit}]
        BY <2>1 DEF Numbers
      <3>2. n \in Nat
        BY <3>1, CardAssumption
      <3> QED
        BY <2>1, <3>1, <3>2 DEF isLuhn, isDigits, allDigits
    <2>3. Len(request.card) = n /\ DOMAIN request.card = 1..n
      BY <2>2, WeightType
    <2> QED
      BY <2>1, <2>2, <2>3, WrongDigit, Exchanged
  <1> QED
    BY <1>1, Checked, PTL

-----------------------------------------------------------------------------
(* The signature. Folds over a sequence of one or two are written out.        *)

LEMMA PairSubsets ==
  /\ \A S \in SUBSET {1, 2} : S = {} \/ S = {1} \/ S = {2} \/ S = {1, 2}
  /\ Max({1}) = 1 /\ Max({2}) = 2 /\ Max({1, 2}) = 2
  /\ {1} \ {1} = {} /\ {2} \ {2} = {} /\ {1, 2} \ {2} = {1}
  /\ {1} # {} /\ {2} # {} /\ {1, 2} # {} /\ {1} # {2} /\ {1} # {1, 2} /\ {2} # {1, 2}
  <1>1. Max({1}) = 1 /\ Max({2}) = 2
    BY DEF Max
  <1>2. Max({1, 2}) = 2
    <2>1. \E x \in {1, 2} : \A y \in {1, 2} : x >= y
      OBVIOUS
    <2>2. /\ Max({1, 2}) \in {1, 2}
          /\ \A y \in {1, 2} : Max({1, 2}) >= y
      BY <2>1 DEF Max
    <2> QED
      BY <2>2
  <1>3. ASSUME NEW S \in SUBSET {1, 2} PROVE S = {} \/ S = {1} \/ S = {2} \/ S = {1, 2}
    <2>1. CASE 1 \in S /\ 2 \in S
      BY <2>1
    <2>2. CASE 1 \in S /\ 2 \notin S
      BY <2>2
    <2>3. CASE 1 \notin S /\ 2 \in S
      BY <2>3
    <2>4. CASE 1 \notin S /\ 2 \notin S
      BY <2>4
    <2> QED
      BY <2>1, <2>2, <2>3, <2>4
  <1>4. {1} \ {1} = {} /\ {2} \ {2} = {} /\ {1, 2} \ {2} = {1}
    OBVIOUS
  <1>5. {1} # {} /\ {2} # {} /\ {1, 2} # {} /\ {1} # {2} /\ {1} # {1, 2} /\ {2} # {1, 2}
    <2>1. 1 \in {1} /\ 2 \in {2} /\ 2 \notin {1} /\ 1 \notin {2} /\ 1 \in {1, 2} /\ 2 \in {1, 2}
      OBVIOUS
    <2> QED
      BY <2>1
  <1> QED
    BY <1>1, <1>2, <1>3, <1>4, <1>5

(* A path of two keys leads through the member of the first (resolveProperty). *)
LEMMA TwoKeys ==
  ASSUME NEW data, NEW k, NEW l
  PROVE  FoldLeft(member, data, <<k, l>>) = member(member(data, k), l)
  <1> DEFINE path == <<k, l>>
             Walks(h) == h = [S \in SUBSET {1, 2} |->
                                IF S = {} THEN data
                                ELSE member(h[S \ {Max(S)}], path[Max(S)])]
             w == [S \in SUBSET {1, 2} |-> IF S = {} THEN data
                                           ELSE IF S = {1} THEN member(data, k)
                                           ELSE IF S = {2} THEN member(data, l)
                                           ELSE member(member(data, k), l)]
             iter == CHOOSE h : Walks(h)
  <1>1. DOMAIN path = {1, 2} /\ path[1] = k /\ path[2] = l
    OBVIOUS
  <1>2. FoldLeft(member, data, path) = iter[{1, 2}]
    BY <1>1 DEF FoldLeft, MapThenFoldSet
  <1> HIDE DEF path
  <1>3. Walks(w)
    <2>1. /\ w[{}] = data /\ w[{1}] = member(data, k) /\ w[{2}] = member(data, l)
          /\ w[{1, 2}] = member(member(data, k), l)
      BY PairSubsets
    <2>2. w = [S \in SUBSET {1, 2} |-> w[S]]
      OBVIOUS
    <2> HIDE DEF w
    <2>3. ASSUME NEW S \in SUBSET {1, 2}
          PROVE  w[S] = IF S = {} THEN data ELSE member(w[S \ {Max(S)}], path[Max(S)])
      <3>1. CASE S = {}
        BY <2>1, <3>1
      <3>2. CASE S = {1}
        BY <2>1, <3>2, <1>1, PairSubsets
      <3>3. CASE S = {2}
        BY <2>1, <3>3, <1>1, PairSubsets
      <3>4. CASE S = {1, 2}
        BY <2>1, <3>4, <1>1, PairSubsets
      <3> QED
        BY <3>1, <3>2, <3>3, <3>4, PairSubsets
    <2> QED
      BY <2>2, <2>3
  <1>4. Walks(iter)
    <2> HIDE DEF Walks, w
    <2> QED
      BY <1>3
  <1> HIDE DEF iter
  <1>5. \A S \in SUBSET {1, 2} :
          iter[S] = IF S = {} THEN data ELSE member(iter[S \ {Max(S)}], path[Max(S)])
    BY <1>4
  <1>6. {} \in SUBSET {1, 2} /\ {1} \in SUBSET {1, 2} /\ {1, 2} \in SUBSET {1, 2}
    OBVIOUS
  <1>7. iter[{1, 2}] = member(member(data, k), l)
    <2>1. iter[{}] = data
      BY <1>5, <1>6
    <2>2. iter[{1}] = member(iter[{1} \ {Max({1})}], path[Max({1})])
      BY <1>5, <1>6, PairSubsets
    <2>3. iter[{1, 2}] = member(iter[{1, 2} \ {Max({1, 2})}], path[Max({1, 2})])
      <3>1. {1, 2} # {}
        BY PairSubsets
      <3> QED
        BY ONLY <1>5, <1>6, <3>1
    <2> QED
      BY <1>1, <2>1, <2>2, <2>3, PairSubsets
  <1> QED
    BY <1>2, <1>7 DEF path

(* A path of one key leads to that member.                                    *)
LEMMA OneKey ==
  ASSUME NEW data, NEW k
  PROVE  FoldLeft(member, data, <<k>>) = member(data, k)
  <1> DEFINE path == <<k>>
             Walks(h) == h = [S \in SUBSET {1} |->
                                IF S = {} THEN data
                                ELSE member(h[S \ {Max(S)}], path[Max(S)])]
             w == [S \in SUBSET {1} |-> IF S = {} THEN data ELSE member(data, k)]
             iter == CHOOSE h : Walks(h)
  <1>1. DOMAIN path = {1} /\ path[1] = k
    OBVIOUS
  <1>2. FoldLeft(member, data, path) = iter[{1}]
    BY <1>1 DEF FoldLeft, MapThenFoldSet
  <1> HIDE DEF path
  <1>3. {} \in SUBSET {1} /\ {1} \in SUBSET {1} /\ \A S \in SUBSET {1} : S = {} \/ S = {1}
    OBVIOUS
  <1>4. Walks(w)
    <2>1. w[{}] = data /\ w[{1}] = member(data, k) /\ w = [S \in SUBSET {1} |-> w[S]]
      BY <1>3, PairSubsets
    <2> HIDE DEF w
    <2>2. ASSUME NEW S \in SUBSET {1}
          PROVE  w[S] = IF S = {} THEN data ELSE member(w[S \ {Max(S)}], path[Max(S)])
      <3>1. CASE S = {}
        BY <2>1, <3>1
      <3>2. CASE S = {1}
        BY <2>1, <3>2, <1>1, PairSubsets
      <3> QED
        BY <3>1, <3>2, <1>3
    <2> QED
      BY <2>1, <2>2
  <1>5. Walks(iter)
    <2> HIDE DEF Walks, w
    <2> QED
      BY <1>4
  <1> HIDE DEF iter
  <1>6. \A S \in SUBSET {1} :
          iter[S] = IF S = {} THEN data ELSE member(iter[S \ {Max(S)}], path[Max(S)])
    BY <1>5
  <1>7. iter[{1}] = member(data, k)
    <2>1. iter[{}] = data
      BY <1>3, <1>6
    <2>2. iter[{1}] = member(iter[{1} \ {Max({1})}], path[Max({1})])
      <3>1. {1} # {}
        BY PairSubsets
      <3> QED
        BY ONLY <1>3, <1>6, <3>1
    <2> QED
      BY <1>1, <2>1, <2>2, PairSubsets
  <1> QED
    BY <1>2, <1>7 DEF path

(* What the paths lead to in an event about a transaction: its two values,    *)
(* and nothing that is signed.                                                *)
LEMMA Resolved ==
  ASSUME NEW id, NEW status
  PROVE  LET data == transactionData(id, status) IN
         /\ resolveProperty(data, idPath) = textOf(id)
         /\ resolveProperty(data, statusPath) = textOf(status)
         /\ resolveProperty(data, <<"transaction">>) = <<>>
         /\ resolveProperty(data, <<"transaction", "amount">>) = <<>>
  <1> DEFINE data == transactionData(id, status)
             inner == object([id |-> id, status |-> status])
  <1>1. member(data, "transaction") = inner
    BY DEF member, transactionData, object
  <1>2. member(inner, "id") = id /\ member(inner, "status") = status
    BY DEF member, object
  <1>3. member(inner, "amount") = undefinedValue
    BY DEF member, object
  <1>4. textOf(inner) = <<>> /\ textOf(undefinedValue) = <<>>
    BY DEF textOf, object, undefinedValue
  <1> HIDE DEF data, inner
  <1>5. \A k, l : FoldLeft(member, data, <<k, l>>) = member(member(data, k), l)
    BY TwoKeys
  <1>6. FoldLeft(member, data, idPath) = id /\ FoldLeft(member, data, statusPath) = status
    BY <1>1, <1>2, <1>5 DEF idPath, statusPath
  <1>7. FoldLeft(member, data, <<"transaction">>) = inner
    BY <1>1, OneKey
  <1>8. FoldLeft(member, data, <<"transaction", "amount">>) = undefinedValue
    BY <1>1, <1>3, <1>5, Zenon
  <1> QED
    BY <1>4, <1>6, <1>7, <1>8 DEF resolveProperty, data

(* Concatenating, from nothing on, the text of each listed property.          *)
chained(c, data, paths) ==
  /\ c \in [0..Len(paths) -> Seq(STRING)]
  /\ c[0] = <<>>
  /\ \A k \in 1..Len(paths) : c[k] = c[k - 1] \o resolveProperty(data, paths[k])

LEMMA Chain ==
  ASSUME NEW data, NEW P, NEW paths \in Seq(P),
         \A path \in P : resolveProperty(data, path) \in Seq(STRING)
  PROVE  \E c : chained(c, data, paths) /\ concatenated(data, paths) = c[Len(paths)]
  <1> DEFINE n == Len(paths)
             S == 1..n
             V == Seq(STRING)
             F == [p \in S \X V |-> p[2] \o resolveProperty(data, paths[p[1]])]
             ch == [T \in SUBSET S |-> Max(T)]
             base == <<>>
             Signs(h) == h = [T \in SUBSET S |->
                                IF T = {} THEN base
                                ELSE h[T \ {Max(T)}] \o resolveProperty(data, paths[Max(T)])]
             iter == CHOOSE h : Signs(h)
  <1>1. n \in Nat /\ DOMAIN paths = S /\ IsFiniteSet(S) /\ \A i \in S : paths[i] \in P
    BY LenProperties, ElementOfSeq, FS_Interval
  <1>2. base \in V
    BY EmptySeq
  <1>3. F \in [S \X V -> V]
    <2>1. \A i \in S, v \in V : v \o resolveProperty(data, paths[i]) \in V
      BY <1>1, ConcatProperties
    <2> QED
      BY <2>1
  <1>4. \A T \in SUBSET S : T # {} => Max(T) \in T
    <2> SUFFICES ASSUME NEW T \in SUBSET S, T # {} PROVE Max(T) \in T
      OBVIOUS
    <2>1. \E x \in T : \A y \in T : x >= y
      BY <1>1, Greatest
    <2> QED
      BY <2>1 DEF Max
  <1>5. concatenated(data, paths) = iter[S]
    BY <1>1 DEF concatenated, FoldLeft, MapThenFoldSet
  <1>6. Signs(iter)
    <2>1. \E g \in [SUBSET S -> V] : Unfolds(g, S, ch, base, F)
      <3>1. \A T \in SUBSET S : T # {} => ch[T] \in T
        BY <1>4
      <3> HIDE DEF S, V, F, ch, base
      <3> QED
        BY ONLY <1>1, <1>2, <1>3, <3>1, FoldExists
    <2>2. PICK g \in [SUBSET S -> V] : Unfolds(g, S, ch, base, F)
      BY <2>1
    <2>3. Signs(g)
      BY <1>4, <2>2 DEF Unfolds
    <2> HIDE DEF Signs
    <2> QED
      BY <2>3
  <1> HIDE DEF iter
  <1>7. \A T \in SUBSET S :
          iter[T] = IF T = {} THEN base
                    ELSE iter[T \ {Max(T)}] \o resolveProperty(data, paths[Max(T)])
    BY <1>6
  <1> DEFINE c == [k \in 0..n |-> iter[1..k]]
  <1>8. c[0] = <<>>
    <2>1. 1..0 = {} /\ {} \in SUBSET S /\ 0 \in 0..n
      BY <1>1
    <2>2. iter[{}] = <<>>
      BY <2>1, <1>7
    <2>3. c[0] = iter[1..0]
      BY <2>1
    <2> HIDE DEF c
    <2> QED
      BY <2>1, <2>2, <2>3
  <1>9. ASSUME NEW k \in 1..n
        PROVE  c[k] = c[k - 1] \o resolveProperty(data, paths[k])
    <2>1. /\ 1..k \in SUBSET S /\ 1..k # {} /\ (1..k) \ {k} = 1..(k - 1)
          /\ k \in 0..n /\ k - 1 \in 0..n
      <3>1. k \in 1..k /\ k \in Nat /\ k <= n
        BY <1>1
      <3>2. \A j \in 1..k : j \in S
        BY <1>1, <3>1
      <3>3. (1..k) \ {k} = 1..(k - 1)
        BY <3>1
      <3>4. k \in 0..n /\ k - 1 \in 0..n
        BY <1>1
      <3> QED
        BY <3>1, <3>2, <3>3, <3>4
    <2>2. Max(1..k) = k
      <3>1. k \in 1..k /\ \A j \in 1..k : j \in Int /\ k >= j
        OBVIOUS
      <3> QED
        BY <3>1 DEF Max
    <2>3. iter[1..k] = iter[1..(k - 1)] \o resolveProperty(data, paths[k])
      <3> HIDE DEF S, c
      <3>1. iter[1..k] = iter[(1..k) \ {Max(1..k)}] \o resolveProperty(data, paths[Max(1..k)])
        BY ONLY <1>7, <2>1
      <3> QED
        BY <2>1, <2>2, <3>1
    <2> QED
      BY <2>1, <2>3
  <1> HIDE DEF c
  <1>10. \A k \in 0..n : c[k] \in V
    <2> DEFINE D == {k \in Nat : k <= n => c[k] \in V}
    <2>1. 0 \in D
      BY <1>2, <1>8
    <2>2. ASSUME NEW k \in Nat, k + 1 <= n, c[k] \in V PROVE c[k + 1] \in V
      <3>1. k + 1 \in 1..n /\ (k + 1) - 1 = k /\ paths[k + 1] \in P
        BY <2>2, <1>1
      <3>2. c[k + 1] = c[k] \o resolveProperty(data, paths[k + 1])
        BY <3>1, <1>9
      <3> QED
        BY <2>2, <3>1, <3>2, ConcatProperties
    <2>3. \A k \in D : k + 1 \in D
      BY <2>2, <1>1
    <2>4. D = Nat
      <3>1. D \in SUBSET Nat
        OBVIOUS
      <3> HIDE DEF D
      <3> QED
        BY <2>1, <2>3, <3>1, NaturalSets
    <2> QED
      BY <2>4
  <1>11. c \in [0..n -> V] /\ c[n] = iter[S]
    <2>1. c = [k \in 0..n |-> c[k]] /\ n \in 0..n
      BY <1>1 DEF c
    <2> QED
      BY <1>10, <2>1 DEF c
  <1>12. chained(c, data, paths)
    BY <1>8, <1>9, <1>11 DEF chained
  <1> HIDE DEF S, n
  <1> QED
    BY <1>5, <1>11, <1>12 DEF n

-----------------------------------------------------------------------------
(* The development script signs what the service verifies.                    *)

LEMMA PairFlattened ==
  ASSUME NEW a, NEW b
  PROVE  FlattenSeq(<<a, b>>) = a \o b
  <1> DEFINE Joins(h) == h = [i \in 1..Len(<<a, b>>) |->
                                IF i = 1 THEN <<a, b>>[i] ELSE h[i - 1] \o <<a, b>>[i]]
             w == [i \in 1..2 |-> IF i = 1 THEN a ELSE a \o b]
             flatten == CHOOSE h : Joins(h)
  <1>1. FlattenSeq(<<a, b>>) = flatten[2]
    BY DEF FlattenSeq
  <1>2. Joins(w)
    OBVIOUS
  <1>3. Joins(flatten)
    <2> HIDE DEF Joins, w
    <2> QED
      BY <1>2
  <1> HIDE DEF flatten
  <1>4. flatten[1] = a /\ flatten[2] = flatten[1] \o b
    <2>1. Len(<<a, b>>) = 2 /\ <<a, b>>[1] = a /\ <<a, b>>[2] = b /\ 1 \in 1..2 /\ 2 \in 1..2
      OBVIOUS
    <2>2. flatten = [i \in 1..2 |-> IF i = 1 THEN <<a, b>>[i] ELSE flatten[i - 1] \o <<a, b>>[i]]
      BY <1>3, <2>1
    <2>3. \A i \in 1..2 : flatten[i] = IF i = 1 THEN <<a, b>>[i] ELSE flatten[i - 1] \o <<a, b>>[i]
      BY <2>2
    <2> QED
      BY <2>1, <2>3
  <1> QED
    BY <1>1, <1>4

(* Both read the same two values of the data the script builds.               *)
LEMMA ScriptValues ==
  ASSUME NEW reference, NEW status \in Seq(STRING), NEW id \in Seq(STRING)
  PROVE  LET data == scriptData(reference, status, id) IN
         /\ resolveProperty(data, idPath) = id
         /\ resolveProperty(data, statusPath) = status
         /\ scriptText(FoldLeft(member, data, idPath)) = id
         /\ scriptText(FoldLeft(member, data, statusPath)) = status
  <1> DEFINE data == scriptData(reference, status, id)
             inner == object([id |-> scalar("string", id),
                              reference |-> scalar("string", reference),
                              status |-> scalar("string", status), status_message |-> nullValue])
  <1>1. member(data, "transaction") = inner
    BY DEF member, scriptData, object
  <1>2. /\ member(inner, "id") = scalar("string", id)
        /\ member(inner, "status") = scalar("string", status)
    BY DEF member, object
  <1>3. \A t : textOf(scalar("string", t)) = t /\ scriptText(scalar("string", t)) = t
    BY DEF textOf, scalar, scriptText
  <1> HIDE DEF data, inner
  <1>4. \A k, l : FoldLeft(member, data, <<k, l>>) = member(member(data, k), l)
    BY TwoKeys
  <1>5. /\ FoldLeft(member, data, idPath) = scalar("string", id)
        /\ FoldLeft(member, data, statusPath) = scalar("string", status)
    BY <1>1, <1>2, <1>4, Zenon DEF idPath, statusPath
  <1> QED
    BY <1>3, <1>5 DEF resolveProperty, data

LEMMA ScriptIsValid ==
  ASSUME NEW reference, NEW status \in Seq(STRING), NEW id \in Seq(STRING)
  PROVE  verifySignature(scriptEvent(reference, status, id, Timestamp, Secret), Secret) = "valid"
  <1> DEFINE data == scriptData(reference, status, id)
             paths == scriptProperties
             P == {idPath, statusPath}
             event == scriptEvent(reference, status, id, Timestamp, Secret)
  <1>1. paths = <<idPath, statusPath>> /\ paths \in Seq(P) /\ Len(paths) = 2 /\ paths # <<>>
    BY DEF scriptProperties, idPath, statusPath
  <1>2. \A path \in P : resolveProperty(data, path) \in Seq(STRING)
    BY ScriptValues
  <1>3. PICK c : chained(c, data, paths) /\ concatenated(data, paths) = c[Len(paths)]
    <2> HIDE DEF data, paths, P
    <2> QED
      BY <1>1, <1>2, Chain
  <1>4. c[1] = <<>> \o id /\ c[2] = c[1] \o status
    <2>1. paths[1] = idPath /\ paths[2] = statusPath
      BY <1>1
    <2>2. /\ resolveProperty(data, paths[1]) = id
          /\ resolveProperty(data, paths[2]) = status
      BY <2>1, ScriptValues
    <2>3. /\ c[0] = <<>>
          /\ \A k \in 1..2 : c[k] = c[k - 1] \o resolveProperty(data, paths[k])
      BY <1>1, <1>3 DEF chained
    <2>4. 1 \in 1..2 /\ 2 \in 1..2 /\ 1 - 1 = 0 /\ 2 - 1 = 1
      OBVIOUS
    <2> HIDE DEF data, paths
    <2>5. c[1] = c[0] \o resolveProperty(data, paths[1])
      BY <2>3, <2>4
    <2>6. c[2] = c[1] \o resolveProperty(data, paths[2])
      BY <2>3, <2>4
    <2> QED
      BY <2>2, <2>3, <2>5, <2>6
  <1>5. concatenated(data, paths) = id \o status
    BY <1>1, <1>3, <1>4, ConcatEmptySeq
  <1>6. scriptConcatenated(data) = id \o status
    <2> DEFINE texts == [i \in DOMAIN paths |-> scriptText(FoldLeft(member, data, paths[i]))]
    <2>1. paths[1] = idPath /\ paths[2] = statusPath
      BY <1>1
    <2>2. /\ scriptText(FoldLeft(member, data, paths[1])) = id
          /\ scriptText(FoldLeft(member, data, paths[2])) = status
      BY <2>1, ScriptValues
    <2>3. texts = <<id, status>>
      <3>1. DOMAIN paths = 1..2
        BY <1>1
      <3> HIDE DEF data, paths
      <3> QED
        BY <2>2, <3>1
    <2>4. scriptConcatenated(data) = FlattenSeq(texts)
      BY DEF scriptConcatenated
    <2> HIDE DEF texts
    <2> QED
      BY <2>3, <2>4, PairFlattened
  <1>7. /\ event.data = data /\ event.properties = "list" /\ event.paths = paths
        /\ event.timestamp = Timestamp /\ event.missing = {}
        /\ event.checksum = [form |-> "lowerHex", digestOf |-> id \o status \o Timestamp \o Secret]
    BY <1>6 DEF scriptEvent
  <1> HIDE DEF event, data, paths
  <1>8. isValid(id \o status \o Timestamp \o Secret, event.checksum) = "valid"
    BY <1>7 DEF isValid
  <1>9. buildChecksum(event.data, event.paths, event.timestamp, Secret)
          = id \o status \o Timestamp \o Secret
    BY <1>5, <1>7 DEF buildChecksum
  <1>10. verifySignature(event, Secret) = "valid"
    BY <1>1, <1>7, <1>8, <1>9 DEF verifySignature
  <1> QED
    BY <1>10 DEF event
SignedInv ==
  /\ PassedInv
  /\ isEvent /\ stage = "admitted" => verifySignature(request.event, Secret) = "valid"
  /\ isEvent /\ stage = "refused" => verifySignature(request.event, Secret) # "valid"

LEMMA Signed == Spec => []SignedInv
  <1>1. Init => SignedInv
    BY DEF Init, SignedInv, PassedInv, requestsMade
  <1>2. SignedInv /\ [Next]_intakeVars => SignedInv'
    <2> SUFFICES ASSUME SignedInv, [Next]_intakeVars PROVE SignedInv'
      OBVIOUS
    <2>1. PassedInv'
      BY DEF SignedInv, PassedInv, Next, validate, checkCard, takePayment, checkSignature,
             proceed, refuse, intakeVars, passes
    <2>2. CASE checkCard
      BY <2>1, <2>2 DEF SignedInv, checkCard, isEvent, proceed, refuse
    <2>3. CASE takePayment
      BY <2>1, <2>3 DEF SignedInv, takePayment, isEvent, proceed
    <2>4. CASE validate
      <3>1. isEvent => passes
        BY DEF isEvent, passes
      <3> QED
        BY <2>1, <2>4, <3>1 DEF SignedInv, validate, isEvent, proceed, refuse
    <2>5. CASE checkSignature
      BY <2>1, <2>5 DEF SignedInv, checkSignature, isEvent, proceed, refuse
    <2>6. CASE UNCHANGED intakeVars
      BY <2>1, <2>6 DEF SignedInv, isEvent, intakeVars
    <2> QED
      BY <2>2, <2>3, <2>4, <2>5, <2>6 DEF Next
  <1> QED
    BY <1>1, <1>2, PTL DEF Spec

(* Whatever status and id the development script signs, with whatever secret, *)
(* the service takes its event (build-webhook-event.js, buildChecksum).       *)
THEOREM ScriptAlwaysVerifies == Spec => []ScriptVerifies
  <1>1. SignedInv => ScriptVerifies
    <2> SUFFICES ASSUME SignedInv, request.kind = "scriptEvent" PROVE stage # "refused"
      BY DEF ScriptVerifies
    <2>1. request \in EventRequests
      BY DEF SignedInv, PassedInv, requestsMade, Checkouts, PaymentRequests
    <2>2. PICK status \in Texts, id \in Texts :
            request.event = scriptEvent(<<"r">>, status, id, Timestamp, Secret)
      BY <2>1 DEF EventRequests
    <2>3. status \in Seq(STRING) /\ id \in Seq(STRING)
      BY IntakeAssumption
    <2>4. verifySignature(request.event, Secret) = "valid"
      BY <2>2, <2>3, ScriptIsValid
    <2> QED
      BY <2>4 DEF SignedInv, isEvent
  <1> QED
    BY <1>1, Signed, PTL

-----------------------------------------------------------------------------
(* One changed value changes what is signed.                                  *)

joins(n, c, v) ==
  /\ c \in [0..n -> Seq(STRING)] /\ v \in [1..n -> Seq(STRING)]
  /\ c[0] = <<>>
  /\ \A k \in 1..n : c[k] = c[k - 1] \o v[k]

LEMMA Cancelled ==
  ASSUME NEW s \in Seq(STRING), NEW t \in Seq(STRING), NEW u \in Seq(STRING)
  PROVE  (s \o t = s \o u => t = u) /\ (s \o u = t \o u => s = t)
  BY ConcatSimplifications

(* Where the cut falls at the same place, equal texts have equal parts.       *)
LEMMA SameCut ==
  ASSUME NEW a \in Seq(STRING), NEW b \in Seq(STRING), NEW x \in Seq(STRING),
         NEW y \in Seq(STRING), Len(a) = Len(b), a \o x = b \o y
  PROVE  a = b /\ x = y
  <1>1. a = b
    <2>1. \A i \in 1..Len(a) : a[i] = b[i]
      <3> SUFFICES ASSUME NEW i \in 1..Len(a) PROVE a[i] = b[i]
        OBVIOUS
      <3>1. /\ i \in 1..(Len(a) + Len(x)) /\ i \in 1..(Len(b) + Len(y))
            /\ i <= Len(a) /\ i <= Len(b)
        BY LenProperties
      <3>2. (a \o x)[i] = a[i] /\ (b \o y)[i] = b[i]
        BY <3>1, ConcatProperties
      <3> QED
        BY <3>2
    <2> QED
      BY <2>1, SeqEqual
  <1>2. x = y
    BY <1>1, Cancelled
  <1> QED
    BY <1>1, <1>2

measured(n, c, v) ==
  /\ Len(c[0]) = 0
  /\ \A k \in 0..n : Len(c[k]) \in Nat
  /\ \A k \in 1..n : Len(v[k]) \in Nat /\ Len(c[k]) = Len(c[k - 1]) + Len(v[k])

LEMMA JoinedLengths ==
  ASSUME NEW n \in Nat, NEW c, NEW v, joins(n, c, v)
  PROVE  measured(n, c, v)
  <1>1. \A k \in 0..n : c[k] \in Seq(STRING)
    BY DEF joins
  <1>2. \A k \in 1..n : v[k] \in Seq(STRING) /\ k - 1 \in 0..n
    BY DEF joins
  <1>3. ASSUME NEW k \in 1..n PROVE Len(c[k]) = Len(c[k - 1]) + Len(v[k])
    <2>1. c[k] = c[k - 1] \o v[k]
      BY DEF joins
    <2> QED
      BY <1>1, <1>2, <2>1, ConcatProperties
  <1>4. Len(c[0]) = 0
    BY DEF joins
  <1> QED
    BY <1>1, <1>2, <1>3, <1>4, LenProperties DEF measured

(* Some of the pieces, all the same text, become another text.                *)
changedAt(n, v, w, old, new, i) ==
  /\ i \in 1..n /\ v[i] = old /\ w[i] = new /\ old # new
  /\ \A k \in 1..n : w[k] = v[k] \/ (v[k] = old /\ w[k] = new)

(* A longer text makes the whole longer.                                      *)
LEMMA LongerText ==
  ASSUME NEW n \in Nat, NEW c, NEW d, NEW v, NEW w, joins(n, c, v), joins(n, d, w),
         NEW old, NEW new, NEW i, changedAt(n, v, w, old, new, i),
         Len(old) < Len(new)
  PROVE  c[n] # d[n]
  <1> DEFINE D == {k \in Nat : k <= n => /\ Len(c[k]) <= Len(d[k])
                                         /\ k >= i => Len(c[k]) < Len(d[k])}
  <1>0. /\ Len(c[0]) = 0 /\ Len(d[0]) = 0
        /\ \A k \in 0..n : Len(c[k]) \in Nat /\ Len(d[k]) \in Nat
        /\ \A k \in 1..n : /\ Len(v[k]) \in Nat /\ Len(w[k]) \in Nat
                           /\ Len(c[k]) = Len(c[k - 1]) + Len(v[k])
                           /\ Len(d[k]) = Len(d[k - 1]) + Len(w[k])
    <2>1. measured(n, c, v) /\ measured(n, d, w)
      BY JoinedLengths, Zenon
    <2> QED
      BY <2>1 DEF measured
  <1>1. i \in 1..n
    BY DEF changedAt
  <1>2. 0 \in D
    BY <1>0, <1>1
  <1>3. ASSUME NEW k \in D PROVE k + 1 \in D
    <2>1. SUFFICES ASSUME k + 1 <= n
                   PROVE  /\ Len(c[k + 1]) <= Len(d[k + 1])
                          /\ k + 1 >= i => Len(c[k + 1]) < Len(d[k + 1])
      OBVIOUS
    <2>2. k + 1 \in 1..n /\ (k + 1) - 1 = k /\ k \in 0..n /\ k + 1 \in 0..n
      BY <2>1
    <2> DEFINE ck == Len(c[k])
               dk == Len(d[k])
               vk == Len(v[k + 1])
               wk == Len(w[k + 1])
    <2>3. /\ ck \in Nat /\ dk \in Nat /\ vk \in Nat /\ wk \in Nat
          /\ Len(c[k + 1]) = ck + vk /\ Len(d[k + 1]) = dk + wk
      BY <1>0, <2>2
    <2>4. vk <= wk
      BY <2>2, <2>3 DEF changedAt
    <2>5. i = k + 1 => vk < wk
      BY DEF changedAt
    <2>6. ck <= dk /\ (k >= i => ck < dk)
      BY <2>2
    <2> HIDE DEF ck, dk, vk, wk
    <2> QED
      BY <1>1, <2>3, <2>4, <2>5, <2>6
  <1>4. D = Nat
    <2>1. D \in SUBSET Nat
      OBVIOUS
    <2> HIDE DEF D
    <2> QED
      BY <1>2, <1>3, <2>1, NaturalSets
  <1>5. Len(c[n]) < Len(d[n])
    BY <1>1, <1>4
  <1>6. Len(c[n]) \in Nat
    BY <1>0
  <1> QED
    BY <1>5, <1>6

(* A text as long shifts nothing, so its place shows it.                      *)
LEMMA TextAsLong ==
  ASSUME NEW n \in Nat, NEW c, NEW d, NEW v, NEW w, joins(n, c, v), joins(n, d, w),
         NEW old, NEW new, NEW i, changedAt(n, v, w, old, new, i),
         Len(old) = Len(new)
  PROVE  c[n] # d[n]
  <1> DEFINE D == {k \in Nat : k <= n => /\ Len(c[k]) = Len(d[k])
                                         /\ k >= i => c[k] # d[k]}
  <1>0. /\ Len(c[0]) = 0 /\ Len(d[0]) = 0
        /\ \A k \in 0..n : Len(c[k]) \in Nat /\ Len(d[k]) \in Nat
        /\ \A k \in 1..n : /\ Len(v[k]) \in Nat /\ Len(w[k]) \in Nat
                           /\ Len(c[k]) = Len(c[k - 1]) + Len(v[k])
                           /\ Len(d[k]) = Len(d[k - 1]) + Len(w[k])
    <2>1. measured(n, c, v) /\ measured(n, d, w)
      BY JoinedLengths, Zenon
    <2> QED
      BY <2>1 DEF measured
  <1>1. i \in 1..n
    BY DEF changedAt
  <1>2. 0 \in D
    BY <1>0, <1>1
  <1>3. ASSUME NEW k \in D PROVE k + 1 \in D
    <2>1. SUFFICES ASSUME k + 1 <= n
                   PROVE  /\ Len(c[k + 1]) = Len(d[k + 1])
                          /\ k + 1 >= i => c[k + 1] # d[k + 1]
      OBVIOUS
    <2>2. k + 1 \in 1..n /\ (k + 1) - 1 = k /\ k \in 0..n /\ k + 1 \in 0..n
      BY <2>1
    <2>3. Len(c[k]) = Len(d[k]) /\ (k >= i => c[k] # d[k])
      BY <2>2
    <2>4. Len(v[k + 1]) = Len(w[k + 1])
      BY <2>2 DEF changedAt
    <2>5. Len(c[k + 1]) = Len(d[k + 1])
      <3>1. /\ Len(c[k + 1]) = Len(c[k]) + Len(v[k + 1])
            /\ Len(d[k + 1]) = Len(d[k]) + Len(w[k + 1])
        BY <1>0, <2>2
      <3> QED
        BY <2>3, <2>4, <3>1
    <2>6. ASSUME c[k + 1] = d[k + 1] PROVE c[k] = d[k] /\ v[k + 1] = w[k + 1]
      <3>1. /\ c[k + 1] = c[k] \o v[k + 1] /\ d[k + 1] = d[k] \o w[k + 1]
            /\ c[k] \in Seq(STRING) /\ d[k] \in Seq(STRING)
            /\ v[k + 1] \in Seq(STRING) /\ w[k + 1] \in Seq(STRING)
        BY <2>2 DEF joins
      <3> DEFINE a == c[k]
                 b == d[k]
                 x == v[k + 1]
                 y == w[k + 1]
      <3>2. Len(a) = Len(b) /\ a \o x = b \o y
        BY <2>3, <2>6, <3>1
      <3>3. a \in Seq(STRING) /\ b \in Seq(STRING) /\ x \in Seq(STRING) /\ y \in Seq(STRING)
        BY <3>1
      <3> HIDE DEF D, a, b, x, y
      <3>4. a = b /\ x = y
        BY ONLY <3>2, <3>3, SameCut
      <3> QED
        BY <3>4 DEF a, b, x, y
    <2>7. i = k + 1 => v[k + 1] # w[k + 1]
      BY DEF changedAt
    <2>8. k + 1 >= i => k >= i \/ i = k + 1
      BY <1>1
    <2> QED
      BY <2>3, <2>5, <2>6, <2>7, <2>8
  <1>4. D = Nat
    <2>1. D \in SUBSET Nat
      OBVIOUS
    <2> HIDE DEF D
    <2> QED
      BY <1>2, <1>3, <2>1, NaturalSets
  <1> QED
    BY <1>1, <1>4

LEMMA ChangeShows ==
  ASSUME NEW n \in Nat, NEW c, NEW d, NEW v, NEW w, joins(n, c, v), joins(n, d, w),
         NEW old, NEW new, NEW i, changedAt(n, v, w, old, new, i)
  PROVE  c[n] # d[n]
  <1>1. changedAt(n, w, v, new, old, i)
    BY DEF changedAt
  <1>2. Len(old) \in Nat /\ Len(new) \in Nat
    <2>1. i \in 1..n /\ v[i] = old /\ w[i] = new
      BY DEF changedAt
    <2>2. measured(n, c, v) /\ measured(n, d, w)
      BY JoinedLengths, Zenon
    <2> QED
      BY <2>1, <2>2 DEF measured
  <1>3. Len(old) < Len(new) \/ Len(new) < Len(old) \/ Len(old) = Len(new)
    BY <1>2
  <1>4. CASE Len(old) < Len(new)
    BY <1>4, LongerText
  <1>5. CASE Len(new) < Len(old)
    <2>1. d[n] # c[n]
      BY <1>1, <1>5, LongerText
    <2> QED
      BY <2>1
  <1>6. CASE Len(old) = Len(new)
    BY <1>6, TextAsLong
  <1> QED
    BY <1>3, <1>4, <1>5, <1>6
(* The pieces of a concatenation.                                             *)
pieces(data, paths) == [k \in 1..Len(paths) |-> resolveProperty(data, paths[k])]

LEMMA Pieces ==
  ASSUME NEW data, NEW paths \in Seq(Paths),
         \A path \in Paths : resolveProperty(data, path) \in Seq(STRING)
  PROVE  \E c : /\ joins(Len(paths), c, pieces(data, paths))
                /\ concatenated(data, paths) = c[Len(paths)]
  <1>1. PICK c : chained(c, data, paths) /\ concatenated(data, paths) = c[Len(paths)]
    BY Chain
  <1>2. \A k \in 1..Len(paths) : paths[k] \in Paths
    BY ElementOfSeq
  <1>3. pieces(data, paths) \in [1..Len(paths) -> Seq(STRING)]
    BY <1>2 DEF pieces
  <1>4. joins(Len(paths), c, pieces(data, paths))
    BY <1>1, <1>3 DEF joins, chained, pieces
  <1> QED
    BY <1>1, <1>4

LEMMA TextOfValue ==
  /\ \A value \in Values : textOf(value) \in Seq(STRING)
  /\ \A k \in {"string", "number"}, t \in Texts :
       textOf(scalar(k, t)) = t /\ scalar(k, t) \in Values
  <1>1. ASSUME NEW k \in {"string", "number"}, NEW t \in Texts
        PROVE  textOf(scalar(k, t)) = t /\ scalar(k, t) \in Values
    BY DEF Values, textOf, scalar
  <1>2. textOf(nullValue) = <<>> /\ textOf(undefinedValue) = <<>>
    BY DEF textOf, nullValue, undefinedValue
  <1>3. ASSUME NEW value \in Values PROVE textOf(value) \in Seq(STRING)
    <2>1. CASE \E k \in {"string", "number"}, t \in Texts : value = scalar(k, t)
      BY <1>1, <2>1, IntakeAssumption
    <2>2. CASE value \in {nullValue, undefinedValue}
      BY <1>2, <2>2, EmptySeq
    <2> QED
      BY <2>1, <2>2 DEF Values
  <1> QED
    BY <1>1, <1>3

LEMMA ListedTexts ==
  ASSUME NEW id \in Values, NEW status \in Values, NEW path \in Paths
  PROVE  resolveProperty(transactionData(id, status), path) \in Seq(STRING)
  <1> DEFINE data == transactionData(id, status)
  <1>1. textOf(id) \in Seq(STRING) /\ textOf(status) \in Seq(STRING) /\ <<>> \in Seq(STRING)
    BY TextOfValue, EmptySeq
  <1>2. /\ resolveProperty(data, idPath) = textOf(id)
        /\ resolveProperty(data, statusPath) = textOf(status)
        /\ resolveProperty(data, <<"transaction">>) = <<>>
        /\ resolveProperty(data, <<"transaction", "amount">>) = <<>>
    BY Resolved
  <1> HIDE DEF data
  <1>3. \/ path = idPath \/ path = statusPath
        \/ path = <<"transaction">> \/ path = <<"transaction", "amount">>
    BY DEF Paths
  <1>4. resolveProperty(data, path) \in Seq(STRING)
    BY <1>1, <1>2, <1>3, Zenon
  <1> QED
    BY <1>4 DEF data

LEMMA Signable ==
  ASSUME NEW id \in Values, NEW status \in Values, NEW paths \in Seq(Paths)
  PROVE  concatenated(transactionData(id, status), paths) \in Seq(STRING)
  <1> DEFINE data == transactionData(id, status)
  <1>1. \A path \in Paths : resolveProperty(data, path) \in Seq(STRING)
    BY ListedTexts
  <1> HIDE DEF data
  <1>2. PICK c : /\ joins(Len(paths), c, pieces(data, paths))
                 /\ concatenated(data, paths) = c[Len(paths)]
    BY <1>1, Pieces
  <1>3. Len(paths) \in 0..Len(paths)
    BY LenProperties
  <1> QED
    BY <1>2, <1>3 DEF joins, data

(* Two transactions that differ in one listed text are signed differently.    *)
LEMMA OtherTextOtherWhole ==
  ASSUME NEW id \in Values, NEW status \in Values, NEW id2 \in Values, NEW status2 \in Values,
         NEW paths \in Seq(Paths), NEW i \in 1..Len(paths),
         \/ paths[i] = idPath /\ status2 = status /\ textOf(id2) # textOf(id)
         \/ paths[i] = statusPath /\ id2 = id /\ textOf(status2) # textOf(status)
  PROVE  concatenated(transactionData(id, status), paths)
           # concatenated(transactionData(id2, status2), paths)
  <1> DEFINE one == transactionData(id, status)
             two == transactionData(id2, status2)
             n == Len(paths)
  <1>1. \A path \in Paths :
          path \in {idPath, statusPath, <<"transaction">>, <<"transaction", "amount">>}
    BY DEF Paths
  <1>2. /\ resolveProperty(one, idPath) = textOf(id)
        /\ resolveProperty(one, statusPath) = textOf(status)
        /\ resolveProperty(one, <<"transaction">>) = <<>>
        /\ resolveProperty(one, <<"transaction", "amount">>) = <<>>
    BY Resolved
  <1>3. /\ resolveProperty(two, idPath) = textOf(id2)
        /\ resolveProperty(two, statusPath) = textOf(status2)
        /\ resolveProperty(two, <<"transaction">>) = <<>>
        /\ resolveProperty(two, <<"transaction", "amount">>) = <<>>
    BY Resolved
  <1> HIDE DEF one, two
  <1>4. /\ \A path \in Paths : resolveProperty(one, path) \in Seq(STRING)
        /\ \A path \in Paths : resolveProperty(two, path) \in Seq(STRING)
    BY ListedTexts DEF one, two
  <1>5. PICK c : joins(n, c, pieces(one, paths)) /\ concatenated(one, paths) = c[n]
    BY <1>4, Pieces
  <1>6. PICK d : joins(n, d, pieces(two, paths)) /\ concatenated(two, paths) = d[n]
    BY <1>4, Pieces
  <1>7. n \in Nat /\ \A k \in 1..n : paths[k] \in Paths
    BY LenProperties, ElementOfSeq
  <1>8. changedAt(n, pieces(one, paths), pieces(two, paths),
                  resolveProperty(one, paths[i]), resolveProperty(two, paths[i]), i)
    <2>1. resolveProperty(one, paths[i]) # resolveProperty(two, paths[i])
      BY <1>2, <1>3
    <2>2. ASSUME NEW k \in 1..n
          PROVE  \/ resolveProperty(two, paths[k]) = resolveProperty(one, paths[k])
                 \/ /\ resolveProperty(one, paths[k]) = resolveProperty(one, paths[i])
                    /\ resolveProperty(two, paths[k]) = resolveProperty(two, paths[i])
      <3>1. paths[k] \in {idPath, statusPath, <<"transaction">>, <<"transaction", "amount">>}
        BY <1>1, <1>7
      <3> QED
        BY <1>2, <1>3, <3>1
    <2> QED
      BY <2>1, <2>2 DEF changedAt, pieces
  <1>9. c[n] # d[n]
    BY <1>5, <1>6, <1>7, <1>8, ChangeShows
  <1> QED
    BY <1>5, <1>6, <1>9 DEF one, two

(* An event with the timestamp and the checksum of a valid one is not valid   *)
(* unless the same text was signed.                                           *)
LEMMA SignedTheSame ==
  ASSUME NEW event, NEW other, NEW paths,
         event.paths = paths, other.paths = paths,
         event.timestamp = Timestamp, other.timestamp = Timestamp,
         other.checksum = event.checksum,
         verifySignature(event, Secret) = "valid", verifySignature(other, Secret) = "valid",
         concatenated(event.data, paths) \in Seq(STRING),
         concatenated(other.data, paths) \in Seq(STRING)
  PROVE  concatenated(event.data, paths) = concatenated(other.data, paths)
  <1>1. /\ isValid(buildChecksum(event.data, paths, Timestamp, Secret), event.checksum) = "valid"
        /\ isValid(buildChecksum(other.data, paths, Timestamp, Secret), event.checksum) = "valid"
    BY DEF verifySignature
  <1>2. \A e : isValid(e, event.checksum) = "valid" => e = event.checksum.digestOf
    BY DEF isValid
  <1>3. buildChecksum(event.data, paths, Timestamp, Secret)
          = buildChecksum(other.data, paths, Timestamp, Secret)
    BY <1>1, <1>2
  <1> DEFINE a == concatenated(event.data, paths)
             b == concatenated(other.data, paths)
  <1>4. (a \o Timestamp) \o Secret = (b \o Timestamp) \o Secret
    BY <1>3 DEF buildChecksum
  <1> HIDE DEF a, b
  <1>5. Timestamp \in Seq(STRING) /\ Secret \in Seq(STRING)
    BY IntakeAssumption
  <1>6. a \in Seq(STRING) /\ b \in Seq(STRING)
    BY DEF a, b
  <1>7. a \o Timestamp \in Seq(STRING) /\ b \o Timestamp \in Seq(STRING)
    BY <1>5, <1>6, ConcatProperties
  <1>8. \A s, t, u \in Seq(STRING) : s \o u = t \o u => s = t
    BY Cancelled
  <1>9. a \o Timestamp = b \o Timestamp
    BY <1>4, <1>5, <1>7, <1>8, Zenon
  <1>10. a = b
    BY <1>5, <1>6, <1>8, <1>9, Zenon
  <1> QED
    BY <1>10 DEF a, b
LEMMA ReplacedData ==
  ASSUME NEW id, NEW status, NEW value, NEW paths, NEW properties, NEW missing, NEW f, NEW genuine
  PROVE  LET event == eventOf(transactionData(id, status), paths, properties, missing, f, genuine)
         IN \A path \in {idPath, statusPath} :
              LET other == replaced(event, path, value) IN
              /\ other.paths = event.paths /\ other.timestamp = event.timestamp
              /\ other.checksum = event.checksum
              /\ other.data = IF path = idPath THEN transactionData(value, status)
                                               ELSE transactionData(id, value)
  <1> DEFINE event == eventOf(transactionData(id, status), paths, properties, missing, f, genuine)
  <1>1. idPath[2] = "id" /\ statusPath[2] = "status" /\ idPath # statusPath
    BY DEF idPath, statusPath
  <1>2. event.data = transactionData(id, status)
    BY DEF eventOf
  <1>3. ASSUME NEW path \in {idPath, statusPath}
        PROVE  LET other == replaced(event, path, value) IN
               /\ other.paths = event.paths /\ other.timestamp = event.timestamp
               /\ other.checksum = event.checksum
    BY DEF replaced, eventOf
  <1>4. replaced(event, idPath, value).data = transactionData(value, status)
    BY <1>1 DEF replaced, eventOf, transactionData, object
  <1>5. replaced(event, statusPath, value).data = transactionData(id, value)
    BY <1>1 DEF replaced, eventOf, transactionData, object
  <1>6. ASSUME NEW path \in {idPath, statusPath}
        PROVE  replaced(event, path, value).data
                 = IF path = idPath THEN transactionData(value, status)
                                    ELSE transactionData(id, value)
    <2> HIDE DEF event
    <2> QED
      BY <1>1, <1>4, <1>5
  <1> QED
    BY <1>3, <1>6

(* No admitted event, signed over whatever list of properties, survives       *)
(* another text in place of one of the listed values (resolveProperty,        *)
(* buildChecksum, isValid).                                                   *)
THEOREM OneChangeIsAlwaysNoticed == Spec => []OneChangeIsNoticed
  <1>1. SignedInv => OneChangeIsNoticed
    <2> SUFFICES ASSUME SignedInv, stage = "admitted", request.kind = "event",
                        NEW i \in DOMAIN request.event.paths,
                        request.event.paths[i] \in {idPath, statusPath},
                        request.event.data # undefinedValue,
                        NEW k \in {"string", "number"}, NEW t \in Texts,
                        t # resolveProperty(request.event.data, request.event.paths[i]),
                        verifySignature(replaced(request.event, request.event.paths[i],
                                                 scalar(k, t)), Secret) = "valid"
                 PROVE  FALSE
      BY DEF OneChangeIsNoticed
    <2>1. request.event \in WebhookEvents
      BY DEF SignedInv, PassedInv, requestsMade, Checkouts, PaymentRequests, EventRequests
    <2>2. PICK id \in Values, status \in Values, paths \in PathLists, f \in ChecksumForms,
               genuine \in BOOLEAN :
            request.event = eventOf(transactionData(id, status), paths, "list", {}, f, genuine)
      <3> DEFINE listed(e) ==
                   \E id \in Values, status \in Values, paths \in PathLists, f \in ChecksumForms,
                      genuine \in BOOLEAN :
                     e = eventOf(transactionData(id, status), paths, "list", {}, f, genuine)
                 textual(e) ==
                   \E properties \in {"list", "text"}, missing \in SUBSET SignatureParts,
                      genuine \in BOOLEAN :
                     e = eventOf(undefinedValue, <<idPath>>, properties, missing, "lowerHex",
                                 genuine)
                 One == {eventOf(transactionData(id, status), paths, "list", {}, f, genuine) :
                           id \in Values, status \in Values, paths \in PathLists,
                           f \in ChecksumForms, genuine \in BOOLEAN}
                 Two == {eventOf(undefinedValue, <<idPath>>, properties, missing, "lowerHex",
                                 genuine) :
                           properties \in {"list", "text"}, missing \in SUBSET SignatureParts,
                           genuine \in BOOLEAN}
      <3>1. \A e \in WebhookEvents : listed(e) \/ textual(e)
        <4>1. \A e \in One : listed(e)
          OBVIOUS
        <4>2. \A e \in Two : textual(e)
          OBVIOUS
        <4>3. WebhookEvents = One \cup Two
          BY DEF WebhookEvents
        <4> HIDE DEF One, Two, listed, textual
        <4> QED
          BY <4>1, <4>2, <4>3
      <3>2. \A p, q, m, f, g : eventOf(undefinedValue, p, q, m, f, g).data = undefinedValue
        BY DEF eventOf
      <3>3. ~textual(request.event)
        <4> SUFFICES ASSUME textual(request.event) PROVE FALSE
          OBVIOUS
        <4>1. PICK properties \in {"list", "text"}, missing \in SUBSET SignatureParts,
                   genuine \in BOOLEAN :
                request.event = eventOf(undefinedValue, <<idPath>>, properties, missing, "lowerHex",
                                        genuine)
          OBVIOUS
        <4>2. request.event.data = undefinedValue
          BY <3>2, <4>1, Zenon
        <4> QED
          BY <4>2
      <3>4. listed(request.event)
        <4> HIDE DEF listed, textual
        <4> QED
          BY <2>1, <3>1, <3>3
      <3> QED
        BY <3>4
    <2> DEFINE event == request.event
               value == scalar(k, t)
               path == paths[i]
               other == replaced(event, path, value)
    <2>3. /\ event.paths = paths /\ event.timestamp = Timestamp
          /\ event.data = transactionData(id, status)
      BY <2>2 DEF eventOf
    <2>4. paths \in Seq(Paths) /\ i \in 1..Len(paths) /\ path \in {idPath, statusPath}
      <3>1. paths \in Seq(Paths)
        BY IntakeAssumption
      <3> QED
        BY <2>3, <3>1, LenProperties
    <2>5. verifySignature(event, Secret) = "valid"
      BY DEF SignedInv, isEvent
    <2>6. verifySignature(other, Secret) = "valid"
      BY <2>3
    <2>7. value \in Values /\ textOf(value) = t
      BY TextOfValue
    <2>8. /\ other.paths = paths /\ other.timestamp = Timestamp /\ other.checksum = event.checksum
          /\ other.data = IF path = idPath THEN transactionData(value, status)
                                           ELSE transactionData(id, value)
      <3> HIDE DEF value
      <3> QED
        BY <2>2, <2>3, <2>4, ReplacedData
    <2>9. \A x \in Values, y \in Values :
            concatenated(transactionData(x, y), paths) \in Seq(STRING)
      BY <2>4, Signable
    <2>10. concatenated(event.data, paths) = concatenated(other.data, paths)
      <3>1. /\ concatenated(event.data, paths) \in Seq(STRING)
            /\ concatenated(other.data, paths) \in Seq(STRING)
        BY <2>3, <2>7, <2>8, <2>9
      <3> HIDE DEF event, other
      <3> QED
        BY <2>3, <2>5, <2>6, <2>8, <3>1, SignedTheSame
    <2> HIDE DEF event, other, value
    <2>11. CASE path = idPath
      <3>1. t # textOf(id)
        BY <2>3, <2>11, Resolved DEF event
      <3>2. concatenated(transactionData(id, status), paths)
              # concatenated(transactionData(value, status), paths)
        BY <2>4, <2>7, <2>11, <3>1, OtherTextOtherWhole
      <3> QED
        BY <2>3, <2>8, <2>10, <2>11, <3>2
    <2>12. CASE path = statusPath
      <3>1. t # textOf(status) /\ idPath # statusPath
        BY <2>3, <2>12, Resolved DEF event, idPath, statusPath
      <3>2. concatenated(transactionData(id, status), paths)
              # concatenated(transactionData(id, value), paths)
        BY <2>4, <2>7, <2>12, <3>1, OtherTextOtherWhole
      <3> QED
        BY <2>3, <2>8, <2>10, <2>12, <3>1, <3>2
    <2> QED
      BY <2>4, <2>11, <2>12
  <1> QED
    BY <1>1, Signed, PTL
=============================================================================
