--------------------------- MODULE G6tsInit_proofs ---------------------------
(***************************************************************************)
(* The attempt of G6tsInit for any profiles, configurations, defects and   *)
(* limits, and a wire of any length: input opens only behind the whole     *)
(* chronology, a pause stands at its boundary, and no attempt succeeds on  *)
(* the answer to an older request.                                         *)
(***************************************************************************)
EXTENDS G6tsInit, SequenceTheorems, TLAPS

USE DEF panelVars, attemptVars, gateVars, policyVars

-----------------------------------------------------------------------------
(* The chronology.                                                         *)

(* What the panel is asked for and answers.                                *)
Asks == {"device", "report", "set05", "get70", "set70", "set56", "get73",
         "get06", "a0", "get60", "cfu"}

OwnerAt(k) == IF k <= 4 \/ k = 7 THEN "none"
              ELSE IF k <= 6 THEN "feedback"
              ELSE IF k <= 10 THEN "config" ELSE "cfu"

LEMMA ParityChronology ==
  ASSUME profile.parity
  PROVE  /\ Len(Chronology) = 16 /\ DOMAIN Chronology = 1 .. 16
         /\ Chronology[1].reply = "device" /\ Chronology[2].reply = "report"
         /\ \A k \in 1 .. 16 : Chronology[k].reply \in Asks \cup {"none"}
         /\ \A k \in 1 .. 16 : Chronology[k].owner = OwnerAt(k)
         /\ \A k \in 1 .. 16 : Chronology[k].stage = "cfu-offer" <=> k = 14
<1>1. Len(Chronology) = 16 /\ DOMAIN Chronology = 1 .. 16
  BY DEF Chronology, Enumeration, AttachSteps, InventorySteps
<1>2. /\ \A k \in 1 .. 2 : Chronology[k] = Enumeration[k]
      /\ \A k \in 3 .. 10 : Chronology[k] = AttachSteps[k - 2]
      /\ \A k \in 11 .. 16 : Chronology[k] = InventorySteps[k - 10]
  <2>1. \A k \in 1 .. 2 : Chronology[k] = Enumeration[k]
    BY DEF Chronology, Enumeration, AttachSteps, InventorySteps
  <2>2. \A k \in 3 .. 10 : Chronology[k] = AttachSteps[k - 2]
    BY DEF Chronology, Enumeration, AttachSteps, InventorySteps
  <2>3. \A k \in 11 .. 16 : Chronology[k] = InventorySteps[k - 10]
    BY DEF Chronology, Enumeration, AttachSteps, InventorySteps
  <2> QED
    BY <2>1, <2>2, <2>3
<1>3. /\ Enumeration[1].reply = "device" /\ Enumeration[2].reply = "report"
      /\ \A k \in 1 .. 2 : /\ Enumeration[k].owner = "none"
                           /\ Enumeration[k].stage # "cfu-offer"
  BY DEF Enumeration, Step
<1>4. /\ \A k \in 1 .. 8 : AttachSteps[k].reply \in Asks \cup {"none"}
      /\ \A k \in 1 .. 8 : AttachSteps[k].owner = OwnerAt(k + 2)
      /\ \A k \in 1 .. 8 : AttachSteps[k].stage # "cfu-offer"
  BY DEF AttachSteps, Feature, Step, Asks, OwnerAt
<1>5. /\ \A k \in 1 .. 6 : InventorySteps[k].reply \in Asks
      /\ \A k \in 1 .. 6 : InventorySteps[k].owner = "cfu"
      /\ \A k \in 1 .. 6 : InventorySteps[k].stage = "cfu-offer" <=> k = 4
  BY DEF InventorySteps, Feature, Step, Asks
<1>6. ASSUME NEW k \in 1 .. 16
      PROVE  \/ k \in 1 .. 2
             \/ k \in 3 .. 10 /\ k - 2 \in 1 .. 8 /\ k = (k - 2) + 2
             \/ k \in 11 .. 16 /\ k - 10 \in 1 .. 6
  <2>1. k \in Int /\ 1 <= k /\ k <= 16
    OBVIOUS
  <2>2. CASE k <= 2
    BY <2>1, <2>2
  <2>3. CASE 3 <= k /\ k <= 10
    BY <2>1, <2>3
  <2>4. CASE 11 <= k
    BY <2>1, <2>4
  <2> QED
    BY <2>1, <2>2, <2>3, <2>4
<1>7. \A k \in 1 .. 16 : Chronology[k].reply \in Asks \cup {"none"}
  BY <1>2, <1>3, <1>4, <1>5, <1>6 DEF Asks
<1>8. \A k \in 1 .. 16 : Chronology[k].stage = "cfu-offer" <=> k = 14
  BY <1>2, <1>3, <1>4, <1>5, <1>6
<1>9. \A k \in 1 .. 16 : Chronology[k].owner = OwnerAt(k)
  BY <1>2, <1>3, <1>4, <1>5, <1>6 DEF OwnerAt
<1> QED
  BY <1>1, <1>2, <1>3, <1>7, <1>8, <1>9

LEMMA LinuxChronology ==
  ASSUME ~profile.parity, profile.fix \in BOOLEAN
  PROVE  /\ Len(Chronology) \in {6, 7} /\ DOMAIN Chronology = 1 .. Len(Chronology)
         /\ Chronology[1].reply = "device" /\ Chronology[2].reply = "report"
         /\ \A k \in DOMAIN Chronology :
              /\ Chronology[k].reply \in Asks \cup {"none"}
              /\ Chronology[k].reply = "get70" <=> k = 4
              /\ Chronology[k].stage = "set-feature70" => k > 4
              /\ Chronology[k].stage # "cfu-offer"
<1>1. Len(LinuxSteps(profile.fix)) = IF profile.fix THEN 5 ELSE 4
  BY DEF LinuxSteps
<1>2. /\ Len(Chronology) = 2 + Len(LinuxSteps(profile.fix))
      /\ DOMAIN Chronology = 1 .. Len(Chronology)
  BY DEF Chronology, Enumeration, LinuxSteps
<1>3. /\ \A k \in 1 .. 2 : Chronology[k] = Enumeration[k]
      /\ \A k \in 3 .. Len(Chronology) : Chronology[k] = LinuxSteps(profile.fix)[k - 2]
  BY DEF Chronology, Enumeration, LinuxSteps
<1>4. /\ Enumeration[1].reply = "device" /\ Enumeration[2].reply = "report"
      /\ \A k \in 1 .. 2 : Enumeration[k].stage \notin {"cfu-offer", "set-feature70"}
  BY DEF Enumeration, Step
<1>5. \A k \in 1 .. Len(LinuxSteps(profile.fix)) :
        /\ LinuxSteps(profile.fix)[k].reply \in Asks \cup {"none"}
        /\ LinuxSteps(profile.fix)[k].reply = "get70" <=> k = 2
        /\ LinuxSteps(profile.fix)[k].stage = "set-feature70" => k > 2
        /\ LinuxSteps(profile.fix)[k].stage # "cfu-offer"
  BY DEF LinuxSteps, Feature, Step, Asks
<1>6. ASSUME NEW k \in DOMAIN Chronology
      PROVE  /\ Chronology[k].reply \in Asks \cup {"none"}
             /\ Chronology[k].reply = "get70" <=> k = 4
             /\ Chronology[k].stage = "set-feature70" => k > 4
             /\ Chronology[k].stage # "cfu-offer"
  <2>1. CASE k <= 2
    <3>1. k = 1 \/ k = 2
      BY <1>1, <1>2, <2>1
    <3> QED
      BY <1>3, <1>4, <3>1 DEF Asks
  <2>2. CASE k > 2
    <3>1. k \in 3 .. Len(Chronology) /\ k - 2 \in 1 .. Len(LinuxSteps(profile.fix))
      BY <1>1, <1>2, <2>2
    <3> QED
      BY <1>1, <1>2, <1>3, <1>5, <3>1
  <2> QED
    BY <1>1, <1>2, <2>1, <2>2
<1>7. Chronology[1].reply = "device" /\ Chronology[2].reply = "report"
  BY <1>3, <1>4
<1> QED
  BY <1>1, <1>2, <1>6, <1>7

(* What both chronologies have in common.                                  *)
LEMMA EveryChronology ==
  ASSUME profile.parity \in BOOLEAN, profile.fix \in BOOLEAN
  PROVE  /\ Len(Chronology) \in 6 .. 16 /\ DOMAIN Chronology = 1 .. Len(Chronology)
         /\ Chronology[1].reply = "device" /\ Chronology[2].reply = "report"
         /\ \A k \in DOMAIN Chronology :
              /\ Chronology[k].reply \in Asks \cup {"none"}
              /\ Chronology[k].stage = "cfu-offer" => k = 14 /\ profile.parity
<1>1. CASE profile.parity
  <2>1. Len(Chronology) = 16 /\ Len(Chronology) \in 6 .. 16 /\ DOMAIN Chronology = 1 .. 16
    BY <1>1, ParityChronology
  <2> QED
    BY <1>1, <2>1, ParityChronology
<1>2. CASE ~profile.parity
  BY <1>2, LinuxChronology
<1> QED
  BY <1>1, <1>2

(* The step before the first one of an owner, which is the only step that  *)
(* has another owner and is followed by one of this owner.                 *)
LEMMA LastBeforeOwner ==
  ASSUME profile.parity, NEW k \in 1 .. 15,
         Chronology[k + 1].owner # "none",
         Chronology[k].owner # Chronology[k + 1].owner
  PROVE  LastBefore(Chronology[k + 1].owner) = k
<1> DEFINE owner == Chronology[k + 1].owner
           First(j) == /\ j < 16 /\ Chronology[j].owner # owner
                       /\ Chronology[j + 1].owner = owner
<1>1. k \in 1 .. 16 /\ k + 1 \in 1 .. 16 /\ Chronology[k].owner = OwnerAt(k)
        /\ owner = OwnerAt(k + 1)
  BY ParityChronology
<1>2. owner \notin {"none", "heat", "branch"}
  BY <1>1 DEF OwnerAt
<1>3. ASSUME NEW j \in 1 .. 16, First(j)
      PROVE  j = k
  <2>1. j + 1 \in 1 .. 16 /\ Chronology[j].owner = OwnerAt(j)
          /\ Chronology[j + 1].owner = OwnerAt(j + 1)
    BY <1>3, ParityChronology
  <2> QED
    BY <1>1, <1>2, <1>3, <2>1 DEF OwnerAt
<1>4. First(k)
  BY <1>1
<1>5. LastBefore(owner) = CHOOSE j \in 1 .. 16 : First(j)
  BY <1>2, ParityChronology DEF LastBefore
<1> HIDE DEF First
<1> QED
  BY <1>1, <1>3, <1>4, <1>5

LEMMA LastBeforeBranch ==
  ASSUME profile.parity
  PROVE  LastBefore("branch") = 14
<1>1. \A k \in 1 .. 16 : Chronology[k].stage = "cfu-offer" <=> k = 14
  BY ParityChronology
<1>2. LastBefore("branch") = CHOOSE k \in 1 .. 16 : Chronology[k].stage = "cfu-offer"
  BY ParityChronology DEF LastBefore
<1> QED
  BY <1>1, <1>2

-----------------------------------------------------------------------------
(* The pipe: what is still to be answered and what the panel offers, in    *)
(* the order in which the host will meet it: w first, then a.              *)

Replies == Asks \cup {"none", "ack09", "heat", "reset"}
Packets == [reply : Replies, len : {d[1] : d \in Defects} \cup {"exact"},
            content : {d[2] : d \in Defects} \cup Configs \cup {"good"},
            own : BOOLEAN]
Requests == [reply : Asks \cup {"none"}, own : BOOLEAN]

Solicited(p) == p.reply \in Asks

(* No request is open, no answer is on its way.                            *)
Quiet(w, a) ==
  /\ \A i \in 1 .. Len(w) : ~Solicited(w[i])
  /\ \A i \in 1 .. Len(a) : ~Solicited(a[i])

(* One at most.                                                            *)
AtMostOne(w, a) ==
  /\ \A i, j \in 1 .. Len(w) : Solicited(w[i]) /\ Solicited(w[j]) => i = j
  /\ \A i, j \in 1 .. Len(a) : Solicited(a[i]) /\ Solicited(a[j]) => i = j
  /\ \A i \in 1 .. Len(w), j \in 1 .. Len(a) : ~(Solicited(w[i]) /\ Solicited(a[j]))

(* And that for the last request.                                          *)
OneOwn(w, a) ==
  /\ AtMostOne(w, a)
  /\ \A i \in 1 .. Len(w) : Solicited(w[i]) => w[i].own
  /\ \A i \in 1 .. Len(a) : Solicited(a[i]) => a[i].own

(* An older one may come before the one for the last request, the device   *)
(* descriptor, which does come unless the panel resets.                    *)
OldThenOwn(w, a) ==
  /\ \A i, j \in 1 .. Len(w) :
       Solicited(w[i]) /\ Solicited(w[j]) /\ i < j => ~w[i].own /\ w[j].own
  /\ \A i, j \in 1 .. Len(a) :
       Solicited(a[i]) /\ Solicited(a[j]) /\ i < j => ~a[i].own /\ a[j].own
  /\ \A i \in 1 .. Len(w), j \in 1 .. Len(a) :
       Solicited(w[i]) /\ Solicited(a[j]) => ~w[i].own /\ a[j].own
  /\ \A i \in 1 .. Len(w) : Solicited(w[i]) /\ w[i].own => w[i].reply = "device"
  /\ \A i \in 1 .. Len(a) : Solicited(a[i]) /\ a[i].own => a[i].reply = "device"
  /\ \/ \E i \in 1 .. Len(w) : w[i].reply = "reset" \/ (Solicited(w[i]) /\ w[i].own)
     \/ \E i \in 1 .. Len(a) : Solicited(a[i]) /\ a[i].own

(* What ends an attempt that waits for the report descriptor.              *)
Stops(p) == p.reply \in {"device", "reset"}

Comes(w, a) ==
  \/ \E i \in 1 .. Len(w) : Stops(w[i])
  \/ \E i \in 1 .. Len(a) : Stops(a[i])

(* It comes before any report descriptor.                                  *)
Blocked(w, a) ==
  /\ \A i \in 1 .. Len(w) : w[i].reply = "report" => \E j \in 1 .. i - 1 : Stops(w[j])
  /\ \A i \in 1 .. Len(a) : a[i].reply = "report" =>
       \/ \E j \in 1 .. Len(w) : Stops(w[j])
       \/ \E j \in 1 .. i - 1 : Stops(a[j])

(* The panel adds a packet that nobody asked for.                          *)
LEMMA UnaskedKeeps ==
  ASSUME NEW w \in Seq(Packets), NEW a \in Seq(Requests), NEW p \in Packets, ~Solicited(p)
  PROVE  /\ Quiet(w, a) => Quiet(Append(w, p), a)
         /\ AtMostOne(w, a) => AtMostOne(Append(w, p), a)
         /\ OneOwn(w, a) => OneOwn(Append(w, p), a)
         /\ OldThenOwn(w, a) => OldThenOwn(Append(w, p), a)
         /\ Comes(w, a) => Comes(Append(w, p), a)
         /\ Blocked(w, a) => Blocked(Append(w, p), a)
<1> DEFINE v == Append(w, p)
<1>1. /\ Len(v) = Len(w) + 1 /\ Len(w) \in Nat
      /\ \A i \in 1 .. Len(w) : v[i] = w[i]
      /\ v[Len(v)] = p
  OBVIOUS
<1>2. \A i \in 1 .. Len(v) : i \in 1 .. Len(w) \/ i = Len(v)
  BY <1>1
<1>3. \A i \in 1 .. Len(w) : i \in 1 .. Len(v)
  BY <1>1
<1> HIDE DEF v
<1>4. Quiet(w, a) => Quiet(v, a)
  BY <1>1, <1>2 DEF Quiet
<1>5. AtMostOne(w, a) => AtMostOne(v, a)
  BY <1>1, <1>2 DEF AtMostOne
<1>6. OneOwn(w, a) => OneOwn(v, a)
  BY <1>1, <1>2, <1>5 DEF OneOwn
<1>7. OldThenOwn(w, a) => OldThenOwn(v, a)
  BY <1>1, <1>2, <1>3 DEF OldThenOwn
<1>8. Comes(w, a) => Comes(v, a)
  BY <1>1, <1>3 DEF Comes
<1>9. Blocked(w, a) => Blocked(v, a)
  <2>1. p.reply # "report"
    BY DEF Solicited, Asks
  <2>2. ASSUME Blocked(w, a), NEW i \in 1 .. Len(v), v[i].reply = "report"
        PROVE  \E j \in 1 .. i - 1 : Stops(v[j])
    <3>1. i \in 1 .. Len(w) /\ w[i].reply = "report"
      BY <1>1, <1>2, <2>1, <2>2
    <3>2. PICK j \in 1 .. i - 1 : Stops(w[j])
      BY <2>2, <3>1 DEF Blocked
    <3>3. j \in 1 .. Len(w)
      BY <1>1, <3>1
    <3> QED
      BY <1>1, <3>2, <3>3
  <2>3. (\E j \in 1 .. Len(w) : Stops(w[j])) => \E j \in 1 .. Len(v) : Stops(v[j])
    BY <1>1, <1>3
  <2> QED
    BY <2>2, <2>3 DEF Blocked
<1> QED
  BY <1>4, <1>5, <1>6, <1>7, <1>8, <1>9 DEF v

(* The panel answers the oldest request.                                   *)
LEMMA AnswerKeeps ==
  ASSUME NEW w \in Seq(Packets), NEW a \in Seq(Requests), a # <<>>,
         NEW p \in Packets, p.reply = Head(a).reply, p.own = Head(a).own
  PROVE  /\ Quiet(w, a) => Quiet(Append(w, p), Tail(a))
         /\ AtMostOne(w, a) => AtMostOne(Append(w, p), Tail(a))
         /\ OneOwn(w, a) => OneOwn(Append(w, p), Tail(a))
         /\ OldThenOwn(w, a) => OldThenOwn(Append(w, p), Tail(a))
         /\ Comes(w, a) => Comes(Append(w, p), Tail(a))
         /\ Blocked(w, a) => Blocked(Append(w, p), Tail(a))
<1> DEFINE v == Append(w, p)
           b == Tail(a)
<1>1. /\ Len(v) = Len(w) + 1 /\ Len(w) \in Nat
      /\ \A i \in 1 .. Len(w) : v[i] = w[i] /\ i \in 1 .. Len(v)
      /\ v[Len(v)] = p /\ Len(v) \in 1 .. Len(v)
  OBVIOUS
<1>2. \A i \in 1 .. Len(v) : i \in 1 .. Len(w) \/ i = Len(v)
  BY <1>1
<1>3. /\ Len(a) = Len(b) + 1 /\ Len(b) \in Nat
      /\ \A i \in 1 .. Len(b) : b[i] = a[i + 1] /\ i + 1 \in 1 .. Len(a)
      /\ a[1].reply = p.reply /\ a[1].own = p.own /\ 1 \in 1 .. Len(a)
  OBVIOUS
<1>4. ASSUME NEW i \in 1 .. Len(a), i # 1
      PROVE  i - 1 \in 1 .. Len(b) /\ b[i - 1] = a[i]
  <2>1. i - 1 \in 1 .. Len(b) /\ (i - 1) + 1 = i
    BY <1>3, <1>4
  <2> QED
    BY <1>3, <2>1
<1> HIDE DEF v, b
<1>5. Solicited(p) <=> Solicited(a[1])
  BY <1>3 DEF Solicited
<1>6. Quiet(w, a) => Quiet(v, b)
  BY <1>1, <1>2, <1>3, <1>5 DEF Quiet
<1>7. AtMostOne(w, a) => AtMostOne(v, b)
  <2> SUFFICES ASSUME AtMostOne(w, a) PROVE AtMostOne(v, b)
    OBVIOUS
  <2>1. \A i, j \in 1 .. Len(v) : Solicited(v[i]) /\ Solicited(v[j]) => i = j
    BY <1>1, <1>2, <1>3, <1>5 DEF AtMostOne
  <2>2. \A i, j \in 1 .. Len(b) : Solicited(b[i]) /\ Solicited(b[j]) => i = j
    <3>1. \A i, j \in 1 .. Len(b) : i + 1 = j + 1 => i = j
      OBVIOUS
    <3> QED
      BY <1>3, <3>1 DEF AtMostOne
  <2>3. ASSUME NEW i \in 1 .. Len(b), Solicited(a[1])
        PROVE  ~Solicited(b[i])
    <3>1. i + 1 # 1
      OBVIOUS
    <3> QED
      BY <1>3, <2>3, <3>1 DEF AtMostOne
  <2>4. \A i \in 1 .. Len(v), j \in 1 .. Len(b) : ~(Solicited(v[i]) /\ Solicited(b[j]))
    BY <1>1, <1>2, <1>3, <1>5, <2>3 DEF AtMostOne
  <2> QED
    BY <2>1, <2>2, <2>4 DEF AtMostOne
<1>8. OneOwn(w, a) => OneOwn(v, b)
  BY <1>1, <1>2, <1>3, <1>5, <1>7 DEF OneOwn
<1>9. OldThenOwn(w, a) => OldThenOwn(v, b)
  <2> SUFFICES ASSUME OldThenOwn(w, a) PROVE OldThenOwn(v, b)
    OBVIOUS
  <2>1. ASSUME NEW i \in 1 .. Len(v), NEW j \in 1 .. Len(v),
               Solicited(v[i]), Solicited(v[j]), i < j
        PROVE  ~v[i].own /\ v[j].own
    <3>1. i \in 1 .. Len(w) /\ v[i] = w[i]
      BY <1>1, <1>2, <2>1
    <3>2. CASE j \in 1 .. Len(w)
      <4>1. v[j] = w[j]
        BY <1>1, <3>2
      <4> QED
        BY <2>1, <3>1, <3>2, <4>1 DEF OldThenOwn
    <3>3. CASE j = Len(v)
      <4>1. Solicited(a[1]) /\ v[j].own = a[1].own /\ 1 \in 1 .. Len(a)
        BY <1>1, <1>3, <1>5, <2>1, <3>3
      <4> QED
        BY <2>1, <3>1, <4>1 DEF OldThenOwn
    <3> QED
      BY <1>2, <3>2, <3>3
  <2>2. \A i, j \in 1 .. Len(b) :
          Solicited(b[i]) /\ Solicited(b[j]) /\ i < j => ~b[i].own /\ b[j].own
    BY <1>3 DEF OldThenOwn
  <2>3. \A j \in 1 .. Len(b) : Solicited(a[1]) /\ Solicited(b[j]) => ~a[1].own /\ b[j].own
    BY <1>3 DEF OldThenOwn
  <2>4. ASSUME NEW i \in 1 .. Len(v), NEW j \in 1 .. Len(b), Solicited(v[i]), Solicited(b[j])
        PROVE  ~v[i].own /\ b[j].own
    <3>1. CASE i \in 1 .. Len(w)
      <4>1. v[i] = w[i] /\ b[j] = a[j + 1] /\ j + 1 \in 1 .. Len(a)
        BY <1>1, <1>3, <3>1
      <4> QED
        BY <2>4, <3>1, <4>1 DEF OldThenOwn
    <3>2. CASE i = Len(v)
      BY <1>1, <1>3, <1>5, <2>3, <2>4, <3>2
    <3> QED
      BY <1>2, <3>1, <3>2
  <2>5. ASSUME NEW i \in 1 .. Len(v), Solicited(v[i]), v[i].own
        PROVE  v[i].reply = "device"
    <3>1. CASE i \in 1 .. Len(w)
      <4>1. v[i] = w[i]
        BY <1>1, <3>1
      <4> QED
        BY <2>5, <3>1, <4>1 DEF OldThenOwn
    <3>2. CASE i = Len(v)
      <4>1. Solicited(a[1]) /\ a[1].own /\ 1 \in 1 .. Len(a) /\ a[1].reply = v[i].reply
        BY <1>1, <1>3, <1>5, <2>5, <3>2
      <4> QED
        BY <4>1 DEF OldThenOwn
    <3> QED
      BY <1>2, <3>1, <3>2
  <2>6. \A i \in 1 .. Len(b) : Solicited(b[i]) /\ b[i].own => b[i].reply = "device"
    BY <1>3 DEF OldThenOwn
  <2>7. \/ \E i \in 1 .. Len(v) : v[i].reply = "reset" \/ (Solicited(v[i]) /\ v[i].own)
        \/ \E i \in 1 .. Len(b) : Solicited(b[i]) /\ b[i].own
    <3>1. CASE \E i \in 1 .. Len(w) : w[i].reply = "reset" \/ (Solicited(w[i]) /\ w[i].own)
      BY <1>1, <3>1
    <3>2. ASSUME NEW i \in 1 .. Len(a), Solicited(a[i]) /\ a[i].own
          PROVE  \/ \E j \in 1 .. Len(v) : Solicited(v[j]) /\ v[j].own
                 \/ \E j \in 1 .. Len(b) : Solicited(b[j]) /\ b[j].own
      <4>1. CASE i = 1
        BY <1>1, <1>3, <1>5, <3>2, <4>1
      <4>2. CASE i # 1
        BY <1>4, <3>2, <4>2
      <4> QED
        BY <4>1, <4>2
    <3> QED
      BY <3>1, <3>2 DEF OldThenOwn
  <2> QED
    BY <2>1, <2>2, <2>4, <2>5, <2>6, <2>7 DEF OldThenOwn
<1>10. Comes(w, a) => Comes(v, b)
  BY <1>1, <1>3, <1>4 DEF Comes, Stops
<1>11. Blocked(w, a) => Blocked(v, b)
  <2> SUFFICES ASSUME Blocked(w, a) PROVE Blocked(v, b)
    OBVIOUS
  <2>1. ASSUME NEW i \in 1 .. Len(v), v[i].reply = "report"
        PROVE  \E j \in 1 .. i - 1 : Stops(v[j])
    <3>1. CASE i \in 1 .. Len(w)
      <4>1. PICK j \in 1 .. i - 1 : Stops(w[j])
        BY <1>1, <2>1, <3>1 DEF Blocked
      <4>2. j \in 1 .. Len(w)
        BY <1>1, <3>1
      <4> QED
        BY <1>1, <4>1, <4>2
    <3>2. CASE i = Len(v)
      <4>1. a[1].reply = "report"
        BY <1>1, <1>3, <2>1, <3>2
      <4>2. PICK j \in 1 .. Len(w) : Stops(w[j])
        BY <1>3, <4>1 DEF Blocked
      <4>3. j \in 1 .. i - 1
        BY <1>1, <3>2
      <4> QED
        BY <1>1, <4>2, <4>3
    <3> QED
      BY <1>2, <3>1, <3>2
  <2>2. ASSUME NEW i \in 1 .. Len(b), b[i].reply = "report"
        PROVE  \/ \E j \in 1 .. Len(v) : Stops(v[j])
               \/ \E j \in 1 .. i - 1 : Stops(b[j])
    <3>1. \/ \E j \in 1 .. Len(w) : Stops(w[j])
          \/ \E j \in 1 .. (i + 1) - 1 : Stops(a[j])
      BY <1>3, <2>2 DEF Blocked
    <3>2. CASE \E j \in 1 .. Len(w) : Stops(w[j])
      BY <1>1, <3>2
    <3>3. ASSUME NEW j \in 1 .. i, Stops(a[j])
          PROVE  \/ \E k \in 1 .. Len(v) : Stops(v[k])
                 \/ \E k \in 1 .. i - 1 : Stops(b[k])
      <4>1. CASE j = 1
        BY <1>1, <1>3, <3>3, <4>1 DEF Stops
      <4>2. CASE j # 1
        <5>1. j - 1 \in 1 .. i - 1 /\ j \in 1 .. Len(a)
          BY <1>3, <4>2
        <5> QED
          BY <1>4, <3>3, <4>2, <5>1
      <4> QED
        BY <4>1, <4>2
    <3> QED
      BY <3>1, <3>2, <3>3
  <2> QED
    BY <2>1, <2>2 DEF Blocked
<1> QED
  BY <1>6, <1>7, <1>8, <1>9, <1>10, <1>11 DEF v, b

(* The request that is not answered at all.                                *)
LEMMA NoAnswerKeeps ==
  ASSUME NEW w \in Seq(Packets), NEW a \in Seq(Requests), a # <<>>, Head(a).reply = "none"
  PROVE  /\ Quiet(w, a) => Quiet(w, Tail(a))
         /\ AtMostOne(w, a) => AtMostOne(w, Tail(a))
         /\ OneOwn(w, a) => OneOwn(w, Tail(a))
         /\ OldThenOwn(w, a) => OldThenOwn(w, Tail(a))
         /\ Comes(w, a) => Comes(w, Tail(a))
         /\ Blocked(w, a) => Blocked(w, Tail(a))
<1> DEFINE b == Tail(a)
<1>1. /\ Len(a) = Len(b) + 1 /\ Len(b) \in Nat
      /\ \A i \in 1 .. Len(b) : b[i] = a[i + 1] /\ i + 1 \in 1 .. Len(a)
      /\ a[1].reply = "none"
  OBVIOUS
<1>2. ASSUME NEW i \in 1 .. Len(a), i # 1
      PROVE  i - 1 \in 1 .. Len(b) /\ b[i - 1] = a[i]
  <2>1. i - 1 \in 1 .. Len(b) /\ (i - 1) + 1 = i
    BY <1>1, <1>2
  <2> QED
    BY <1>1, <2>1
<1>3. ~Solicited(a[1]) /\ ~Stops(a[1])
  BY <1>1 DEF Solicited, Asks, Stops
<1> HIDE DEF b
<1>4. Quiet(w, a) => Quiet(w, b)
  BY <1>1 DEF Quiet
<1>5. AtMostOne(w, a) => AtMostOne(w, b)
  <2>1. \A i, j \in 1 .. Len(b) : i + 1 = j + 1 => i = j
    OBVIOUS
  <2> QED
    BY <1>1, <2>1 DEF AtMostOne
<1>6. OneOwn(w, a) => OneOwn(w, b)
  BY <1>1, <1>5 DEF OneOwn
<1>7. OldThenOwn(w, a) => OldThenOwn(w, b)
  <2> SUFFICES ASSUME OldThenOwn(w, a) PROVE OldThenOwn(w, b)
    OBVIOUS
  <2>1. \/ \E i \in 1 .. Len(w) : w[i].reply = "reset" \/ (Solicited(w[i]) /\ w[i].own)
        \/ \E i \in 1 .. Len(b) : Solicited(b[i]) /\ b[i].own
    BY <1>2, <1>3 DEF OldThenOwn
  <2>2. \A i, j \in 1 .. Len(b) : i < j => i + 1 < j + 1
    BY <1>1
  <2>3. \A i, j \in 1 .. Len(b) :
          Solicited(b[i]) /\ Solicited(b[j]) /\ i < j => ~b[i].own /\ b[j].own
    BY <1>1, <2>2 DEF OldThenOwn
  <2>4. /\ \A i \in 1 .. Len(w), j \in 1 .. Len(b) :
             Solicited(w[i]) /\ Solicited(b[j]) => ~w[i].own /\ b[j].own
        /\ \A i \in 1 .. Len(b) : Solicited(b[i]) /\ b[i].own => b[i].reply = "device"
    BY <1>1 DEF OldThenOwn
  <2> QED
    BY <2>1, <2>3, <2>4 DEF OldThenOwn
<1>8. Comes(w, a) => Comes(w, b)
  BY <1>2, <1>3 DEF Comes
<1>9. Blocked(w, a) => Blocked(w, b)
  <2> SUFFICES ASSUME Blocked(w, a), NEW i \in 1 .. Len(b), b[i].reply = "report",
                      ~ \E j \in 1 .. Len(w) : Stops(w[j])
               PROVE  \E j \in 1 .. i - 1 : Stops(b[j])
    BY DEF Blocked
  <2>1. PICK j \in 1 .. (i + 1) - 1 : Stops(a[j])
    BY <1>1 DEF Blocked
  <2>2. j # 1 /\ j - 1 \in 1 .. i - 1 /\ j \in 1 .. Len(a)
    BY <1>1, <1>3, <2>1
  <2> QED
    BY <1>2, <2>1, <2>2
<1> QED
  BY <1>4, <1>5, <1>6, <1>7, <1>8, <1>9 DEF b

(* The panel resets: it forgets the requests, not always what it offers.   *)
LEMMA ResetKeeps ==
  ASSUME NEW w \in Seq(Packets), NEW a \in Seq(Requests),
         NEW v \in {<<ResetPacket>>, Append(w, ResetPacket)}
  PROVE  /\ Quiet(w, a) => Quiet(v, <<>>)
         /\ AtMostOne(w, a) => AtMostOne(v, <<>>)
         /\ OneOwn(w, a) => OneOwn(v, <<>>)
         /\ OldThenOwn(w, a) => OldThenOwn(v, <<>>)
         /\ Comes(v, <<>>)
         /\ Blocked(w, a) => Blocked(v, <<>>)
<1>1. /\ ResetPacket \in Packets /\ ~Solicited(ResetPacket)
      /\ ResetPacket.reply = "reset"
  BY DEF ResetPacket, Packet, Packets, Replies, Solicited, Asks
<1>2. Len(<<>>) = 0
  OBVIOUS
<1>3. CASE v = <<ResetPacket>>
  <2>1. Len(v) = 1 /\ v[1] = ResetPacket
    BY <1>3
  <2>2. Quiet(v, <<>>) /\ AtMostOne(v, <<>>) /\ OneOwn(v, <<>>)
    BY <1>1, <1>2, <2>1 DEF Quiet, AtMostOne, OneOwn
  <2>3. OldThenOwn(v, <<>>)
    BY <1>1, <1>2, <2>1 DEF OldThenOwn
  <2>4. Comes(v, <<>>) /\ Blocked(v, <<>>)
    BY <1>1, <1>2, <2>1 DEF Comes, Blocked, Stops
  <2> QED
    BY <2>2, <2>3, <2>4
<1>4. CASE v = Append(w, ResetPacket)
  <2>1. /\ Len(v) = Len(w) + 1 /\ Len(w) \in Nat
        /\ \A i \in 1 .. Len(w) : v[i] = w[i] /\ i \in 1 .. Len(v)
        /\ v[Len(v)] = ResetPacket /\ Len(v) \in 1 .. Len(v)
    BY <1>4
  <2>2. \A i \in 1 .. Len(v) : i \in 1 .. Len(w) \/ i = Len(v)
    BY <2>1
  <2>3. Quiet(w, a) => Quiet(v, <<>>)
    BY <1>1, <1>2, <2>1, <2>2 DEF Quiet
  <2>4. AtMostOne(w, a) => AtMostOne(v, <<>>)
    BY <1>1, <1>2, <2>1, <2>2 DEF AtMostOne
  <2>5. OneOwn(w, a) => OneOwn(v, <<>>)
    BY <1>1, <1>2, <2>1, <2>2, <2>4 DEF OneOwn
  <2>6. ASSUME OldThenOwn(w, a)
        PROVE  OldThenOwn(v, <<>>)
    <3>1. \A i \in 1 .. Len(v) : Solicited(v[i]) => i \in 1 .. Len(w) /\ v[i] = w[i]
      BY <1>1, <2>1, <2>2
    <3>2. \A i, j \in 1 .. Len(v) :
            Solicited(v[i]) /\ Solicited(v[j]) /\ i < j => ~v[i].own /\ v[j].own
      BY <2>6, <3>1 DEF OldThenOwn
    <3>3. \A i \in 1 .. Len(v) : Solicited(v[i]) /\ v[i].own => v[i].reply = "device"
      BY <2>6, <3>1 DEF OldThenOwn
    <3> QED
      BY <1>1, <1>2, <2>1, <3>2, <3>3 DEF OldThenOwn
  <2>7. Comes(v, <<>>)
    BY <1>1, <2>1 DEF Comes, Stops
  <2>8. ASSUME Blocked(w, a), NEW i \in 1 .. Len(v), v[i].reply = "report"
        PROVE  \E j \in 1 .. i - 1 : Stops(v[j])
    <3>1. i \in 1 .. Len(w) /\ w[i].reply = "report"
      BY <1>1, <2>1, <2>2, <2>8
    <3>2. PICK j \in 1 .. i - 1 : Stops(w[j])
      BY <2>8, <3>1 DEF Blocked
    <3>3. j \in 1 .. Len(w)
      BY <2>1, <3>1
    <3> QED
      BY <2>1, <3>2, <3>3
  <2>9. Blocked(w, a) => Blocked(v, <<>>)
    BY <1>2, <2>8 DEF Blocked
  <2> QED
    BY <2>3, <2>4, <2>5, <2>6, <2>7, <2>9
<1> QED
  BY <1>3, <1>4

(* The host reads a packet.                                                *)
LEMMA ReadKeeps ==
  ASSUME NEW w \in Seq(Packets), NEW a \in Seq(Requests), w # <<>>
  PROVE  /\ Quiet(w, a) => ~Solicited(Head(w)) /\ Quiet(Tail(w), a)
         /\ OneOwn(w, a) => OneOwn(Tail(w), a)
         /\ OneOwn(w, a) /\ Solicited(Head(w)) => Head(w).own /\ Quiet(Tail(w), a)
         /\ OldThenOwn(w, a) /\ ~Stops(Head(w)) => OldThenOwn(Tail(w), a)
         /\ OldThenOwn(w, a) /\ Solicited(Head(w)) /\ Head(w).own => Quiet(Tail(w), a)
         /\ OldThenOwn(w, a) /\ Solicited(Head(w)) /\ ~Head(w).own =>
              Comes(Tail(w), a) /\ Blocked(Tail(w), a)
         /\ Blocked(w, a) => Head(w).reply # "report"
         /\ Blocked(w, a) /\ ~Stops(Head(w)) => Blocked(Tail(w), a)
<1> DEFINE v == Tail(w)
<1>1. /\ Len(w) = Len(v) + 1 /\ Len(v) \in Nat
      /\ \A i \in 1 .. Len(v) : v[i] = w[i + 1] /\ i + 1 \in 1 .. Len(w) /\ 1 < i + 1
      /\ Head(w) = w[1] /\ 1 \in 1 .. Len(w) /\ w[1] \in Packets
      /\ Len(a) \in Nat
  OBVIOUS
<1>2. ASSUME NEW i \in 1 .. Len(w), i # 1
      PROVE  i - 1 \in 1 .. Len(v) /\ v[i - 1] = w[i]
  <2>1. i - 1 \in 1 .. Len(v) /\ (i - 1) + 1 = i
    BY <1>1, <1>2
  <2> QED
    BY <1>1, <2>1
<1>3. /\ \A i, j \in 1 .. Len(v) : i + 1 = j + 1 => i = j
      /\ \A i, j \in 1 .. Len(v) : i < j => i + 1 < j + 1
      /\ \A i, j \in 1 .. Len(a) : i = j \/ i < j \/ j < i
      /\ \A i, j \in 1 .. Len(v) : i = j \/ i < j \/ j < i
  BY <1>1
<1> HIDE DEF v
<1>4. Quiet(w, a) => ~Solicited(Head(w)) /\ Quiet(v, a)
  BY <1>1 DEF Quiet
<1>5. OneOwn(w, a) => OneOwn(v, a)
  <2> SUFFICES ASSUME OneOwn(w, a) PROVE OneOwn(v, a)
    OBVIOUS
  <2>1. AtMostOne(v, a)
    BY <1>1, <1>3 DEF OneOwn, AtMostOne
  <2> QED
    BY <1>1, <2>1 DEF OneOwn
<1>6. OneOwn(w, a) /\ Solicited(Head(w)) => Head(w).own /\ Quiet(v, a)
  <2> SUFFICES ASSUME OneOwn(w, a), Solicited(Head(w)) PROVE Head(w).own /\ Quiet(v, a)
    OBVIOUS
  <2>1. \A i \in 1 .. Len(v) : 1 # i + 1
    BY <1>1
  <2> QED
    BY <1>1, <2>1 DEF OneOwn, AtMostOne, Quiet
<1>7. OldThenOwn(w, a) /\ ~Stops(Head(w)) => OldThenOwn(v, a)
  <2> SUFFICES ASSUME OldThenOwn(w, a), ~Stops(Head(w)) PROVE OldThenOwn(v, a)
    OBVIOUS
  <2>1. ASSUME NEW i \in 1 .. Len(v), NEW j \in 1 .. Len(v),
               Solicited(v[i]), Solicited(v[j]), i < j
        PROVE  ~v[i].own /\ v[j].own
    <3>1. /\ i + 1 \in 1 .. Len(w) /\ j + 1 \in 1 .. Len(w) /\ i + 1 < j + 1
          /\ v[i] = w[i + 1] /\ v[j] = w[j + 1]
      BY <1>1, <1>3, <2>1
    <3> QED
      BY <2>1, <3>1 DEF OldThenOwn
  <2>2. ASSUME NEW i \in 1 .. Len(v)
        PROVE  /\ \A j \in 1 .. Len(a) :
                    Solicited(v[i]) /\ Solicited(a[j]) => ~v[i].own /\ a[j].own
               /\ Solicited(v[i]) /\ v[i].own => v[i].reply = "device"
    <3>1. v[i] = w[i + 1] /\ i + 1 \in 1 .. Len(w)
      BY <1>1
    <3> QED
      BY <3>1 DEF OldThenOwn
  <2>3. \/ \E i \in 1 .. Len(v) : v[i].reply = "reset" \/ (Solicited(v[i]) /\ v[i].own)
        \/ \E i \in 1 .. Len(a) : Solicited(a[i]) /\ a[i].own
    <3>1. ASSUME NEW i \in 1 .. Len(w), w[i].reply = "reset" \/ (Solicited(w[i]) /\ w[i].own)
          PROVE  \E j \in 1 .. Len(v) : v[j].reply = "reset" \/ (Solicited(v[j]) /\ v[j].own)
      <4>1. i # 1
        BY <1>1, <3>1 DEF OldThenOwn, Stops
      <4>2. i - 1 \in 1 .. Len(v) /\ v[i - 1] = w[i]
        BY <1>2, <4>1
      <4> QED
        BY <3>1, <4>2
    <3> QED
      BY <3>1 DEF OldThenOwn
  <2> QED
    BY <2>1, <2>2, <2>3 DEF OldThenOwn
<1>8. OldThenOwn(w, a) /\ Solicited(Head(w)) /\ Head(w).own => Quiet(v, a)
  BY <1>1 DEF OldThenOwn, Quiet
<1>9. OldThenOwn(w, a) /\ Solicited(Head(w)) /\ ~Head(w).own => Comes(v, a) /\ Blocked(v, a)
  <2> SUFFICES ASSUME OldThenOwn(w, a), Solicited(Head(w)), ~Head(w).own
               PROVE  Comes(v, a) /\ Blocked(v, a)
    OBVIOUS
  <2>1. \A i \in 1 .. Len(v) : Solicited(v[i]) => v[i].own /\ v[i].reply = "device"
    BY <1>1 DEF OldThenOwn
  <2>2. \A i \in 1 .. Len(a) : Solicited(a[i]) => a[i].own /\ a[i].reply = "device"
    BY <1>1 DEF OldThenOwn
  <2>3. Blocked(v, a)
    BY <2>1, <2>2 DEF Blocked, Solicited, Asks
  <2>4. ASSUME NEW i \in 1 .. Len(w), w[i].reply = "reset" \/ (Solicited(w[i]) /\ w[i].own)
        PROVE  i # 1
    BY <1>1 , <2>4 DEF Solicited, Asks
  <2>5. CASE \E i \in 1 .. Len(w) : w[i].reply = "reset" \/ (Solicited(w[i]) /\ w[i].own)
    <3>1. PICK i \in 1 .. Len(w) : w[i].reply = "reset" \/ (Solicited(w[i]) /\ w[i].own)
      BY <2>5
    <3>2. i - 1 \in 1 .. Len(v) /\ v[i - 1] = w[i]
      BY <1>2, <2>4, <3>1
    <3>3. Stops(v[i - 1])
      BY <2>1, <3>1, <3>2 DEF Stops
    <3> QED
      BY <2>3, <3>2, <3>3 DEF Comes
  <2>6. CASE \E i \in 1 .. Len(a) : Solicited(a[i]) /\ a[i].own
    <3>1. PICK i \in 1 .. Len(a) : Solicited(a[i]) /\ a[i].own
      BY <2>6
    <3>2. Stops(a[i])
      BY <2>2, <3>1 DEF Stops
    <3> QED
      BY <2>3, <3>2 DEF Comes
  <2> QED
    BY <2>5, <2>6 DEF OldThenOwn
<1>10. Blocked(w, a) => Head(w).reply # "report"
  BY <1>1 DEF Blocked
<1>11. Blocked(w, a) /\ ~Stops(Head(w)) => Blocked(v, a)
  <2> SUFFICES ASSUME Blocked(w, a), ~Stops(Head(w)) PROVE Blocked(v, a)
    OBVIOUS
  <2>1. ASSUME NEW i \in 1 .. Len(v), v[i].reply = "report"
        PROVE  \E j \in 1 .. i - 1 : Stops(v[j])
    <3>1. PICK j \in 1 .. (i + 1) - 1 : Stops(w[j])
      BY <1>1, <2>1 DEF Blocked
    <3>2. j # 1 /\ j - 1 \in 1 .. i - 1 /\ j \in 1 .. Len(w)
      BY <1>1, <3>1
    <3> QED
      BY <1>2, <3>1, <3>2
  <2>2. ASSUME NEW j \in 1 .. Len(w), Stops(w[j])
        PROVE  \E k \in 1 .. Len(v) : Stops(v[k])
    <3>1. j # 1
      BY <1>1, <2>2
    <3> QED
      BY <1>2, <2>2, <3>1
  <2> QED
    BY <2>1, <2>2 DEF Blocked
<1> QED
  BY <1>4, <1>5, <1>6, <1>7, <1>8, <1>9, <1>10, <1>11 DEF v

(* The host sends a request: what is in the pipe is for older ones.        *)
Aged(list) == [k \in DOMAIN list |-> Old(list[k])]

LEMMA AgedType ==
  /\ \A w \in Seq(Packets) :
       /\ Aged(w) \in Seq(Packets) /\ Len(Aged(w)) = Len(w)
       /\ \A i \in 1 .. Len(w) :
            /\ Aged(w)[i].reply = w[i].reply /\ Aged(w)[i].content = w[i].content
            /\ ~Aged(w)[i].own
  /\ \A a \in Seq(Requests) :
       /\ Aged(a) \in Seq(Requests) /\ Len(Aged(a)) = Len(a)
       /\ \A i \in 1 .. Len(a) : Aged(a)[i].reply = a[i].reply /\ ~Aged(a)[i].own
<1>1. ASSUME NEW w \in Seq(Packets)
      PROVE  /\ Aged(w) \in Seq(Packets) /\ Len(Aged(w)) = Len(w)
             /\ \A i \in 1 .. Len(w) :
                  /\ Aged(w)[i].reply = w[i].reply /\ Aged(w)[i].content = w[i].content
                  /\ ~Aged(w)[i].own
  <2>1. DOMAIN w = 1 .. Len(w) /\ Len(w) \in Nat
    OBVIOUS
  <2>2. ASSUME NEW i \in 1 .. Len(w)
        PROVE  /\ Old(w[i]) \in Packets /\ Old(w[i]).reply = w[i].reply
               /\ Old(w[i]).content = w[i].content /\ ~Old(w[i]).own
    <3>1. w[i] \in Packets
      OBVIOUS
    <3> QED
      BY <3>1 DEF Old, Packets
  <2>3. Aged(w) \in [1 .. Len(w) -> Packets]
    BY <2>1, <2>2 DEF Aged
  <2>4. Aged(w) \in Seq(Packets) /\ Len(Aged(w)) = Len(w)
    BY <2>1, <2>3, SeqDef
  <2> QED
    BY <2>1, <2>2, <2>4 DEF Aged
<1>2. ASSUME NEW a \in Seq(Requests)
      PROVE  /\ Aged(a) \in Seq(Requests) /\ Len(Aged(a)) = Len(a)
             /\ \A i \in 1 .. Len(a) : Aged(a)[i].reply = a[i].reply /\ ~Aged(a)[i].own
  <2>1. DOMAIN a = 1 .. Len(a) /\ Len(a) \in Nat
    OBVIOUS
  <2>2. ASSUME NEW i \in 1 .. Len(a)
        PROVE  Old(a[i]) \in Requests /\ Old(a[i]).reply = a[i].reply /\ ~Old(a[i]).own
    <3>1. a[i] \in Requests
      OBVIOUS
    <3> QED
      BY <3>1 DEF Old, Requests
  <2>3. Aged(a) \in [1 .. Len(a) -> Requests]
    BY <2>1, <2>2 DEF Aged
  <2>4. Aged(a) \in Seq(Requests) /\ Len(Aged(a)) = Len(a)
    BY <2>1, <2>3, SeqDef
  <2> QED
    BY <2>1, <2>2, <2>4 DEF Aged
<1> QED
  BY <1>1, <1>2

LEMMA SendKeeps ==
  ASSUME NEW w \in Seq(Packets), NEW a \in Seq(Requests), NEW r \in Requests, r.own
  PROVE  /\ Quiet(w, a) => OneOwn(Aged(w), Append(Aged(a), r))
         /\ Quiet(w, a) /\ r.reply = "none" => Quiet(Aged(w), Append(Aged(a), r))
         /\ AtMostOne(w, a) /\ r.reply = "device" => OldThenOwn(Aged(w), Append(Aged(a), r))
         /\ Comes(w, a) /\ Blocked(w, a) /\ r.reply = "report" =>
              Blocked(Aged(w), Append(Aged(a), r))
<1> DEFINE v == Aged(w)
           b == Append(Aged(a), r)
<1>1. /\ Len(v) = Len(w) /\ Len(w) \in Nat
      /\ \A i \in 1 .. Len(w) : v[i].reply = w[i].reply /\ ~v[i].own
  BY AgedType
<1>2. Aged(a) \in Seq(Requests) /\ Len(Aged(a)) = Len(a) /\ Len(a) \in Nat
  BY AgedType
<1>3. /\ Len(b) = Len(a) + 1
      /\ \A i \in 1 .. Len(a) : b[i].reply = a[i].reply /\ ~b[i].own /\ i \in 1 .. Len(b)
      /\ b[Len(b)] = r /\ Len(b) \in 1 .. Len(b)
  <2>1. /\ Len(b) = Len(a) + 1
        /\ \A i \in 1 .. Len(a) : b[i] = Aged(a)[i] /\ i \in 1 .. Len(b)
        /\ b[Len(b)] = r /\ Len(b) \in 1 .. Len(b)
    BY <1>2
  <2> QED
    BY <2>1, AgedType
<1>4. \A i \in 1 .. Len(b) : i \in 1 .. Len(a) \/ i = Len(b)
  BY <1>2, <1>3
<1> HIDE DEF v, b
<1>5. /\ \A i \in 1 .. Len(w) : Solicited(v[i]) <=> Solicited(w[i])
      /\ \A i \in 1 .. Len(a) : Solicited(b[i]) <=> Solicited(a[i])
  BY <1>1, <1>3 DEF Solicited
<1>6. Quiet(w, a) => OneOwn(v, b)
  BY <1>1, <1>3, <1>4, <1>5 DEF Quiet, OneOwn, AtMostOne
<1>7. Quiet(w, a) /\ r.reply = "none" => Quiet(v, b)
  BY <1>1, <1>3, <1>4, <1>5 DEF Quiet, Solicited, Asks
<1>8. AtMostOne(w, a) /\ r.reply = "device" => OldThenOwn(v, b)
  <2> SUFFICES ASSUME AtMostOne(w, a), r.reply = "device" PROVE OldThenOwn(v, b)
    OBVIOUS
  <2>1. Solicited(r)
    BY DEF Solicited, Asks
  <2>2. \A i, j \in 1 .. Len(w) : Solicited(v[i]) /\ Solicited(v[j]) => i = j
    BY <1>5 DEF AtMostOne
  <2>3. \A i, j \in 1 .. Len(b) :
          Solicited(b[i]) /\ Solicited(b[j]) /\ i < j => ~b[i].own /\ b[j].own
    <3> SUFFICES ASSUME NEW i \in 1 .. Len(b), NEW j \in 1 .. Len(b),
                        Solicited(b[i]), Solicited(b[j]), i < j
                 PROVE  ~b[i].own /\ b[j].own
      OBVIOUS
    <3>1. i \in 1 .. Len(a)
      BY <1>2, <1>3
    <3>2. j \notin 1 .. Len(a)
      BY <1>5, <3>1 DEF AtMostOne
    <3> QED
      BY <1>3, <1>4, <3>1, <3>2
  <2>4. \A i \in 1 .. Len(v), j \in 1 .. Len(b) :
          Solicited(v[i]) /\ Solicited(b[j]) => ~v[i].own /\ b[j].own
    BY <1>1, <1>3, <1>4, <1>5 DEF AtMostOne
  <2>5. /\ \A i \in 1 .. Len(v) : ~v[i].own
        /\ \A i \in 1 .. Len(b) : b[i].own => b[i].reply = "device"
    BY <1>1, <1>3, <1>4
  <2>6. \A i, j \in 1 .. Len(v) : Solicited(v[i]) /\ Solicited(v[j]) => ~(i < j)
    BY <1>1, <2>2
  <2> QED
    BY <1>3, <2>1, <2>3, <2>4, <2>5, <2>6 DEF OldThenOwn
<1>9. ASSUME Comes(w, a), Blocked(w, a), r.reply = "report"
      PROVE  Blocked(v, b)
  <2>1. /\ \A i \in 1 .. Len(w) : Stops(v[i]) <=> Stops(w[i])
        /\ \A i \in 1 .. Len(a) : Stops(b[i]) <=> Stops(a[i])
    BY <1>1, <1>3 DEF Stops
  <2>2. ASSUME NEW i \in 1 .. Len(v), v[i].reply = "report"
        PROVE  \E j \in 1 .. i - 1 : Stops(v[j])
    <3>1. PICK j \in 1 .. i - 1 : Stops(w[j])
      BY <1>1, <1>9, <2>2 DEF Blocked
    <3>2. j \in 1 .. Len(w)
      BY <1>1
    <3> QED
      BY <2>1, <3>1, <3>2
  <2>3. ASSUME NEW i \in 1 .. Len(b), b[i].reply = "report",
               ~ \E j \in 1 .. Len(v) : Stops(v[j])
        PROVE  \E j \in 1 .. i - 1 : Stops(b[j])
    <3>0. ~ \E j \in 1 .. Len(w) : Stops(w[j])
      BY <1>1, <2>1, <2>3
    <3>1. CASE i \in 1 .. Len(a)
      <4>1. PICK j \in 1 .. i - 1 : Stops(a[j])
        BY <1>3, <1>9, <2>3, <3>0, <3>1 DEF Blocked
      <4>2. j \in 1 .. Len(a)
        BY <1>2, <3>1
      <4> QED
        BY <2>1, <4>1, <4>2
    <3>2. CASE i = Len(b)
      <4>1. PICK j \in 1 .. Len(a) : Stops(a[j])
        BY <1>9, <3>0 DEF Comes
      <4>2. j \in 1 .. i - 1
        BY <1>2, <1>3, <3>2
      <4> QED
        BY <2>1, <4>1, <4>2
    <3> QED
      BY <1>4, <3>1, <3>2
  <2> QED
    BY <2>2, <2>3 DEF Blocked
<1> QED
  BY <1>6, <1>7, <1>8, <1>9 DEF v, b

-----------------------------------------------------------------------------
(* The inductive invariant.                                                *)

Paths == {"hardware", "software"}
Attempting == {"send", "read"}

TypeInv ==
  /\ profile \in Profiles /\ config \in Configs
  /\ wire \in Seq(Packets) /\ asked \in Seq(Requests)
  /\ wpc \in {"due", "power", "reset", "send", "read", "off"}
  /\ path \in Paths /\ recovery_path \in Paths
  /\ step \in Nat \ {0} /\ recovery_fail_streak \in Nat
  /\ mode_enabled \in BOOLEAN /\ borrowed \in BOOLEAN
  /\ fatal_transport_error \in BOOLEAN

ProvidedAt(k) == Chronology[k].owner \in profile.provides \cup {"none"}

(* An attempt has closed input and cleared the boundaries; the parity      *)
(* attach has passed only those whose owner provides the values.           *)
AttemptInv ==
  /\ wpc \in {"power", "reset", "send", "read"} =>
       path = recovery_path /\ required = {} /\ ~mode_enabled
  /\ wpc \in {"power", "reset"} => path = "hardware" /\ step = 1 /\ ~borrowed
  /\ wpc = "due" => ~mode_enabled
  /\ wpc \in Attempting => step <= Len(Chronology) + 1
  /\ wpc = "read" => step <= Len(Chronology) /\ Current.reply # "none"
  /\ wpc \in Attempting /\ profile.parity => \A k \in 1 .. step - 1 : ProvidedAt(k)
  /\ wpc = "read" /\ profile.parity => ProvidedAt(step)

(* How many answers are on their way.  Only the software path can start    *)
(* with one that is not its own; once it has taken that one it will not    *)
(* get past the report descriptor.                                         *)
PipeInv ==
  /\ wpc = "due" /\ recovery_path = "software" => AtMostOne(wire, asked)
  /\ wpc \in {"off", "due"} /\ mode_enabled => Quiet(wire, asked)
  /\ wpc = "reset" => Quiet(wire, asked)
  /\ wpc = "send" /\ ~borrowed =>
       IF path = "hardware" \/ step > 1 THEN Quiet(wire, asked)
                                        ELSE AtMostOne(wire, asked)
  /\ wpc = "read" /\ ~borrowed =>
       IF path = "hardware" \/ step > 1 THEN OneOwn(wire, asked)
                                        ELSE OldThenOwn(wire, asked)
  /\ wpc \in Attempting /\ borrowed =>
       path = "software" /\ step = 2 /\ Blocked(wire, asked)
  /\ wpc = "send" /\ borrowed => Comes(wire, asked)

(* What the panel has heard is what the attempt has sent.                  *)
HeardInv ==
  /\ wpc = "send" /\ step > 1 => heard = step - 1 \/ ResetUnread
  /\ wpc = "read" => heard = step \/ ResetUnread

(* The configuration that is read and taken is the panel's, unless it has  *)
(* reset meanwhile.                                                        *)
WireConfig ==
  \A k \in 1 .. Len(wire) : wire[k].reply = "get70" =>
     \/ wire[k].content = config
     \/ \E j \in k + 1 .. Len(wire) : wire[j].reply = "reset"

ConfigInv ==
  ~profile.parity =>
    /\ WireConfig
    /\ wpc \in Attempting /\ step > 4 => mode_config = config \/ ResetUnread

EndInv == InputBehindChronology /\ PausedSaysWhy /\ SucceedsOnOwnAnswers

IInv == TypeInv /\ AttemptInv /\ PipeInv /\ HeardInv /\ ConfigInv /\ EndInv

-----------------------------------------------------------------------------
(* Steps of the wire.                                                      *)

LEMMA ProfileType ==
  ASSUME TypeInv
  PROVE  /\ profile.parity \in BOOLEAN /\ profile.fix \in BOOLEAN /\ profile.v2 \in BOOLEAN
         /\ profile.provides \subseteq Owners
         /\ "heat" \in profile.provides => profile.parity
BY ProfileAssumption DEF TypeInv

LEMMA WireGrows ==
  ASSUME TypeInv, NEW p \in Packets, wire' = Append(wire, p)
  PROVE  /\ wire' \in Seq(Packets)
         /\ ResetUnread => ResetUnread'
         /\ p.reply = "reset" => ResetUnread'
         /\ WireConfig /\ config' = config /\ (p.reply = "get70" => p.content = config) =>
              WireConfig'
         /\ p.reply = "reset" => WireConfig'
<1>1. /\ Len(wire') = Len(wire) + 1 /\ Len(wire) \in Nat /\ wire' \in Seq(Packets)
      /\ \A i \in 1 .. Len(wire) : wire'[i] = wire[i] /\ i \in 1 .. Len(wire')
      /\ wire'[Len(wire')] = p /\ Len(wire') \in 1 .. Len(wire')
      /\ DOMAIN wire = 1 .. Len(wire) /\ DOMAIN wire' = 1 .. Len(wire')
  BY DEF TypeInv
<1>2. \A i \in 1 .. Len(wire') : i \in 1 .. Len(wire) \/ i = Len(wire')
  BY <1>1
<1>3. (ResetUnread => ResetUnread') /\ (p.reply = "reset" => ResetUnread')
  BY <1>1 DEF ResetUnread
<1>4. ASSUME WireConfig, config' = config, p.reply = "get70" => p.content = config
      PROVE  WireConfig'
  <2> SUFFICES ASSUME NEW k \in 1 .. Len(wire'), wire'[k].reply = "get70",
                      wire'[k].content # config
               PROVE  \E j \in k + 1 .. Len(wire') : wire'[j].reply = "reset"
    BY <1>4 DEF WireConfig
  <2>1. k \in 1 .. Len(wire) /\ wire[k] = wire'[k]
    BY <1>1, <1>2, <1>4
  <2>2. PICK j \in k + 1 .. Len(wire) : wire[j].reply = "reset"
    BY <1>4, <2>1 DEF WireConfig
  <2>3. j \in 1 .. Len(wire) /\ j \in k + 1 .. Len(wire')
    BY <1>1, <2>1
  <2> QED
    BY <1>1, <2>2, <2>3
<1>5. ASSUME p.reply = "reset"
      PROVE  WireConfig'
  <2> SUFFICES ASSUME NEW k \in 1 .. Len(wire'), wire'[k].reply = "get70"
               PROVE  \E j \in k + 1 .. Len(wire') : wire'[j].reply = "reset"
    BY DEF WireConfig
  <2>1. k # Len(wire')
    BY <1>1, <1>5
  <2>2. Len(wire') \in k + 1 .. Len(wire')
    BY <1>1, <2>1
  <2> QED
    BY <1>1, <1>5, <2>2
<1> QED
  BY <1>1, <1>3, <1>4, <1>5

LEMMA WireShrinks ==
  ASSUME TypeInv, wire # <<>>, wire' = Tail(wire), UNCHANGED config
  PROVE  /\ wire' \in Seq(Packets) /\ Head(wire) \in Packets
         /\ Head(wire).reply # "reset" /\ ResetUnread => ResetUnread'
         /\ WireConfig => WireConfig'
         /\ WireConfig /\ Head(wire).reply = "get70" =>
              Head(wire).content = config \/ ResetUnread'
<1>1. /\ Len(wire) = Len(wire') + 1 /\ Len(wire') \in Nat /\ wire' \in Seq(Packets)
      /\ \A i \in 1 .. Len(wire') : wire'[i] = wire[i + 1] /\ i + 1 \in 1 .. Len(wire)
      /\ Head(wire) = wire[1] /\ 1 \in 1 .. Len(wire) /\ wire[1] \in Packets
      /\ DOMAIN wire = 1 .. Len(wire) /\ DOMAIN wire' = 1 .. Len(wire')
  BY DEF TypeInv
<1>2. ASSUME NEW i \in 1 .. Len(wire), i # 1
      PROVE  i - 1 \in 1 .. Len(wire') /\ wire'[i - 1] = wire[i]
  <2>1. i - 1 \in 1 .. Len(wire') /\ (i - 1) + 1 = i
    BY <1>1, <1>2
  <2> QED
    BY <1>1, <2>1
<1>3. ASSUME NEW i \in 1 .. Len(wire), wire[i].reply = "reset", i # 1
      PROVE  ResetUnread'
  <2>1. i - 1 \in DOMAIN wire' /\ wire'[i - 1].reply = "reset"
    BY <1>1, <1>2, <1>3
  <2> QED
    BY <2>1 DEF ResetUnread
<1>4. Head(wire).reply # "reset" /\ ResetUnread => ResetUnread'
  BY <1>1, <1>3 DEF ResetUnread
<1>5. ASSUME WireConfig
      PROVE  WireConfig'
  <2> SUFFICES ASSUME NEW k \in 1 .. Len(wire'), wire'[k].reply = "get70",
                      wire'[k].content # config
               PROVE  \E j \in k + 1 .. Len(wire') : wire'[j].reply = "reset"
    BY <1>5 DEF WireConfig
  <2>1. PICK j \in (k + 1) + 1 .. Len(wire) : wire[j].reply = "reset"
    BY <1>1, <1>5 DEF WireConfig
  <2>2. j \in 1 .. Len(wire) /\ j # 1 /\ j - 1 \in k + 1 .. Len(wire')
    BY <1>1, <2>1
  <2> QED
    BY <1>2, <2>1, <2>2
<1>6. ASSUME WireConfig, Head(wire).reply = "get70", Head(wire).content # config
      PROVE  ResetUnread'
  <2>1. PICK j \in 1 + 1 .. Len(wire) : wire[j].reply = "reset"
    BY <1>1, <1>6 DEF WireConfig
  <2>2. j \in 1 .. Len(wire) /\ j # 1
    BY <1>1, <2>1
  <2> QED
    BY <1>3, <2>1, <2>2
<1> QED
  BY <1>1, <1>4, <1>5, <1>6

(* After a cycle of the supply nothing is left but the announcement.       *)
LEMMA WireClears ==
  ASSUME wire' \in {<<>>, <<ResetPacket>>}, asked' = <<>>
  PROVE  /\ wire' \in Seq(Packets) /\ asked' \in Seq(Requests)
         /\ Quiet(wire', asked') /\ WireConfig'
<1>1. /\ ResetPacket \in Packets /\ ~Solicited(ResetPacket)
      /\ ResetPacket.reply = "reset"
  BY DEF ResetPacket, Packet, Packets, Replies, Solicited, Asks
<1>2. Len(<<>>) = 0 /\ Len(asked') = 0 /\ asked' \in Seq(Requests)
  OBVIOUS
<1>3. /\ wire' \in Seq(Packets) /\ Len(wire') \in 0 .. 1
      /\ \A i \in 1 .. Len(wire') : wire'[i] = ResetPacket
  <2>1. CASE wire' = <<>>
    BY <2>1
  <2>2. CASE wire' = <<ResetPacket>>
    BY <1>1, <2>2
  <2> QED
    BY <2>1, <2>2
<1>4. \A i \in 1 .. Len(wire') : ~Solicited(wire'[i]) /\ wire'[i].reply # "get70"
  BY <1>1, <1>3
<1> QED
  BY <1>2, <1>3, <1>4 DEF Quiet, WireConfig

-----------------------------------------------------------------------------
(* The panel.                                                              *)

LEMMA ChronologyStays ==
  ASSUME UNCHANGED profile
  PROVE  /\ Chronology' = Chronology
         /\ \A k : ProvidedAt(k)' <=> ProvidedAt(k)
         /\ \A owner : LastBefore(owner)' = LastBefore(owner)
<1>1. Chronology' = Chronology
  BY DEF Chronology
<1>2. \A k : ProvidedAt(k)' <=> ProvidedAt(k)
  BY <1>1 DEF ProvidedAt
<1>3. \A owner : LastBefore(owner)' = LastBefore(owner)
  BY <1>1 DEF LastBefore
<1> QED
  BY <1>1, <1>2, <1>3

(* What a step of the panel has to leave alone.                            *)
LEMMA PanelStep ==
  ASSUME IInv, UNCHANGED <<profile, wpc, attemptVars, gateVars, policyVars>>,
         Quiet(wire, asked) => Quiet(wire', asked'),
         AtMostOne(wire, asked) => AtMostOne(wire', asked'),
         OneOwn(wire, asked) => OneOwn(wire', asked'),
         OldThenOwn(wire, asked) => OldThenOwn(wire', asked'),
         Comes(wire, asked) => Comes(wire', asked'),
         Blocked(wire, asked) => Blocked(wire', asked'),
         (UNCHANGED <<heard, config>> /\ (ResetUnread => ResetUnread')) \/ ResetUnread',
         ~profile.parity => WireConfig',
         config' \in Configs, wire' \in Seq(Packets), asked' \in Seq(Requests)
  PROVE  IInv'
<1>1. /\ Chronology' = Chronology
      /\ \A k : ProvidedAt(k)' <=> ProvidedAt(k)
      /\ \A owner : LastBefore(owner)' = LastBefore(owner)
  BY ChronologyStays
<1>2. TypeInv'
  BY DEF IInv, TypeInv
<1>3. AttemptInv'
  BY <1>1 DEF IInv, AttemptInv, Current
<1>4. PipeInv'
  BY DEF IInv, PipeInv
<1>5. HeardInv'
  BY DEF IInv, HeardInv
<1>6. ConfigInv'
  BY DEF IInv, ConfigInv
<1>7. InputBehindChronology' /\ SucceedsOnOwnAnswers'
  BY <1>1 DEF IInv, EndInv, InputBehindChronology, SucceedsOnOwnAnswers, Settled
<1>8. PausedSaysWhy'
  BY <1>1 DEF IInv, EndInv, PausedSaysWhy, Settled
<1> QED
  BY <1>2, <1>3, <1>4, <1>5, <1>6, <1>7, <1>8 DEF IInv, EndInv

LEMMA PanelAnswersKeeps == IInv /\ PanelAnswers => IInv'
<1> SUFFICES ASSUME IInv, PanelAnswers PROVE IInv'
  OBVIOUS
<1> DEFINE r == Head(asked)
<1>1. /\ TypeInv /\ asked # <<>> /\ r \in Requests /\ asked' = Tail(asked)
      /\ asked' \in Seq(Requests) /\ wire \in Seq(Packets) /\ asked \in Seq(Requests)
      /\ UNCHANGED <<profile, config, heard, wpc, attemptVars, gateVars, policyVars>>
  BY DEF IInv, TypeInv, PanelAnswers
<1>2. ~profile.parity => WireConfig
  BY DEF IInv, ConfigInv
<1>3. config' \in Configs
  BY <1>1 DEF TypeInv
<1>4. CASE r.reply # "none"
  <2>1. PICK d \in Defects \cup {<<"exact", "good">>} :
          wire' = Append(wire, Packet(r.reply, d[1],
                    IF r.reply = "get70" /\ ~profile.parity THEN config ELSE d[2], r.own))
    BY <1>4 DEF PanelAnswers
  <2> DEFINE p == Packet(r.reply, d[1],
                    IF r.reply = "get70" /\ ~profile.parity THEN config ELSE d[2], r.own)
  <2>2. /\ d[1] \in {e[1] : e \in Defects} \cup {"exact"}
        /\ d[2] \in {e[2] : e \in Defects} \cup {"good"}
    OBVIOUS
  <2>3. /\ p \in Packets /\ p.reply = r.reply /\ p.own = r.own
        /\ p.reply = "get70" /\ ~profile.parity => p.content = config
    BY <1>1, <2>2 DEF Packet, Packets, Requests, Replies, TypeInv
  <2> HIDE DEF p
  <2>4. wire' = Append(wire, p)
    BY <2>1 DEF p
  <2>5. wire' \in Seq(Packets) /\ (ResetUnread => ResetUnread')
          /\ (~profile.parity => WireConfig')
    BY <1>1, <1>2, <2>3, <2>4, WireGrows
  <2> HIDE DEF r
  <2>6. /\ Quiet(wire, asked) => Quiet(wire', asked')
        /\ AtMostOne(wire, asked) => AtMostOne(wire', asked')
        /\ OneOwn(wire, asked) => OneOwn(wire', asked')
        /\ OldThenOwn(wire, asked) => OldThenOwn(wire', asked')
        /\ Comes(wire, asked) => Comes(wire', asked')
        /\ Blocked(wire, asked) => Blocked(wire', asked')
    BY <1>1, <2>3, <2>4, AnswerKeeps DEF r
  <2> QED
    BY <1>1, <1>3, <2>5, <2>6, PanelStep
<1>5. CASE r.reply = "none"
  <2> DEFINE ack == Packet("ack09", "exact", "good", FALSE)
  <2>1. ack \in Packets /\ ~Solicited(ack) /\ ack.reply = "ack09"
    BY DEF Packet, Packets, Replies, Solicited, Asks
  <2> HIDE DEF ack
  <2>2. wire' = wire \/ wire' = Append(wire, ack)
    BY <1>5 DEF PanelAnswers, ack
  <2>3. wire' \in Seq(Packets) /\ (ResetUnread => ResetUnread')
          /\ (~profile.parity => WireConfig')
    <3>1. CASE wire' = wire
      BY <1>1, <1>2, <3>1 DEF ResetUnread, WireConfig
    <3>2. CASE wire' = Append(wire, ack)
      BY <1>1, <1>2, <2>1, <3>2, WireGrows
    <3> QED
      BY <2>2, <3>1, <3>2
  <2>4. /\ Quiet(wire, asked) => Quiet(wire, asked')
        /\ AtMostOne(wire, asked) => AtMostOne(wire, asked')
        /\ OneOwn(wire, asked) => OneOwn(wire, asked')
        /\ OldThenOwn(wire, asked) => OldThenOwn(wire, asked')
        /\ Comes(wire, asked) => Comes(wire, asked')
        /\ Blocked(wire, asked) => Blocked(wire, asked')
    BY <1>1, <1>5, NoAnswerKeeps
  <2>5. /\ Quiet(wire, asked') => Quiet(wire', asked')
        /\ AtMostOne(wire, asked') => AtMostOne(wire', asked')
        /\ OneOwn(wire, asked') => OneOwn(wire', asked')
        /\ OldThenOwn(wire, asked') => OldThenOwn(wire', asked')
        /\ Comes(wire, asked') => Comes(wire', asked')
        /\ Blocked(wire, asked') => Blocked(wire', asked')
    <3>1. CASE wire' = wire
      BY <3>1
    <3>2. CASE wire' = Append(wire, ack)
      BY <1>1, <2>1, <3>2, UnaskedKeeps
    <3> QED
      BY <2>2, <3>1, <3>2
  <2> QED
    BY <1>1, <1>3, <2>3, <2>4, <2>5, PanelStep
<1> QED
  BY <1>4, <1>5

LEMMA PanelStreamsKeeps == IInv /\ PanelStreams => IInv'
<1> SUFFICES ASSUME IInv, PanelStreams PROVE IInv'
  OBVIOUS
<1> DEFINE p == Packet("heat", "exact", "good", FALSE)
<1>1. p \in Packets /\ ~Solicited(p) /\ p.reply = "heat"
  BY DEF Packet, Packets, Replies, Solicited, Asks
<1> HIDE DEF p
<1>2. /\ TypeInv /\ wire' = Append(wire, p) /\ wire \in Seq(Packets) /\ asked \in Seq(Requests)
      /\ config \in Configs
      /\ UNCHANGED <<profile, config, asked, heard, wpc, attemptVars, gateVars, policyVars>>
  BY DEF IInv, TypeInv, PanelStreams, p
<1>3. ~profile.parity => WireConfig
  BY DEF IInv, ConfigInv
<1>4. wire' \in Seq(Packets) /\ (ResetUnread => ResetUnread')
        /\ (~profile.parity => WireConfig')
  BY <1>1, <1>2, <1>3, WireGrows
<1>5. /\ Quiet(wire, asked) => Quiet(wire', asked')
      /\ AtMostOne(wire, asked) => AtMostOne(wire', asked')
      /\ OneOwn(wire, asked) => OneOwn(wire', asked')
      /\ OldThenOwn(wire, asked) => OldThenOwn(wire', asked')
      /\ Comes(wire, asked) => Comes(wire', asked')
      /\ Blocked(wire, asked) => Blocked(wire', asked')
  BY <1>1, <1>2, UnaskedKeeps
<1> QED
  BY <1>2, <1>4, <1>5, PanelStep

LEMMA PanelResetsKeeps == IInv /\ PanelResets => IInv'
<1> SUFFICES ASSUME IInv, PanelResets PROVE IInv'
  OBVIOUS
<1>1. /\ TypeInv /\ wire' \in {<<ResetPacket>>, Append(wire, ResetPacket)}
      /\ asked' = <<>> /\ wire \in Seq(Packets) /\ asked \in Seq(Requests)
      /\ config' \in Configs /\ asked' \in Seq(Requests)
      /\ UNCHANGED <<profile, wpc, attemptVars, gateVars, policyVars>>
  BY DEF IInv, TypeInv, PanelResets
<1>2. ResetPacket \in Packets /\ ResetPacket.reply = "reset"
  BY DEF ResetPacket, Packet, Packets, Replies
<1>3. wire' \in Seq(Packets) /\ ResetUnread' /\ WireConfig'
  <2>1. CASE wire' = <<ResetPacket>>
    <3>1. DOMAIN wire' = 1 .. 1 /\ Len(wire') = 1 /\ wire'[1] = ResetPacket
      BY <2>1
    <3>2. ResetUnread'
      BY <1>2, <3>1 DEF ResetUnread
    <3>3. WireConfig'
      BY <1>2, <3>1 DEF WireConfig
    <3> QED
      BY <1>2, <2>1, <3>2, <3>3
  <2>2. CASE wire' = Append(wire, ResetPacket)
    BY <1>1, <1>2, <2>2, WireGrows
  <2> QED
    BY <1>1, <2>1, <2>2
<1>4. /\ Quiet(wire, asked) => Quiet(wire', asked')
      /\ AtMostOne(wire, asked) => AtMostOne(wire', asked')
      /\ OneOwn(wire, asked) => OneOwn(wire', asked')
      /\ OldThenOwn(wire, asked) => OldThenOwn(wire', asked')
      /\ Comes(wire, asked) => Comes(wire', asked')
      /\ Blocked(wire, asked) => Blocked(wire', asked')
  BY <1>1, ResetKeeps
<1> QED
  BY <1>1, <1>3, <1>4, PanelStep

-----------------------------------------------------------------------------
(* The end of an attempt.                                                  *)

(* What a failing attempt leaves: not a success, and an older answer only  *)
(* for an attempt on the software path that has at most that one.          *)
LEMMA FailureKeeps ==
  ASSUME IInv, NEW fatal \in BOOLEAN, NEW next \in Paths, AttemptFails(fatal, next),
         path = recovery_path, UNCHANGED <<profile, config, asked, heard>>,
         UNCHANGED <<path, step, borrowed>>,
         next = "software" /\ path = "hardware" => AtMostOne(wire', asked'),
         wire' = wire \/ (wire # <<>> /\ wire' = Tail(wire))
  PROVE  IInv'
<1>1. wire' \in Seq(Packets) /\ (WireConfig => WireConfig')
  <2>1. CASE wire' = wire
    BY <2>1 DEF IInv, TypeInv, WireConfig
  <2>2. CASE wire # <<>> /\ wire' = Tail(wire)
    BY <2>2, WireShrinks DEF IInv
  <2> QED
    BY <2>1, <2>2
<1>2. /\ wpc' \in {"due", "off"} /\ mode_enabled' = FALSE
      /\ recovery_fail_streak' = recovery_fail_streak + 1
      /\ recovery_path' \in Paths /\ fatal_transport_error' = fatal
      /\ recovery_fail_streak \in Nat
  BY DEF AttemptFails, FailureStreak, IInv, TypeInv, Paths
<1>3. ~Settled'
  BY <1>2 DEF Settled
<1>4. wpc' = "due" /\ recovery_path' = "software" => next = "software" /\ path = "hardware"
  BY DEF AttemptFails, IInv, TypeInv, Paths
<1>5. TypeInv'
  <2>1. fatal_transport_error' \in BOOLEAN /\ mode_enabled' \in BOOLEAN
    BY <1>2, Zenon
  <2>2. borrowed' \in BOOLEAN /\ step' \in Nat \ {0} /\ path' \in Paths
    BY DEF IInv, TypeInv
  <2>3. recovery_fail_streak' \in Nat
    BY <1>2
  <2>4. profile' \in Profiles /\ config' \in Configs /\ asked' \in Seq(Requests)
    BY DEF IInv, TypeInv
  <2> QED
    BY <1>1, <1>2, <2>1, <2>2, <2>3, <2>4 DEF TypeInv
<1>6. AttemptInv'
  BY <1>2 DEF AttemptInv, Attempting
<1>7. PipeInv'
  BY <1>2, <1>4 DEF PipeInv, Attempting
<1>8. HeardInv'
  BY <1>2 DEF HeardInv
<1>9. ConfigInv'
  BY <1>1, <1>2 DEF IInv, ConfigInv, Attempting
<1>10. EndInv'
  BY <1>2, <1>3 DEF EndInv, InputBehindChronology, PausedSaysWhy, SucceedsOnOwnAnswers
<1> QED
  BY <1>5, <1>6, <1>7, <1>8, <1>9, <1>10 DEF IInv

(* A pause at the boundary of owner, where the attempt has sent everything *)
(* before it and has taken only its own answers.                           *)
LEMMA PauseKeeps ==
  ASSUME IInv, wpc \in Attempting, NEW owner \in (Owners \cup {"branch"}) \ profile.provides,
         PausesFor(owner),
         UNCHANGED <<profile, config, asked, heard, path, step, mode_config>>,
         wire' \in Seq(Packets), WireConfig => WireConfig',
         borrowed' = FALSE, heard = LastBefore(owner) \/ ResetUnread'
  PROVE  IInv'
<1>1. /\ wpc' = "off" /\ ~mode_enabled' /\ required' = {owner}
      /\ recovery_fail_streak' = 0 /\ recovery_path' = "hardware"
      /\ initialization_stage' = owner
      /\ UNCHANGED <<fatal_transport_error, mode_enabled>>
  BY DEF IInv, AttemptInv, PausesFor, AttemptSucceeds, Attempting
<1>2. LastBefore(owner)' = LastBefore(owner)
  BY ChronologyStays
<1>3. TypeInv'
  BY <1>1 DEF IInv, TypeInv, Paths
<1>4. AttemptInv' /\ HeardInv'
  BY <1>1 DEF AttemptInv, HeardInv, Attempting
<1>5. PipeInv'
  BY <1>1 DEF PipeInv, Attempting
<1>6. ConfigInv'
  BY <1>1 DEF IInv, ConfigInv, Attempting
<1>7. InputBehindChronology' /\ SucceedsOnOwnAnswers'
  BY <1>1 DEF InputBehindChronology, SucceedsOnOwnAnswers
<1>8. PausedSaysWhy'
  <2>1. owner \in ((Owners \cup {"branch"}) \ profile.provides)'
    BY DEF Owners
  <2>2. heard' = LastBefore(owner)' \/ ResetUnread'
    BY <1>2
  <2> QED
    BY <1>1, <2>1, <2>2 DEF PausedSaysWhy, Settled
<1> QED
  BY <1>3, <1>4, <1>5, <1>6, <1>7, <1>8 DEF IInv, EndInv

-----------------------------------------------------------------------------
(* The attempt.                                                            *)

LEMMA WorkStartsKeeps == IInv /\ WorkStarts => IInv'
<1> SUFFICES ASSUME IInv, WorkStarts PROVE IInv'
  OBVIOUS
<1>1. /\ wpc = "due" /\ ~mode_enabled' /\ required' = {}
      /\ path' = recovery_path /\ step' = 1 /\ borrowed' = FALSE
      /\ wpc' = IF path' = "hardware" THEN "power" ELSE "send"
      /\ UNCHANGED <<profile, panelVars, policyVars, mode_config>>
      /\ mode_enabled' = FALSE
  BY DEF WorkStarts, CloseInput, ClearedFlags
<1>2. TypeInv'
  <2>1. wpc' \in {"power", "send"}
    BY <1>1
  <2> QED
    <3>1. borrowed' \in BOOLEAN /\ mode_enabled' \in BOOLEAN
      BY <1>1, Zenon
    <3>2. path' \in Paths /\ step' \in Nat \ {0} /\ wire' \in Seq(Packets)
      BY <1>1 DEF IInv, TypeInv
    <3>3. fatal_transport_error' \in BOOLEAN /\ recovery_fail_streak' \in Nat
      BY <1>1 DEF IInv, TypeInv
    <3> QED
    BY <1>1, <2>1, <3>1, <3>2, <3>3 DEF IInv, TypeInv
<1>3. Chronology' = Chronology /\ Len(Chronology) \in 6 .. 16
  BY <1>1, ChronologyStays, EveryChronology, ProfileType DEF IInv
<1>4. AttemptInv'
  BY <1>1, <1>3 DEF AttemptInv, Attempting
<1>5. PipeInv'
  BY <1>1 DEF IInv, TypeInv, PipeInv, Attempting, Paths
<1>6. HeardInv'
  BY <1>1 DEF HeardInv
<1>7. ConfigInv'
  BY <1>1 DEF IInv, ConfigInv, WireConfig, Attempting
<1>8. EndInv'
  BY <1>1 DEF EndInv, InputBehindChronology, PausedSaysWhy, SucceedsOnOwnAnswers, Settled
<1> QED
  BY <1>2, <1>4, <1>5, <1>6, <1>7, <1>8 DEF IInv

LEMMA PowerCycleKeeps == IInv /\ PowerCycle => IInv'
<1> SUFFICES ASSUME IInv, PowerCycle PROVE IInv'
  OBVIOUS
<1>1. /\ wpc = "power" /\ path = recovery_path /\ path = "hardware" /\ required = {}
      /\ ~mode_enabled /\ step = 1 /\ ~borrowed /\ UNCHANGED profile
      /\ fatal_transport_error \in BOOLEAN /\ recovery_path \in Paths
  BY DEF IInv, TypeInv, AttemptInv, PowerCycle
<1>2. CASE Fails /\ UNCHANGED <<panelVars, attemptVars>>
  <2>1. recovery_path # "software"
    BY <1>1
  <2> QED
    BY <1>1, <1>2, <2>1, FailureKeeps DEF Fails
<1>3. CASE /\ wire' \in {<<>>, <<ResetPacket>>}
           /\ asked' = <<>> /\ heard' = 0 /\ config' \in Configs
           /\ wpc' = "reset" /\ initialization_stage' = "reset-response"
           /\ UNCHANGED <<resets, path, step, responses, required, mode_config,
                          borrowed, gateVars, policyVars>>
  <2>1. /\ wire' \in Seq(Packets) /\ asked' \in Seq(Requests)
        /\ Quiet(wire', asked') /\ WireConfig'
    BY <1>3, WireClears
  <2>2. TypeInv'
    BY <1>1, <1>3, <2>1 DEF IInv, TypeInv
  <2>3. AttemptInv' /\ PipeInv' /\ HeardInv'
    BY <1>1, <1>3, <2>1 DEF AttemptInv, PipeInv, HeardInv, Attempting
  <2>4. ConfigInv'
    BY <1>3, <2>1 DEF ConfigInv, Attempting
  <2>5. EndInv'
    BY <1>1, <1>3 DEF EndInv, InputBehindChronology, PausedSaysWhy, SucceedsOnOwnAnswers,
         Settled
  <2> QED
    BY <2>2, <2>3, <2>4, <2>5 DEF IInv
<1> QED
  BY <1>2, <1>3 DEF PowerCycle

LEMMA ReadResetKeeps == IInv /\ ReadReset => IInv'
<1> SUFFICES ASSUME IInv, ReadReset PROVE IInv'
  OBVIOUS
<1>1. /\ wpc = "reset" /\ path = recovery_path /\ path = "hardware" /\ required = {}
      /\ ~mode_enabled /\ step = 1 /\ ~borrowed /\ Quiet(wire, asked)
      /\ fatal_transport_error \in BOOLEAN /\ recovery_path \in Paths
      /\ UNCHANGED <<profile, config, asked, heard, attemptVars>>
      /\ wire \in Seq(Packets) /\ asked \in Seq(Requests)
  BY DEF IInv, TypeInv, AttemptInv, PipeInv, ReadReset
<1>2. CASE wire = <<>> /\ Fails /\ UNCHANGED wire
  BY <1>1, <1>2, FailureKeeps DEF Fails
<1>3. CASE wire # <<>> /\ wire' = Tail(wire) /\ (FailsFatally \/ Fails)
  <2>1. recovery_path # "software"
    BY <1>1
  <2> QED
    BY <1>1, <1>3, <2>1, FailureKeeps DEF Fails, FailsFatally
<1>4. CASE /\ wire # <<>> /\ wire' = Tail(wire) /\ wpc' = "send"
           /\ UNCHANGED <<gateVars, policyVars>>
  <2>1. Quiet(wire', asked')
    BY <1>1, <1>4, ReadKeeps
  <2>2. wire' \in Seq(Packets) /\ (WireConfig => WireConfig')
    BY <1>1, <1>4, WireShrinks DEF IInv
  <2>3. Chronology' = Chronology /\ Len(Chronology) \in 6 .. 16
    BY <1>1, ChronologyStays, EveryChronology, ProfileType DEF IInv
  <2>4. TypeInv'
    BY <1>1, <1>4, <2>2 DEF IInv, TypeInv
  <2>5. AttemptInv'
    <3>1. step' = 1 /\ step' <= Len(Chronology') + 1 /\ 1 .. step' - 1 = {}
      BY <1>1, <2>3
    <3>2. wpc' = "send" /\ path' = recovery_path' /\ required' = {} /\ ~mode_enabled'
      BY <1>1, <1>4
    <3> QED
      BY <3>1, <3>2 DEF AttemptInv, Attempting
  <2>6. PipeInv' /\ HeardInv'
    BY <1>1, <1>4, <2>1 DEF PipeInv, HeardInv, Attempting
  <2>7. ConfigInv'
    BY <1>1, <1>4, <2>2 DEF IInv, ConfigInv
  <2>8. EndInv'
    BY <1>1, <1>4 DEF EndInv, InputBehindChronology, PausedSaysWhy, SucceedsOnOwnAnswers,
         Settled
  <2> QED
    BY <2>4, <2>5, <2>6, <2>7, <2>8 DEF IInv
<1> QED
  BY <1>2, <1>3, <1>4 DEF ReadReset

-----------------------------------------------------------------------------
(* Sending.                                                                *)

(* What is known of the chronology where an attempt stands.                *)
LEMMA CurrentType ==
  ASSUME IInv, wpc \in Attempting, step <= Len(Chronology)
  PROVE  /\ step \in DOMAIN Chronology /\ step \in 1 .. Len(Chronology)
         /\ Len(Chronology) \in 6 .. 16
         /\ Current.reply \in Asks \cup {"none"}
         /\ step = 1 => Current.reply = "device"
         /\ step = 2 => Current.reply = "report"
         /\ Current.stage = "cfu-offer" => step = 14 /\ profile.parity
         /\ ~profile.parity => /\ Current.reply = "get70" <=> step = 4
                               /\ Current.stage = "set-feature70" => step > 4
<1>1. profile.parity \in BOOLEAN /\ profile.fix \in BOOLEAN
  BY ProfileType DEF IInv
<1>2. step \in DOMAIN Chronology /\ step \in 1 .. Len(Chronology) /\ Len(Chronology) \in 6 .. 16
  <2>1. Len(Chronology) \in 6 .. 16 /\ DOMAIN Chronology = 1 .. Len(Chronology)
    BY <1>1, EveryChronology
  <2>2. step \in Nat \ {0} /\ Len(Chronology) \in Nat
    BY <2>1 DEF IInv, TypeInv
  <2>3. step \in 1 .. Len(Chronology)
    BY <2>2
  <2> QED
    BY <2>1, <2>3
<1> QED
  BY <1>1, <1>2, EveryChronology, LinuxChronology DEF Current

LEMMA SendsKeeps == IInv /\ Sends => IInv'
<1> SUFFICES ASSUME IInv, Sends PROVE IInv'
  OBVIOUS
<1> DEFINE r == [reply |-> Current.reply, own |-> TRUE]
<1>1. /\ wpc = "send" /\ step <= Len(Chronology) /\ step \in Nat \ {0} /\ Provided
      /\ wire' = Aged(wire) /\ asked' = Append(Aged(asked), r)
      /\ heard' = IF HeardInOrder THEN step ELSE heard
      /\ path = recovery_path /\ required = {} /\ ~mode_enabled
      /\ wire \in Seq(Packets) /\ asked \in Seq(Requests)
      /\ UNCHANGED <<profile, config, path, required, mode_config, borrowed, gateVars, policyVars>>
  BY DEF IInv, TypeInv, AttemptInv, Sends, Aged
<1>2. /\ Current.reply \in Asks \cup {"none"} /\ Len(Chronology) \in 6 .. 16
      /\ step = 1 => Current.reply = "device"
      /\ step = 2 => Current.reply = "report"
      /\ ~profile.parity => (Current.stage = "set-feature70" => step > 4)
  BY <1>1, CurrentType DEF Attempting
<1>3. r \in Requests /\ r.reply = Current.reply /\ r.own
  BY <1>2 DEF Requests
<1> HIDE DEF r
<1>4. Chronology' = Chronology /\ (\A k : ProvidedAt(k)' <=> ProvidedAt(k))
  BY <1>1, ChronologyStays
<1>5. /\ wire' \in Seq(Packets) /\ Len(wire') = Len(wire)
      /\ Aged(asked) \in Seq(Requests)
      /\ \A i \in 1 .. Len(wire) : /\ wire'[i].reply = wire[i].reply
                                   /\ wire'[i].content = wire[i].content
  BY <1>1, AgedType
<1>6. asked' \in Seq(Requests)
  BY <1>1, <1>3, <1>5
<1>7. (ResetUnread => ResetUnread') /\ (WireConfig => WireConfig')
  <2>1. DOMAIN wire = 1 .. Len(wire) /\ DOMAIN wire' = 1 .. Len(wire)
    BY <1>1, <1>5
  <2>2. ResetUnread => ResetUnread'
    BY <1>5, <2>1 DEF ResetUnread
  <2>3. \A k \in 1 .. Len(wire) : \A j \in k + 1 .. Len(wire) : j \in 1 .. Len(wire)
    OBVIOUS
  <2>4. ASSUME WireConfig, NEW k \in 1 .. Len(wire'), wire'[k].reply = "get70",
               wire'[k].content # config
        PROVE  \E j \in k + 1 .. Len(wire') : wire'[j].reply = "reset"
    <3>1. PICK j \in k + 1 .. Len(wire) : wire[j].reply = "reset"
      BY <1>5, <2>4 DEF WireConfig
    <3>2. j \in 1 .. Len(wire) /\ j \in k + 1 .. Len(wire')
      BY <1>5, <2>3
    <3> QED
      BY <1>5, <3>1, <3>2
  <2>5. WireConfig => WireConfig'
    BY <1>1, <2>4 DEF WireConfig
  <2> QED
    BY <2>2, <2>5
<1>8. heard' = step \/ ResetUnread'
  <2>1. CASE step = 1
    <3>1. Current.stage = "set-feature70" /\ ~profile.parity => step > 4
      BY <1>2
    <3>2. HeardInOrder
      BY <2>1, <3>1 DEF HeardInOrder
    <3> QED
      BY <1>1, <3>2
  <2>2. CASE step > 1 /\ ~ResetUnread
    <3>1. heard = step - 1
      BY <1>1, <2>2 DEF IInv, HeardInv
    <3>2. ~profile.parity /\ step > 4 => mode_config = config
      BY <1>1, <2>2 DEF IInv, ConfigInv, Attempting
    <3>3. HeardInOrder
      BY <1>2, <3>1, <3>2 DEF HeardInOrder
    <3> QED
      BY <1>1, <3>3
  <2> QED
    BY <1>1, <1>7, <2>1, <2>2
<1>9. CASE Current.reply = "none"
  <2>1. wpc' = "send" /\ step' = step + 1 /\ step > 2
    BY <1>1, <1>2, <1>9 DEF Sends
  <2>2. TypeInv'
    BY <1>1, <1>5, <1>6, <2>1 DEF IInv, TypeInv
  <2>3. ~borrowed /\ Quiet(wire, asked)
    BY <1>1, <2>1 DEF IInv, PipeInv, Attempting
  <2>4. Quiet(wire', asked')
    BY <1>1, <1>3, <1>9, <2>3, SendKeeps
  <2>5. AttemptInv'
    <3>1. profile.parity => ProvidedAt(step)
      BY <1>1 DEF Provided, ProvidedAt, Current
    <3>2. profile.parity => \A k \in 1 .. step : ProvidedAt(k)
      BY <1>1, <3>1 DEF IInv, AttemptInv, Attempting
    <3>3. profile'.parity => \A k \in 1 .. step' - 1 : ProvidedAt(k)'
      BY <1>1, <1>4, <2>1, <3>2
    <3> QED
      BY <1>1, <1>4, <2>1, <3>3 DEF AttemptInv, Attempting
  <2>6. PipeInv'
    BY <1>1, <2>1, <2>3, <2>4 DEF PipeInv, Attempting
  <2>7. HeardInv'
    BY <1>1, <1>8, <2>1 DEF HeardInv
  <2>8. ConfigInv'
    <3>1. ~profile.parity /\ step = 4 => Current.reply = "get70"
      BY <1>1, CurrentType DEF Attempting
    <3>2. ~profile.parity /\ step' > 4 => step > 4
      BY <1>1, <1>9, <2>1, <3>1
    <3> QED
      BY <1>1, <1>7, <2>1, <3>2 DEF IInv, ConfigInv, Attempting
  <2>9. EndInv'
    BY <1>1, <2>1 DEF EndInv, InputBehindChronology, PausedSaysWhy, SucceedsOnOwnAnswers,
         Settled
  <2> QED
    BY <2>2, <2>5, <2>6, <2>7, <2>8, <2>9 DEF IInv
<1>10. CASE Current.reply # "none"
  <2>1. wpc' = "read" /\ step' = step
    BY <1>1, <1>10 DEF Sends
  <2>2. TypeInv'
    BY <1>1, <1>5, <1>6, <2>1 DEF IInv, TypeInv
  <2>3. AttemptInv'
    <3>1. Current' = Current
      BY <1>4, <2>1 DEF Current
    <3>2. profile.parity => ProvidedAt(step) /\ \A k \in 1 .. step - 1 : ProvidedAt(k)
      BY <1>1 DEF Provided, ProvidedAt, Current, IInv, AttemptInv, Attempting
    <3> QED
      BY <1>1, <1>4, <1>10, <2>1, <3>1, <3>2 DEF AttemptInv, Attempting
  <2>4. PipeInv'
    <3>1. Quiet(wire, asked) => OneOwn(wire', asked')
      BY <1>1, <1>3, SendKeeps
    <3>2. AtMostOne(wire, asked) /\ step = 1 => OldThenOwn(wire', asked')
      BY <1>1, <1>2, <1>3, SendKeeps
    <3>3. Comes(wire, asked) /\ Blocked(wire, asked) /\ step = 2 => Blocked(wire', asked')
      BY <1>1, <1>2, <1>3, SendKeeps
    <3> QED
      BY <1>1, <2>1, <3>1, <3>2, <3>3 DEF IInv, PipeInv, Attempting
  <2>5. HeardInv'
    BY <1>1, <1>8, <2>1 DEF HeardInv
  <2>6. ConfigInv'
    BY <1>1, <1>7, <2>1 DEF IInv, ConfigInv, Attempting
  <2>7. EndInv'
    BY <1>1, <2>1 DEF EndInv, InputBehindChronology, PausedSaysWhy, SucceedsOnOwnAnswers,
         Settled
  <2> QED
    BY <2>2, <2>3, <2>4, <2>5, <2>6, <2>7 DEF IInv
<1> QED
  BY <1>9, <1>10

LEMMA SendFailsKeeps == IInv /\ (SendFails \/ RefusesSoftware) => IInv'
<1> SUFFICES ASSUME IInv, SendFails \/ RefusesSoftware PROVE IInv'
  OBVIOUS
<1>1. /\ path = recovery_path /\ recovery_path \in Paths
      /\ fatal_transport_error \in BOOLEAN
      /\ UNCHANGED <<profile, config, asked, heard>> /\ UNCHANGED <<path, step, borrowed>>
      /\ wire' = wire /\ (FailsFatally \/ Fails)
      /\ ~(recovery_path = "software" /\ path = "hardware")
  BY DEF IInv, TypeInv, AttemptInv, SendFails, RefusesSoftware
<1> QED
  BY <1>1, FailureKeeps DEF Fails, FailsFatally

LEMMA PausesAtOwnerKeeps == IInv /\ PausesAtOwner => IInv'
<1> SUFFICES ASSUME IInv, PausesAtOwner PROVE IInv'
  OBVIOUS
<1> DEFINE owner == Current.owner
<1>1. /\ wpc = "send" /\ wpc \in Attempting /\ step <= Len(Chronology) /\ step \in Nat \ {0}
      /\ profile.parity /\ owner \notin profile.provides \cup {"none"}
      /\ PausesFor(owner)
      /\ UNCHANGED <<profile, panelVars, path, step, mode_config, borrowed>>
      /\ wire \in Seq(Packets)
  BY DEF IInv, TypeInv, PausesAtOwner, Provided, Attempting
<1>2. step \in 1 .. 16 /\ owner = OwnerAt(step) /\ Chronology[1].owner = "none"
  <2>1. Len(Chronology) = 16 /\ 1 \in 1 .. 16
    BY <1>1, ParityChronology
  <2>2. step \in 1 .. 16
    BY <1>1, <2>1
  <2> QED
    BY <1>1, <2>1, <2>2, ParityChronology DEF Current, OwnerAt
<1>3. owner \in Owners /\ step - 1 \in 1 .. 15 /\ step > 2 /\ (step - 1) + 1 = step
  BY <1>1, <1>2 DEF OwnerAt, Owners
<1>4. Chronology[step - 1].owner # owner
  <2>1. ProvidedAt(step - 1)
    BY <1>1, <1>3 DEF IInv, AttemptInv
  <2> QED
    BY <1>1, <2>1 DEF ProvidedAt
<1>5. LastBefore(owner) = step - 1
  BY <1>1, <1>3, <1>4, LastBeforeOwner DEF Current
<1>6. borrowed' = FALSE
  BY <1>1, <1>3 DEF IInv, TypeInv, PipeInv
<1>7. heard = LastBefore(owner) \/ ResetUnread'
  BY <1>1, <1>3, <1>5 DEF IInv, HeardInv, ResetUnread
<1>8. wire' \in Seq(Packets) /\ (WireConfig => WireConfig')
  BY <1>1 DEF WireConfig
<1> QED
  BY <1>1, <1>3, <1>6, <1>7, <1>8, PauseKeeps

LEMMA CompletesKeeps == IInv /\ Completes => IInv'
<1> SUFFICES ASSUME IInv, Completes PROVE IInv'
  OBVIOUS
<1>1. /\ wpc = "send" /\ wpc \in Attempting /\ step = Len(Chronology) + 1
      /\ Len(Chronology) \in 6 .. 16 /\ step > 6
      /\ UNCHANGED <<profile, panelVars, path, step, mode_config, borrowed>>
      /\ wire \in Seq(Packets) /\ required = {}
  <2>1. Len(Chronology) \in 6 .. 16
    BY EveryChronology, ProfileType DEF IInv
  <2>2. /\ wpc = "send" /\ wpc \in Attempting /\ step \in Nat /\ step <= Len(Chronology) + 1
        /\ step > Len(Chronology)
    BY DEF Completes, Attempting, IInv, TypeInv, AttemptInv
  <2>3. \A m \in 6 .. 16 : step <= m + 1 /\ step > m => step = m + 1 /\ step > 6
    BY <2>2
  <2>4. step = Len(Chronology) + 1 /\ step > 6
    BY <2>1, <2>2, <2>3
  <2> QED
    BY <2>1, <2>2, <2>4 DEF Completes, IInv, TypeInv, AttemptInv
<1>2. borrowed' = FALSE /\ Quiet(wire, asked)
  BY <1>1 DEF IInv, TypeInv, PipeInv
<1>3. heard = Len(Chronology) \/ ResetUnread
  BY <1>1 DEF IInv, HeardInv
<1>4. wire' \in Seq(Packets) /\ (WireConfig <=> WireConfig') /\ (ResetUnread <=> ResetUnread')
  BY <1>1 DEF WireConfig, ResetUnread
<1>5. CASE profile.parity /\ "heat" \notin profile.provides /\ PausesFor("heat")
  <2>1. LastBefore("heat") = Len(Chronology) /\ "heat" \in Owners
    BY DEF LastBefore, Owners
  <2> QED
    BY <1>1, <1>2, <1>3, <1>4, <1>5, <2>1, PauseKeeps
<1>6. CASE mode_enabled' = TRUE /\ AttemptSucceeds /\ UNCHANGED required
  <2>1. /\ wpc' = "off" /\ mode_enabled' = TRUE /\ required' = {} /\ recovery_fail_streak' = 0
        /\ recovery_path' = "hardware" /\ UNCHANGED fatal_transport_error
    BY <1>1, <1>6 DEF AttemptSucceeds
  <2>2. Chronology' = Chronology
    BY <1>1, ChronologyStays
  <2>3. TypeInv'
    <3>1. mode_enabled' \in BOOLEAN /\ borrowed' \in BOOLEAN /\ fatal_transport_error' \in BOOLEAN
      BY <1>2, <2>1 DEF IInv, TypeInv
    <3> QED
      BY <1>1, <2>1, <3>1 DEF IInv, TypeInv, Paths
  <2>4. AttemptInv' /\ HeardInv'
    BY <2>1 DEF AttemptInv, HeardInv, Attempting
  <2>5. PipeInv'
    BY <1>1, <1>2, <2>1 DEF PipeInv, Attempting
  <2>6. ConfigInv'
    BY <1>1, <1>4, <2>1 DEF IInv, ConfigInv, Attempting
  <2>7. InputBehindChronology' /\ SucceedsOnOwnAnswers'
    BY <1>1, <1>2, <1>3, <1>4, <2>2 DEF InputBehindChronology, SucceedsOnOwnAnswers
  <2>8. PausedSaysWhy'
    BY <2>1 DEF PausedSaysWhy
  <2> QED
    BY <2>3, <2>4, <2>5, <2>6, <2>7, <2>8 DEF IInv, EndInv
<1> QED
  BY <1>5, <1>6 DEF Completes

-----------------------------------------------------------------------------
(* Reading.                                                                *)

(* What the attempt knows when it waits for an answer.                     *)
LEMMA ReadType ==
  ASSUME IInv, wpc = "read"
  PROVE  /\ path = recovery_path /\ recovery_path \in Paths /\ required = {}
         /\ fatal_transport_error \in BOOLEAN /\ ~mode_enabled
         /\ wire \in Seq(Packets) /\ asked \in Seq(Requests)
         /\ step \in Nat \ {0} /\ step <= Len(Chronology)
         /\ wpc \in Attempting /\ borrowed \in BOOLEAN
         /\ Current.reply \in Asks
         /\ borrowed => path = "software" /\ step = 2 /\ Blocked(wire, asked)
                         /\ Current.reply = "report"
         /\ ~borrowed /\ (path = "hardware" \/ step > 1) => OneOwn(wire, asked)
         /\ ~borrowed /\ path = "software" /\ step = 1 => OldThenOwn(wire, asked)
<1>1. /\ path = recovery_path /\ recovery_path \in Paths /\ required = {}
      /\ fatal_transport_error \in BOOLEAN /\ ~mode_enabled
      /\ wire \in Seq(Packets) /\ asked \in Seq(Requests)
      /\ step \in Nat \ {0} /\ step <= Len(Chronology)
      /\ wpc \in Attempting /\ borrowed \in BOOLEAN /\ Current.reply # "none"
  BY DEF IInv, TypeInv, AttemptInv, Attempting
<1>2. Current.reply \in Asks /\ (step = 2 => Current.reply = "report")
  BY <1>1, CurrentType
<1>3. borrowed => path = "software" /\ step = 2 /\ Blocked(wire, asked)
  BY <1>1 DEF IInv, PipeInv
<1>4. ~borrowed =>
       IF path = "hardware" \/ step > 1 THEN OneOwn(wire, asked)
                                        ELSE OldThenOwn(wire, asked)
  BY <1>1 DEF IInv, PipeInv
<1> QED
  BY <1>1, <1>2, <1>3, <1>4 DEF Paths

LEMMA ReadEndsKeeps ==
  IInv /\ (ReadGivesUp \/ ReadFails \/ ReadRejects) => IInv'
<1> SUFFICES ASSUME IInv, ReadGivesUp \/ ReadFails \/ ReadRejects PROVE IInv'
  OBVIOUS
<1>1. wpc = "read" /\ (FailsFatally \/ Fails)
        /\ (wire' = wire \/ (wire # <<>> /\ wire' = Tail(wire)))
        /\ UNCHANGED <<profile, config, asked, heard>> /\ UNCHANGED <<path, step, borrowed>>
  BY DEF ReadGivesUp, ReadFails, ReadRejects, Reads
<1>2. /\ path = recovery_path /\ recovery_path \in Paths
      /\ fatal_transport_error \in BOOLEAN
      /\ ~(recovery_path = "software" /\ path = "hardware")
  BY <1>1, ReadType
<1> QED
  BY <1>1, <1>2, FailureKeeps DEF Fails, FailsFatally

LEMMA ReadMeetsResetKeeps == IInv /\ ReadMeetsReset => IInv'
<1> SUFFICES ASSUME IInv, ReadMeetsReset PROVE IInv'
  OBVIOUS
<1>1. /\ wpc = "read" /\ AttemptFails(fatal_transport_error, NotedPath)
      /\ wire # <<>> /\ wire' = Tail(wire)
      /\ UNCHANGED <<profile, config, asked, heard>> /\ UNCHANGED <<path, step, borrowed>>
  BY DEF ReadMeetsReset, Reads
<1>2. /\ path = recovery_path /\ NotedPath \in Paths
      /\ fatal_transport_error \in BOOLEAN
      /\ wire \in Seq(Packets) /\ asked \in Seq(Requests)
  BY <1>1, ReadType DEF NotedPath, Paths
<1>3. path = "hardware" => OneOwn(wire, asked)
  BY <1>1, ReadType
<1>4. path = "hardware" => AtMostOne(wire', asked')
  BY <1>1, <1>2, <1>3, ReadKeeps DEF OneOwn
<1> QED
  BY <1>1, <1>2, <1>4, FailureKeeps

LEMMA ReadSkipsKeeps == IInv /\ ReadSkips => IInv'
<1> SUFFICES ASSUME IInv, ReadSkips PROVE IInv'
  OBVIOUS
<1>1. /\ wpc = "read" /\ wire # <<>> /\ wire' = Tail(wire)
      /\ Head(wire).reply \in Skipped
      /\ UNCHANGED <<profile, config, asked, heard, wpc, path, step,
                     initialization_stage, required, mode_config, borrowed,
                     gateVars, policyVars>>
      /\ TypeInv
  BY DEF ReadSkips, Reads, IInv
<1>2. ~Stops(Head(wire)) /\ Head(wire).reply # "reset"
  BY <1>1 DEF Skipped, DataReplies, Stops
<1>3. /\ wire' \in Seq(Packets) /\ (WireConfig => WireConfig')
      /\ (ResetUnread => ResetUnread')
  BY <1>1, <1>2, WireShrinks
<1>4. /\ OneOwn(wire, asked) => OneOwn(wire', asked')
      /\ OldThenOwn(wire, asked) => OldThenOwn(wire', asked')
      /\ Blocked(wire, asked) => Blocked(wire', asked')
  BY <1>1, <1>2, ReadKeeps DEF TypeInv
<1>5. Chronology' = Chronology /\ (\A k : ProvidedAt(k)' <=> ProvidedAt(k))
        /\ Current' = Current
  BY <1>1, ChronologyStays DEF Current
<1>6. TypeInv'
  BY <1>1, <1>3 DEF IInv, TypeInv
<1>7. AttemptInv'
  BY <1>1, <1>5 DEF IInv, AttemptInv
<1>8. PipeInv'
  BY <1>1, <1>4 DEF IInv, PipeInv
<1>9. HeardInv' /\ ConfigInv'
  BY <1>1, <1>3 DEF IInv, HeardInv, ConfigInv
<1>10. EndInv'
  <2>1. ~mode_enabled' /\ wpc' = "read"
    BY <1>1, ReadType
  <2> QED
    BY <2>1 DEF EndInv, InputBehindChronology, PausedSaysWhy, SucceedsOnOwnAnswers, Settled
<1> QED
  BY <1>6, <1>7, <1>8, <1>9, <1>10 DEF IInv

LEMMA ReadRefusesOfferKeeps == IInv /\ ReadRefusesOffer => IInv'
<1> SUFFICES ASSUME IInv, ReadRefusesOffer PROVE IInv'
  OBVIOUS
<1>1. /\ wpc = "read" /\ wire # <<>> /\ wire' = Tail(wire)
      /\ Current.stage = "cfu-offer" /\ Matches(Current, Head(wire))
      /\ borrowed' = (borrowed \/ ~Head(wire).own)
      /\ PausesFor("branch")
      /\ UNCHANGED <<profile, config, asked, heard, path, step, mode_config>>
      /\ TypeInv
  BY DEF ReadRefusesOffer, Reads, IInv
<1>2. step = 14 /\ profile.parity
  BY <1>1, ReadType, CurrentType
<1>3. ~borrowed /\ OneOwn(wire, asked)
  BY <1>1, <1>2, ReadType
<1>4. Head(wire).reply \in Asks
  BY <1>1, ReadType DEF Matches
<1>5. Head(wire).own
  BY <1>1, <1>3, <1>4, ReadKeeps DEF TypeInv, Solicited
<1>6. borrowed' = FALSE
  BY <1>1, <1>3, <1>5
<1>7. wire' \in Seq(Packets) /\ (WireConfig => WireConfig')
        /\ (ResetUnread => ResetUnread')
  BY <1>1, <1>4, WireShrinks DEF Asks
<1>8. heard = LastBefore("branch") \/ ResetUnread'
  BY <1>1, <1>2, <1>7, LastBeforeBranch DEF IInv, HeardInv
<1>9. "branch" \in (Owners \cup {"branch"}) \ profile.provides
  BY ProfileType DEF IInv, Owners
<1> QED
  BY <1>1, <1>6, <1>7, <1>8, <1>9, PauseKeeps, ReadType

LEMMA ReadAcceptsKeeps == IInv /\ ReadAccepts => IInv'
<1> SUFFICES ASSUME IInv, ReadAccepts PROVE IInv'
  OBVIOUS
<1> DEFINE p == Head(wire)
<1>1. /\ wpc = "read" /\ wire # <<>> /\ wire' = Tail(wire) /\ p.reply = Current.reply
      /\ borrowed' = (borrowed \/ ~p.own) /\ mode_config' = ConfigTaken(p)
      /\ step' = step + 1 /\ wpc' = "send"
      /\ UNCHANGED <<profile, config, asked, heard, path, required, gateVars, policyVars>>
      /\ TypeInv
  BY DEF ReadAccepts, Reads, Matches, IInv
<1>2. /\ path = recovery_path /\ path \in Paths /\ required = {} /\ ~mode_enabled
      /\ wire \in Seq(Packets) /\ asked \in Seq(Requests)
      /\ step \in Nat \ {0} /\ step <= Len(Chronology)
      /\ p.reply \in Asks /\ p \in Packets /\ p.own \in BOOLEAN /\ borrowed \in BOOLEAN
  <2>1. p \in Packets
    BY <1>1 DEF TypeInv
  <2> QED
    BY <1>1, <2>1, ReadType DEF Packets
<1>3. Solicited(p) /\ p.reply # "reset"
  BY <1>2 DEF Solicited, Asks
<1>4. /\ wire' \in Seq(Packets) /\ (WireConfig => WireConfig')
      /\ (ResetUnread => ResetUnread')
      /\ WireConfig /\ p.reply = "get70" => p.content = config \/ ResetUnread'
  BY <1>1, <1>3, WireShrinks
<1>5. Chronology' = Chronology /\ (\A k : ProvidedAt(k)' <=> ProvidedAt(k))
  BY <1>1, ChronologyStays
<1>6. ~borrowed
  <2> SUFFICES ASSUME borrowed PROVE FALSE
    OBVIOUS
  <2>1. Blocked(wire, asked) /\ p.reply = "report"
    BY <1>1, ReadType
  <2> QED
    BY <1>1, <1>2, <2>1, ReadKeeps
<1>7. /\ path = "hardware" \/ step > 1 => p.own /\ Quiet(wire', asked')
      /\ p.own => Quiet(wire', asked')
      /\ ~p.own => Comes(wire', asked') /\ Blocked(wire', asked')
  <2>1. CASE path = "hardware" \/ step > 1
    <3>1. OneOwn(wire, asked)
      BY <1>1, <1>6, <2>1, ReadType
    <3> QED
      BY <1>1, <1>2, <1>3, <3>1, ReadKeeps
  <2>2. CASE path = "software" /\ step = 1
    <3>1. OldThenOwn(wire, asked)
      BY <1>1, <1>6, <2>2, ReadType
    <3> QED
      BY <1>1, <1>2, <1>3, <2>2, <3>1, ReadKeeps
  <2> QED
    BY <1>2, <2>1, <2>2 DEF Paths
<1>8. TypeInv'
  <2>1. borrowed' \in BOOLEAN
    BY <1>1
  <2>2. step' \in Nat \ {0}
    BY <1>1, <1>2
  <2> QED
    BY <1>1, <1>4, <2>1, <2>2 DEF TypeInv
<1>9. AttemptInv'
  <2>1. profile.parity => ProvidedAt(step) /\ \A k \in 1 .. step - 1 : ProvidedAt(k)
    BY <1>1 DEF IInv, AttemptInv, Attempting
  <2>2. profile'.parity => \A k \in 1 .. step' - 1 : ProvidedAt(k)'
    BY <1>1, <1>2, <1>5, <2>1
  <2> QED
    BY <1>1, <1>2, <1>5, <2>2 DEF AttemptInv, Attempting
<1>10. PipeInv'
  <2>1. CASE p.own
    <3>1. ~borrowed'
      BY <1>1, <1>6, <2>1
    <3> QED
      BY <1>1, <1>2, <1>7, <2>1, <3>1 DEF PipeInv, Attempting
  <2>2. CASE ~p.own
    <3>1. borrowed' /\ path' = "software" /\ step' = 2
      <4>1. path # "hardware" /\ ~(step > 1)
        BY <1>7, <2>2
      <4>2. path = "software" /\ step = 1
        BY <1>2, <4>1 DEF Paths
      <4>3. borrowed'
        BY <1>1, <2>2, Zenon
      <4>4. path' = "software" /\ step' = 2
        BY <1>1, <4>2
      <4> QED
        BY <4>3, <4>4
    <3> QED
      BY <1>1, <1>7, <2>2, <3>1 DEF PipeInv, Attempting
  <2> QED
    BY <2>1, <2>2
<1>11. HeardInv'
  BY <1>1, <1>2, <1>4 DEF IInv, HeardInv
<1>12. ConfigInv'
  <2> SUFFICES ASSUME ~profile.parity
               PROVE  WireConfig' /\ (step' > 4 => mode_config' = config' \/ ResetUnread')
    BY <1>1 DEF ConfigInv
  <2>1. WireConfig /\ WireConfig'
    BY <1>4 DEF IInv, ConfigInv
  <2>2. p.reply = "get70" <=> step = 4
    BY <1>1, <1>2, CurrentType DEF Attempting
  <2>3. CASE step = 4
    BY <1>1, <1>4, <2>1, <2>2, <2>3 DEF ConfigTaken
  <2>4. CASE step # 4
    <3>1. mode_config' = mode_config
      BY <1>1, <2>2, <2>4 DEF ConfigTaken
    <3>2. step' > 4 => step > 4
      BY <1>1, <1>2, <2>4
    <3>3. step > 4 => mode_config = config \/ ResetUnread
      BY <1>1 DEF IInv, ConfigInv, Attempting
    <3> QED
      BY <1>1, <1>4, <2>1, <3>1, <3>2, <3>3
  <2> QED
    BY <2>1, <2>3, <2>4
<1>13. EndInv'
  BY <1>1, <1>2 DEF EndInv, InputBehindChronology, PausedSaysWhy, SucceedsOnOwnAnswers,
       Settled
<1> QED
  BY <1>8, <1>9, <1>10, <1>11, <1>12, <1>13 DEF IInv

-----------------------------------------------------------------------------
(* Between attempts.                                                       *)

LEMMA IrqReadsKeeps == IInv /\ IrqReads => IInv'
<1> SUFFICES ASSUME IInv, IrqReads PROVE IInv'
  OBVIOUS
<1>1. /\ wpc = "off" /\ mode_enabled /\ wire # <<>> /\ wire' = Tail(wire) /\ TypeInv
      /\ Quiet(wire, asked)
      /\ UNCHANGED <<profile, config, asked, heard, attemptVars,
                     recovery_fail_streak, fatal_transport_error>>
  BY DEF IInv, AttemptInv, PipeInv, IrqReads
<1>2. Quiet(wire', asked')
  BY <1>1, ReadKeeps DEF TypeInv
<1>3. /\ wire' \in Seq(Packets) /\ (WireConfig => WireConfig')
      /\ Head(wire).reply # "reset" /\ ResetUnread => ResetUnread'
  BY <1>1, WireShrinks
<1>4. Chronology' = Chronology /\ (\A owner : LastBefore(owner)' = LastBefore(owner))
  BY <1>1, ChronologyStays
<1>5. CASE Head(wire).reply = "reset"
  <2>1. mode_enabled' = FALSE /\ recovery_path' = NotedPath /\ wpc' = "due"
    BY <1>5 DEF IrqReads
  <2>2. TypeInv'
    <3>1. NotedPath \in Paths
      BY DEF NotedPath, Paths
    <3> QED
      BY <1>1, <1>3, <2>1, <3>1 DEF TypeInv
  <2>3. PipeInv'
    BY <1>2, <2>1 DEF PipeInv, Quiet, AtMostOne, Attempting
  <2>4. AttemptInv' /\ HeardInv'
    BY <2>1 DEF AttemptInv, HeardInv, Attempting
  <2>5. ConfigInv'
    BY <1>1, <1>3, <2>1 DEF IInv, ConfigInv, Attempting
  <2>6. EndInv'
    BY <2>1 DEF EndInv, InputBehindChronology, PausedSaysWhy, SucceedsOnOwnAnswers, Settled
  <2> QED
    BY <2>2, <2>3, <2>4, <2>5, <2>6 DEF IInv
<1>6. CASE Head(wire).reply # "reset"
  <2>1. UNCHANGED <<mode_enabled, recovery_path, wpc>>
    BY <1>6 DEF IrqReads
  <2>2. ResetUnread => ResetUnread'
    BY <1>3, <1>6
  <2>3. TypeInv'
    BY <1>1, <1>3, <2>1 DEF TypeInv
  <2>4. PipeInv'
    BY <1>1, <1>2, <2>1 DEF PipeInv, Attempting
  <2>5. AttemptInv' /\ HeardInv'
    BY <1>1, <2>1 DEF AttemptInv, HeardInv, Attempting
  <2>6. ConfigInv'
    BY <1>1, <1>3, <2>1 DEF IInv, ConfigInv, Attempting
  <2>7. InputBehindChronology' /\ SucceedsOnOwnAnswers'
    BY <1>1, <1>4, <2>1, <2>2 DEF IInv, EndInv, InputBehindChronology,
         SucceedsOnOwnAnswers, Settled
  <2>8. PausedSaysWhy'
    BY <1>1, <1>4, <2>1, <2>2 DEF IInv, EndInv, PausedSaysWhy, Settled
  <2> QED
    BY <2>3, <2>4, <2>5, <2>6, <2>7, <2>8 DEF IInv, EndInv
<1> QED
  BY <1>5, <1>6

LEMMA SuspendResumeKeeps == IInv /\ SuspendResume => IInv'
<1> SUFFICES ASSUME IInv, SuspendResume PROVE IInv'
  OBVIOUS
<1>1. /\ wpc' = "due" /\ mode_enabled' = FALSE /\ fatal_transport_error' = FALSE
      /\ recovery_fail_streak' = 0 /\ recovery_path' = "hardware"
      /\ wire' \in {<<>>, <<ResetPacket>>} /\ asked' = <<>> /\ config' \in Configs
      /\ UNCHANGED <<profile, attemptVars>>
  BY DEF SuspendResume
<1>2. wire' \in Seq(Packets) /\ asked' \in Seq(Requests) /\ WireConfig'
  BY <1>1, WireClears
<1>3. TypeInv'
  BY <1>1, <1>2 DEF IInv, TypeInv, Paths
<1>4. AttemptInv' /\ PipeInv' /\ HeardInv' /\ ConfigInv'
  BY <1>1, <1>2 DEF AttemptInv, PipeInv, HeardInv, ConfigInv, Attempting
<1>5. EndInv'
  BY <1>1 DEF EndInv, InputBehindChronology, PausedSaysWhy, SucceedsOnOwnAnswers, Settled
<1> QED
  BY <1>3, <1>4, <1>5 DEF IInv

-----------------------------------------------------------------------------

LEMMA InitEstablishes == Init => IInv
<1> SUFFICES ASSUME Init PROVE IInv
  OBVIOUS
<1>1. /\ profile \in Profiles /\ config \in Configs
      /\ wire \in {<<>>, <<ResetPacket>>} /\ asked = <<>>
      /\ wpc = "due" /\ path = "hardware" /\ step = 1
      /\ mode_enabled = FALSE /\ recovery_path = "hardware" /\ recovery_fail_streak = 0
      /\ fatal_transport_error = FALSE /\ borrowed = FALSE
  BY DEF Init, ResetPacket, Packet
<1>2. /\ ResetPacket \in Packets /\ ResetPacket.reply = "reset"
  BY DEF ResetPacket, Packet, Packets, Replies
<1>3. wire \in Seq(Packets) /\ asked \in Seq(Requests)
        /\ Len(wire) \in 0 .. 1 /\ (\A i \in 1 .. Len(wire) : wire[i] = ResetPacket)
  <2>1. CASE wire = <<>>
    BY <1>1, <2>1
  <2>2. CASE wire = <<ResetPacket>>
    BY <1>1, <1>2, <2>2
  <2> QED
    BY <1>1, <2>1, <2>2
<1>4. TypeInv
  <2>1. /\ mode_enabled \in BOOLEAN /\ borrowed \in BOOLEAN
        /\ fatal_transport_error \in BOOLEAN
    BY <1>1, Zenon
  <2>2. step \in Nat \ {0} /\ recovery_fail_streak \in Nat
    BY <1>1
  <2> QED
    BY <1>1, <1>3, <2>1, <2>2 DEF TypeInv, Paths
<1>5. AttemptInv /\ PipeInv /\ HeardInv
  BY <1>1 DEF AttemptInv, PipeInv, HeardInv, Attempting
<1>6. ConfigInv
  BY <1>1, <1>2, <1>3 DEF ConfigInv, WireConfig, Attempting
<1>7. EndInv
  BY <1>1 DEF EndInv, InputBehindChronology, PausedSaysWhy, SucceedsOnOwnAnswers, Settled
<1> QED
  BY <1>4, <1>5, <1>6, <1>7 DEF IInv

LEMMA StutterKeeps == IInv /\ UNCHANGED vars => IInv'
<1> SUFFICES ASSUME IInv, UNCHANGED vars PROVE IInv'
  OBVIOUS
<1>1. UNCHANGED <<profile, wpc, attemptVars, gateVars, policyVars, heard, config, wire, asked>>
  BY DEF vars
<1>2. ResetUnread' = ResetUnread /\ (WireConfig => WireConfig')
  BY <1>1 DEF ResetUnread, WireConfig
<1>3. ~profile.parity => WireConfig
  BY DEF IInv, ConfigInv
<1>4. config' \in Configs /\ wire' \in Seq(Packets) /\ asked' \in Seq(Requests)
  BY <1>1 DEF IInv, TypeInv
<1> QED
  BY <1>1, <1>2, <1>3, <1>4, PanelStep

LEMMA NextKeeps == IInv /\ [Next]_vars => IInv'
BY WorkStartsKeeps, PowerCycleKeeps, ReadResetKeeps, SendsKeeps, SendFailsKeeps,
   PausesAtOwnerKeeps, CompletesKeeps, ReadEndsKeeps, ReadAcceptsKeeps,
   ReadRefusesOfferKeeps, ReadSkipsKeeps, ReadMeetsResetKeeps, IrqReadsKeeps,
   SuspendResumeKeeps, PanelAnswersKeeps, PanelStreamsKeeps, PanelResetsKeeps,
   StutterKeeps, Zenon DEF Next, Worker, Idle

(* What holds of every state of every attempt.                             *)
THEOREM Invariant == Spec => []IInv
<1>1. Init => IInv
  BY InitEstablishes
<1>2. IInv /\ [Next]_vars => IInv'
  BY NextKeeps
<1> QED
  BY <1>1, <1>2, PTL DEF Spec

(* Input is open only behind the whole chronology, told in order and with  *)
(* the panel's own configuration, unless a reset of the panel is unread.   *)
THEOREM InputOnlyBehindChronology == Spec => []InputBehindChronology
<1>1. IInv => InputBehindChronology
  BY DEF IInv, EndInv
<1> QED
  BY <1>1, Invariant, PTL

(* An attempt that counts as a success opened input or stands at exactly   *)
(* the boundary it reports.                                                *)
THEOREM PausesStandAtTheirBoundary == Spec => []PausedSaysWhy
<1>1. IInv => PausedSaysWhy
  BY DEF IInv, EndInv
<1> QED
  BY <1>1, Invariant, PTL

(* No attempt succeeds on the answer to an older request.                  *)
THEOREM SuccessOnOwnAnswers == Spec => []SucceedsOnOwnAnswers
<1>1. IInv => SucceedsOnOwnAnswers
  BY DEF IInv, EndInv
<1> QED
  BY <1>1, Invariant, PTL
=============================================================================
