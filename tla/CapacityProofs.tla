--------------------------- MODULE CapacityProofs ---------------------------
(***************************************************************************)
(* Proofs about Capacity: for every volume group, every list of storage    *)
(* class parameters, and every sequence of volumes created and deleted.    *)
(***************************************************************************)
EXTENDS Capacity, TLAPS

-----------------------------------------------------------------------------
(* Arithmetic *)

LEMMA DivMod ==
  ASSUME NEW n \in Int, NEW d \in Nat \ {0}
  PROVE  /\ n \div d \in Int /\ n % d \in Nat /\ n % d < d
         /\ n = d * (n \div d) + (n % d)
OBVIOUS

LEMMA Times ==
  ASSUME NEW a \in Int, NEW b \in Int, NEW d \in Nat, a <= b PROVE d * a <= d * b
OBVIOUS

LEMMA DivBetween ==
  ASSUME NEW n \in Int, NEW d \in Nat \ {0}, NEW q \in Int, d * q <= n, n < d * q + d
  PROVE  n \div d = q
OBVIOUS

LEMMA NoRemainder ==
  ASSUME NEW d \in Nat \ {0}, NEW q \in Int PROVE (q * d) % d = 0 /\ (q * d) \div d = q
<1>1. PICK n : n = q * d
  OBVIOUS
<1>2. n \in Int /\ n = d * q
  BY <1>1
<1>3. n \div d = q
  BY <1>2, DivBetween
<1>4. n = d * (n \div d) + (n % d) /\ n % d \in Nat
  BY <1>2, DivMod
<1>5. n % d = 0
  BY <1>2, <1>3, <1>4
<1> QED BY <1>1, <1>3, <1>5

\* The quotient that lvcreate rounds up.
LEMMA CeilDivIs ==
  ASSUME NEW n \in Nat, NEW d \in Nat \ {0}
  PROVE  CeilDiv(n, d) \in Nat /\ n <= d * CeilDiv(n, d) /\ d * CeilDiv(n, d) < n + d
<1>1. PICK q : q = CeilDiv(n, d)
  OBVIOUS
<1>2. PICK m : m = n + d - 1
  OBVIOUS
<1>3. m \in Nat /\ q = m \div d
  BY <1>1, <1>2 DEF CeilDiv
<1>4. q \in Int /\ m % d \in Nat /\ m % d < d /\ m = d * q + (m % d)
  BY <1>3, DivMod
<1>5. PICK x : x = d * q
  OBVIOUS
<1>6. x \in Int /\ n <= x /\ x < n + d
  BY <1>2, <1>4, <1>5
<1>7. q >= 0
  <2> SUFFICES ASSUME q < 0 PROVE FALSE
    BY <1>4
  <2>1. d * q <= d * (-1)
    BY <1>4, Times
  <2> QED BY <1>5, <1>6, <2>1
<1> QED BY <1>1, <1>4, <1>5, <1>6, <1>7

LEMMA RoundUpIs ==
  ASSUME NEW size \in Nat
  PROVE  /\ RoundUp(size) \in Nat /\ RoundUp(size) % ExtentSize = 0
         /\ size <= RoundUp(size) /\ RoundUp(size) < size + ExtentSize
<1>1. ExtentSize \in Nat \ {0}
  BY CapacityAssumption DEF CapacityAssumption
<1>2. CASE size % ExtentSize = 0
  BY <1>1, <1>2 DEF RoundUp
<1>3. CASE size % ExtentSize # 0
  <2>1. PICK m : m = size + ExtentSize
    OBVIOUS
  <2>2. PICK q : q = m \div ExtentSize
    OBVIOUS
  <2>3. RoundUp(size) = q * ExtentSize
    BY <1>3, <2>1, <2>2 DEF RoundUp
  <2>4. m \in Nat /\ q \in Int /\ m % ExtentSize \in Nat /\ m % ExtentSize < ExtentSize
        /\ m = ExtentSize * q + (m % ExtentSize)
    BY <1>1, <2>1, <2>2, DivMod
  <2>5. PICK s : s = size \div ExtentSize
    OBVIOUS
  <2>6. s \in Int /\ size = ExtentSize * s + (size % ExtentSize)
        /\ size % ExtentSize \in Nat /\ size % ExtentSize < ExtentSize
    BY <1>1, <2>5, DivMod
  <2>7. q = s + 1
    <3>1. PICK t : t = s + 1
      OBVIOUS
    <3>2. t \in Int /\ ExtentSize * t = ExtentSize * s + ExtentSize
      BY <1>1, <2>6, <3>1
    <3>3. ExtentSize * t <= m /\ m < ExtentSize * t + ExtentSize
      BY <1>1, <2>1, <2>6, <3>2
    <3>4. m \div ExtentSize = t
      <4>1. m \in Int
        BY <2>4
      <4>2. t \in Int
        BY <3>2
      <4> QED BY <1>1, <3>3, <4>1, <4>2, DivBetween, Zenon
    <3> QED BY <2>2, <3>1, <3>4
  <2>8. q * ExtentSize = ExtentSize * s + ExtentSize
    BY <1>1, <2>6, <2>7
  <2>9. size < q * ExtentSize /\ q * ExtentSize < size + ExtentSize
    BY <1>1, <1>3, <2>6, <2>8
  <2>10. (q * ExtentSize) % ExtentSize = 0
    BY <1>1, <2>4, NoRemainder
  <2>11. q * ExtentSize \in Int
    BY <1>1, <2>4
  <2> QED BY <2>3, <2>9, <2>10, <2>11
<1> QED BY <1>2, <1>3

-----------------------------------------------------------------------------
(* The extents *)

\* The extents that volumes 1 to i take, which is what an S that fits has at i:
\* with the free ones they are those of the group.
Accounts(S, vols, rest) ==
  /\ S[0] = 0 /\ \A i \in 1..MaxVolumes : S[i] = S[i - 1] + vols[i]
  /\ \A i, j \in 0..MaxVolumes : i <= j => S[i] <= S[j]
  /\ rest + S[MaxVolumes] = ExtentCount
Accounted ==
  /\ free \in Nat /\ volumes \in [1..MaxVolumes -> Nat]
  /\ \E S \in [0..MaxVolumes -> Nat] : Accounts(S, volumes, free)

LEMMA FreeWithin == Accounted => free \in 0..ExtentCount
<1> SUFFICES ASSUME Accounted PROVE free \in 0..ExtentCount
  OBVIOUS
<1>1. PICK S \in [0..MaxVolumes -> Nat] : Accounts(S, volumes, free)
  BY DEF Accounted
<1>2. S[MaxVolumes] \in Nat
  BY CapacityAssumption DEF CapacityAssumption
<1> QED BY <1>1, <1>2, CapacityAssumption DEF Accounts, Accounted, CapacityAssumption

\* A slot that takes another number of extents, out of the free ones.
LEMMA Reaccounted ==
  ASSUME Accounted, NEW v \in 1..MaxVolumes, NEW n \in Nat, NEW f \in Nat,
         f + n = free + volumes[v]
  PROVE  LET vols == [volumes EXCEPT ![v] = n]
         IN  /\ vols \in [1..MaxVolumes -> Nat]
             /\ \E S \in [0..MaxVolumes -> Nat] : Accounts(S, vols, f)
<1>1. PICK S \in [0..MaxVolumes -> Nat] : Accounts(S, volumes, free)
  BY DEF Accounted
<1>2. MaxVolumes \in Nat /\ ExtentCount \in Nat /\ volumes \in [1..MaxVolumes -> Nat] /\ free \in Nat
  BY CapacityAssumption DEF CapacityAssumption, Accounted
<1> DEFINE vols == [volumes EXCEPT ![v] = n]
           T == [i \in 0..MaxVolumes |-> IF i < v THEN S[i] ELSE S[i] - volumes[v] + n]
<1>3. vols \in [1..MaxVolumes -> Nat]
  BY <1>2
<1>4. ASSUME NEW i \in 0..MaxVolumes, i >= v PROVE S[i] - volumes[v] \in Nat /\ S[v - 1] <= S[i] - volumes[v]
  <2>1. v - 1 \in 0..MaxVolumes /\ v \in 0..MaxVolumes /\ v \in Int
    BY <1>2
  <2>2. S[v] = S[v - 1] + volumes[v] /\ S[v] <= S[i]
    BY <1>1, <1>4, <2>1 DEF Accounts
  <2>3. S[v - 1] \in Nat /\ S[v] \in Nat /\ S[i] \in Nat /\ volumes[v] \in Nat
    BY <1>2, <1>4, <2>1
  <2> QED BY <2>2, <2>3
<1>5. ASSUME NEW i \in 0..MaxVolumes
      PROVE  T[i] \in Nat /\ (i < v => T[i] = S[i]) /\ (i >= v => T[i] = S[i] - volumes[v] + n)
  <2>1. i \in Int /\ v \in Int /\ S[i] \in Nat
    BY <1>2
  <2>2. T[i] = IF i < v THEN S[i] ELSE S[i] - volumes[v] + n
    OBVIOUS
  <2>3. i >= v => S[i] - volumes[v] \in Nat
    BY <1>4
  <2> HIDE DEF T
  <2>4. CASE i < v
    BY <2>1, <2>2, <2>4
  <2>5. CASE i >= v
    <3>1. T[i] = S[i] - volumes[v] + n
      BY <2>1, <2>2, <2>5
    <3> QED BY <2>1, <2>3, <2>5, <3>1
  <2> QED BY <2>1, <2>4, <2>5
<1>6. T \in [0..MaxVolumes -> Nat]
  BY <1>5
<1>7. T[0] = 0
  BY <1>1, <1>2, <1>5 DEF Accounts
<1>8. ASSUME NEW i \in 1..MaxVolumes PROVE T[i] = T[i - 1] + vols[i]
  <2>1. i \in 0..MaxVolumes /\ i - 1 \in 0..MaxVolumes /\ i \in Int /\ v \in Int
    BY <1>2
  <2>2. S[i] = S[i - 1] + volumes[i] /\ S[i] \in Nat /\ S[i - 1] \in Nat /\ volumes[i] \in Nat
    BY <1>1, <1>2, <2>1 DEF Accounts
  <2>3. vols[i] = IF i = v THEN n ELSE volumes[i]
    BY <1>2
  <2>4. CASE i < v
    BY <1>5, <2>1, <2>2, <2>3, <2>4
  <2>5. CASE i = v
    BY <1>5, <2>1, <2>2, <2>3, <2>5
  <2>6. CASE i > v
    <3>1. T[i] = S[i] - volumes[v] + n /\ T[i - 1] = S[i - 1] - volumes[v] + n
      BY <1>5, <2>1, <2>6
    <3>2. volumes[v] \in Nat
      BY <1>2
    <3> QED BY <2>1, <2>2, <2>3, <2>6, <3>1, <3>2
  <2> QED BY <2>1, <2>4, <2>5, <2>6
<1>9. ASSUME NEW i \in 0..MaxVolumes, NEW j \in 0..MaxVolumes, i <= j PROVE T[i] <= T[j]
  <2>1. S[i] <= S[j] /\ S[i] \in Nat /\ S[j] \in Nat /\ volumes[v] \in Nat
        /\ i \in Int /\ j \in Int /\ v \in Int
    <3>1. S[i] <= S[j]
      BY <1>1, <1>9 DEF Accounts
    <3>2. S[i] \in Nat /\ S[j] \in Nat /\ volumes[v] \in Nat
      BY <1>2
    <3>3. i \in Int /\ j \in Int /\ v \in Int
      BY <1>2
    <3> QED BY <3>1, <3>2, <3>3
  <2>2. CASE j < v
    BY <1>5, <1>9, <2>1, <2>2
  <2>3. CASE i >= v
    BY <1>5, <1>9, <2>1, <2>3
  <2>4. CASE i < v /\ v <= j
    <3>1. S[v - 1] <= S[j] - volumes[v]
      BY <1>4, <2>4
    <3>2. v - 1 \in 0..MaxVolumes /\ i <= v - 1
      BY <1>2, <2>1, <2>4
    <3>3. S[i] <= S[v - 1] /\ S[v - 1] \in Nat
      BY <1>1, <3>2 DEF Accounts
    <3>4. T[i] = S[i] /\ T[j] = S[j] - volumes[v] + n
      BY <1>5, <2>4
    <3> QED BY <2>1, <3>1, <3>3, <3>4
  <2> QED BY <2>1, <2>2, <2>3, <2>4
<1>10. f + T[MaxVolumes] = ExtentCount
  <2>1. MaxVolumes \in 0..MaxVolumes /\ MaxVolumes >= v /\ S[MaxVolumes] \in Nat
        /\ volumes[v] \in Nat
    BY <1>2
  <2>2. free + S[MaxVolumes] = ExtentCount
    BY <1>1 DEF Accounts
  <2>3. T[MaxVolumes] = S[MaxVolumes] - volumes[v] + n
    BY <1>5, <2>1
  <2>4. PICK a, b : a = volumes[v] /\ b = S[MaxVolumes]
    OBVIOUS
  <2>5. a \in Nat /\ b \in Nat /\ free \in Nat /\ f + n = free + a /\ free + b = ExtentCount
    BY <1>2, <2>1, <2>2, <2>4
  <2>6. f + (b - a + n) = ExtentCount
    BY <2>5
  <2> HIDE DEF T
  <2> QED BY <2>3, <2>4, <2>6
<1> HIDE DEF T, vols
<1>11. Accounts(T, vols, f)
  BY <1>7, <1>8, <1>9, <1>10 DEF Accounts
<1> QED BY <1>3, <1>6, <1>11 DEF vols

-----------------------------------------------------------------------------
(* Layouts *)

Types == {"linear", "raid1", "raid5", "raid6", "raid10"}
LayoutType == [type : Types, mirrors : Nat, stripes : Nat]

LEMMA LayoutIs ==
  ASSUME NEW p \in Params, ~LayoutError(p)
  PROVE  /\ Layout(p) \in LayoutType
         /\ Layout(p).type = "raid1" => Layout(p).stripes = 0
         /\ Layout(p).type # "raid1" => Layout(p).mirrors = 0
         /\ Layout(p).mirrors \in Number \cup {0} /\ Layout(p).stripes \in Number \cup {0}
         /\ p.type = Absent \/ Layout(p).type = p.type
         /\ Layout(p).mirrors # 0 => Layout(p).mirrors = p.mirrors /\ p.type = "raid1"
<1>1. p \in ParamMap
  BY CapacityAssumption DEF CapacityAssumption
<1>2. PICK t, m, s : t = p.type /\ m = p.mirrors /\ s = p.stripes
  OBVIOUS
<1>3. p["mirrors"] = m /\ p["stripes"] = s
  BY <1>1, <1>2 DEF ParamMap
<1>4. /\ t \in {Absent, "linear", "raid1", "raid5", "raid6", "raid10", "raid0"}
      /\ m \in Number \cup {Absent} /\ s \in Number \cup {Absent}
  BY <1>1, <1>2 DEF ParamMap
<1>5. t # "raid0"
  BY <1>2 DEF LayoutError
<1>6. Given(p, "mirrors") <=> t = "raid1" /\ m # Absent
  BY <1>2, <1>3 DEF Given, Consumes
<1>7. Given(p, "stripes") <=> t \in {"linear", "raid5", "raid6", "raid10"} /\ s # Absent
  BY <1>2, <1>3 DEF Given, Consumes
<1>8. PICK l : l = Layout(p)
  OBVIOUS
<1>9. /\ l.type = IF t = Absent THEN "linear" ELSE t
      /\ l.mirrors = IF t = "raid1" /\ m # Absent THEN m ELSE 0
      /\ l.stripes = IF t \in {"linear", "raid5", "raid6", "raid10"} /\ s # Absent THEN s ELSE 0
      /\ l = [type |-> l.type, mirrors |-> l.mirrors, stripes |-> l.stripes]
  BY <1>2, <1>6, <1>7, <1>8 DEF Layout
<1>10. Number \subseteq Nat
  BY DEF Number
<1>11. l.type \in Types
  BY <1>4, <1>5, <1>9 DEF Types
<1>12. l.mirrors \in Number \cup {0} /\ l.stripes \in Number \cup {0}
  BY <1>4, <1>9
<1>13. l \in LayoutType
  BY <1>9, <1>10, <1>11, <1>12 DEF LayoutType
<1>14. Absent \notin Types
  BY CapacityAssumption DEF CapacityAssumption, Types
<1> QED BY <1>2, <1>4, <1>8, <1>9, <1>12, <1>13, <1>14 DEF Types

LEMMA FlagIs ==
  ASSUME NEW l \in LayoutType, NEW d
  PROVE  /\ Flag(l, "mirrors", d) = OrDefault(l.mirrors, d)
         /\ Flag(l, "stripes", d) = OrDefault(l.stripes, d)
<1>1. l["mirrors"] = l.mirrors /\ l["stripes"] = l.stripes
  BY DEF LayoutType
<1> QED BY <1>1 DEF Flag, Flags, OrDefault

\* What lvcreate needs, of each type.
LEMMA NeededIs ==
  ASSUME NEW l \in LayoutType, NEW x \in Nat
  PROVE  /\ Subvolumes(l) \in Nat \ {0} /\ DataParts(l) \in Nat \ {0}
         /\ Needed(l, x) \in Nat
         /\ l.type = "linear" => Needed(l, x) = Subvolumes(l) * CeilDiv(x, DataParts(l))
                                 /\ Subvolumes(l) = DataParts(l)
         /\ l.type # "linear" => Needed(l, x) = Subvolumes(l) * (CeilDiv(x, DataParts(l)) + 1)
         /\ l.type = "raid1" => Subvolumes(l) = OrDefault(l.mirrors, 1) + 1
                                /\ DataParts(l) = OrDefault(l.stripes, 1)
         /\ l.type = "raid10" => Subvolumes(l) = 2 * OrDefault(l.stripes, 2)
                                 /\ DataParts(l) = OrDefault(l.stripes, 2)
         /\ l.type = "raid5" => Subvolumes(l) = OrDefault(l.stripes, 2) + 1
                                /\ DataParts(l) = OrDefault(l.stripes, 2)
         /\ l.type = "raid6" => Subvolumes(l) = OrDefault(l.stripes, 3) + 2
                                /\ DataParts(l) = OrDefault(l.stripes, 3)
         /\ l.type = "linear" => Subvolumes(l) = OrDefault(l.stripes, 1)
<1>1. PICK t, m, s : t = l.type /\ m = l.mirrors /\ s = l.stripes
  OBVIOUS
<1>2. t \in Types /\ m \in Nat /\ s \in Nat
  BY <1>1 DEF LayoutType
<1>3. ASSUME NEW n \in Nat, NEW d \in Nat \ {0} PROVE OrDefault(n, d) \in Nat \ {0}
  BY DEF OrDefault
<1>4. /\ t = "linear" => Subvolumes(l) = OrDefault(s, 1) /\ DataParts(l) = OrDefault(s, 1)
      /\ t = "raid1" => Subvolumes(l) = OrDefault(m, 1) + 1 /\ DataParts(l) = OrDefault(s, 1)
      /\ t = "raid5" => Subvolumes(l) = OrDefault(s, 2) + 1 /\ DataParts(l) = OrDefault(s, 2)
      /\ t = "raid6" => Subvolumes(l) = OrDefault(s, 3) + 2 /\ DataParts(l) = OrDefault(s, 3)
      /\ t = "raid10" => Subvolumes(l) = 2 * OrDefault(s, 2) /\ DataParts(l) = OrDefault(s, 2)
  BY <1>1, FlagIs DEF Subvolumes, DataParts
<1>5. Subvolumes(l) \in Nat \ {0} /\ DataParts(l) \in Nat \ {0}
  BY <1>2, <1>3, <1>4 DEF Types
<1>6. CeilDiv(x, DataParts(l)) \in Nat
  BY <1>5, CeilDivIs
<1>7. PICK c, u : c = CeilDiv(x, DataParts(l)) /\ u = Subvolumes(l)
  OBVIOUS
<1>8. /\ t = "linear" => Needed(l, x) = u * c
      /\ t # "linear" => Needed(l, x) = u * (c + 1)
  BY <1>1, <1>5, <1>6, <1>7 DEF Needed
<1>9. Needed(l, x) \in Nat
  <2>1. u \in Nat /\ c \in Nat
    BY <1>5, <1>6, <1>7
  <2>2. u * c \in Nat /\ u * (c + 1) \in Nat
    BY <2>1
  <2> QED BY <1>8, <2>2
<1> QED BY <1>1, <1>4, <1>5, <1>7, <1>8, <1>9

-----------------------------------------------------------------------------
(* The inductive invariant: what an answer says of its request *)

\* The answers that the properties are about, and the group as it was then.
AnsweredFor(r, kind, bytes, rest) ==
  /\ kind = "OK" =>
       /\ r \in Requests /\ ~OptsError(r.params) /\ bytes = Size(r)
       /\ r.required # Absent /\ r.limit # 0 => Size(r) <= r.limit
  /\ kind = "InsufficientCapacity" =>
       /\ r \in Requests /\ ~LayoutError(r.params) /\ bytes = Size(r)
       /\ \/ r.required # Absent /\ BytesFree(Layout(r.params), rest) < Size(r)
          \/ ~Fits(Layout(r.params), CeilDiv(Size(r), ExtentSize), rest)
  /\ kind = "Capacity" =>
       /\ r.params \in Params /\ ~LayoutError(r.params)
       /\ bytes = ToSigned(BytesFree(Layout(r.params), rest))
Answered ==
  /\ reply.free \in 0..ExtentCount
  /\ AnsweredFor(reply.req, reply.kind, reply.bytes, reply.free)

CInv == Accounted /\ Answered

LEMMA AnswerIs ==
  ASSUME Accounted, NEW kind, NEW r, NEW bytes, Answer(kind, r, bytes),
         AnsweredFor(r, kind, bytes, free)
  PROVE  Answered'
<1>1. /\ reply'.kind = kind /\ reply'.req = r /\ reply'.bytes = bytes /\ reply'.free = free
  BY DEF Answer
<1>2. free \in 0..ExtentCount
  BY FreeWithin
<1>3. PICK re : re = reply'
  OBVIOUS
<1>4. re.kind = kind /\ re.req = r /\ re.bytes = bytes /\ re.free = free
  BY <1>1, <1>3
<1>5. re.free \in 0..ExtentCount /\ AnsweredFor(re.req, re.kind, re.bytes, re.free)
  BY <1>2, <1>4
<1> QED BY <1>3, <1>5 DEF Answered

LEMMA CheckedIs ==
  ASSUME NEW r
  PROVE  /\ Checked(r) \in {"Internal", "InsufficientCapacity", "NotMultipleOfExtentSize",
                            "InvalidArgument", "create"}
         /\ Checked(r) = "InsufficientCapacity" =>
              /\ ~LayoutError(r.params)
              /\ r.required # Absent /\ BytesFree(Layout(r.params), free) < Size(r)
         /\ Checked(r) = "create" =>
              /\ ~LayoutError(r.params) /\ ~OptsError(r.params)
              /\ r.required # Absent /\ r.limit # 0 => ~(Size(r) > r.limit)
BY DEF Checked

LEMMA RequestIs ==
  ASSUME NEW r \in Requests
  PROVE  /\ r.params \in Params /\ r.limit \in Nat
         /\ r.required \in Nat \cup {Absent} /\ Size(r) \in Nat
         /\ r.required # Absent => r.required \in Nat /\ Size(r) = RoundUp(r.required)
<1>1. /\ r.params \in Params /\ r.limit \in Nat /\ r.required \in Nat \cup {Absent}
  BY CapacityAssumption DEF Requests, CapacityAssumption
<1>2. DefaultSize \in Nat
  BY CapacityAssumption DEF CapacityAssumption
<1> QED BY <1>1, <1>2, RoundUpIs DEF Size

LEMMA InitCInv == Init => CInv
<1> SUFFICES ASSUME Init PROVE CInv
  OBVIOUS
<1>1. MaxVolumes \in Nat /\ ExtentCount \in Nat
  BY CapacityAssumption DEF CapacityAssumption
<1>2. free = ExtentCount /\ volumes = [v \in 1..MaxVolumes |-> 0]
  BY DEF Init
<1>3. Accounted
  <2> DEFINE S == [i \in 0..MaxVolumes |-> 0]
  <2>1. S \in [0..MaxVolumes -> Nat]
    OBVIOUS
  <2>2. Accounts(S, volumes, free)
    BY <1>1, <1>2 DEF Accounts
  <2>3. free \in Nat /\ volumes \in [1..MaxVolumes -> Nat]
    BY <1>1, <1>2
  <2> HIDE DEF S
  <2> QED BY <2>1, <2>2, <2>3 DEF Accounted
<1>4. reply.kind = "none" /\ reply.free = 0
  BY DEF Init
<1>5. Answered
  BY <1>1, <1>4 DEF Answered, AnsweredFor
<1> QED BY <1>3, <1>5 DEF CInv

LEMMA StepCInv == CInv /\ [Next]_vars => CInv'
<1> SUFFICES ASSUME CInv, [Next]_vars PROVE CInv'
  OBVIOUS
<1>1. Accounted /\ Answered
  BY DEF CInv
<1>2. ASSUME UNCHANGED <<free, volumes>> PROVE Accounted'
  BY <1>1, <1>2 DEF Accounted
<1>3. ASSUME NEW p \in Params, NEW supported \in BOOLEAN, GetCapacity(p, supported) PROVE CInv'
  <2>1. PICK r : r = [params |-> p, required |-> Absent, limit |-> 0]
    OBVIOUS
  <2>2. r.params = p
    BY <2>1
  <2>3. UNCHANGED <<free, volumes>>
    BY <1>3 DEF GetCapacity
  <2>4. \/ Answer("Unsupported", r, 0) \/ Answer("Internal", r, 0)
        \/ ~LayoutError(p) /\ Answer("Capacity", r, ToSigned(BytesFree(Layout(p), free)))
    BY <1>3, <2>1 DEF GetCapacity
  <2>5. CASE Answer("Unsupported", r, 0)
    <3>1. AnsweredFor(r, "Unsupported", 0, free)
      BY DEF AnsweredFor
    <3> QED BY <1>1, <1>2, <2>3, <2>5, <3>1, AnswerIs DEF CInv
  <2>6. CASE Answer("Internal", r, 0)
    <3>1. AnsweredFor(r, "Internal", 0, free)
      BY DEF AnsweredFor
    <3> QED BY <1>1, <1>2, <2>3, <2>6, <3>1, AnswerIs DEF CInv
  <2>7. CASE ~LayoutError(p) /\ Answer("Capacity", r, ToSigned(BytesFree(Layout(p), free)))
    <3>1. PICK b : b = ToSigned(BytesFree(Layout(p), free))
      OBVIOUS
    <3>2. AnsweredFor(r, "Capacity", b, free)
      BY <2>2, <2>7, <3>1 DEF AnsweredFor
    <3> QED BY <1>1, <1>2, <2>3, <2>7, <3>1, <3>2, AnswerIs DEF CInv
  <2> QED BY <2>4, <2>5, <2>6, <2>7
<1>4. ASSUME NEW v \in 1..MaxVolumes, NEW r \in Requests, CreateVolume(v, r) PROVE CInv'
  <2>1. PICK l, x : l = Layout(r.params) /\ x = CeilDiv(Size(r), ExtentSize)
    OBVIOUS
  <2>2. CASE UNCHANGED <<free, volumes>>
    <3>1. PICK kind, bytes :
            /\ Answer(kind, r, bytes)
            /\ \/ kind = Checked(r) /\ bytes = Size(r) /\ kind # "create"
               \/ kind \in {"Internal", "TooFewDisks"}
               \/ /\ kind = "InsufficientCapacity" /\ bytes = Size(r)
                  /\ Checked(r) = "create" /\ ~Fits(l, x, free)
               \/ kind = "OK" /\ Checked(r) = "create" /\ bytes = Size(r)
      BY <1>4, <2>1 DEF CreateVolume
    <3>2. Size(r) \in Nat /\ r.limit \in Nat
      BY RequestIs
    <3>3. AnsweredFor(r, kind, bytes, free)
      BY <2>1, <3>1, <3>2, CheckedIs DEF AnsweredFor
    <3> QED BY <1>1, <1>2, <2>2, <3>1, <3>3, AnswerIs DEF CInv
  <2>3. CASE /\ Checked(r) = "create" /\ Fits(l, x, free) /\ free' = free - Needed(l, x)
             /\ volumes' = [volumes EXCEPT ![v] = Needed(l, x)] /\ Answer("OK", r, Size(r))
    <3>1. Size(r) \in Nat /\ r.limit \in Nat /\ r.params \in Params
      BY RequestIs
    <3>2. AnsweredFor(r, "OK", Size(r), free)
      BY <2>3, <3>1, CheckedIs DEF AnsweredFor
    <3>3. x \in Nat
      BY <2>1, <3>1, CeilDivIs, CapacityAssumption DEF CapacityAssumption
    <3>4. l \in LayoutType
      BY <2>1, <2>3, <3>1, LayoutIs, CheckedIs
    <3>5. PICK n : n = Needed(l, x)
      OBVIOUS
    <3>6. n \in Nat /\ n <= free /\ free' = free - n /\ volumes' = [volumes EXCEPT ![v] = n]
      BY <2>3, <3>3, <3>4, <3>5, NeededIs DEF Fits
    <3>7. volumes[v] = 0 /\ free \in Nat
      BY <1>1, <1>4 DEF CreateVolume, Accounted
    <3>8. free' \in Nat /\ free' + n = free + volumes[v]
      BY <3>6, <3>7
    <3>9. Accounted'
      BY <1>1, <3>6, <3>8, Reaccounted DEF Accounted
    <3> QED BY <1>1, <2>3, <3>2, <3>9, AnswerIs DEF CInv
  <2> QED BY <1>4, <2>1, <2>2, <2>3 DEF CreateVolume
<1>5. ASSUME NEW v \in 1..MaxVolumes, DeleteVolume(v) PROVE CInv'
  <2>1. free' = free + volumes[v] /\ volumes' = [volumes EXCEPT ![v] = 0] /\ UNCHANGED reply
    BY <1>5 DEF DeleteVolume
  <2>2. volumes[v] \in Nat /\ free \in Nat
    BY <1>1 DEF Accounted
  <2>3. free' \in Nat /\ free' + 0 = free + volumes[v]
    BY <2>1, <2>2
  <2>4. Accounted'
    BY <1>1, <2>1, <2>3, Reaccounted DEF Accounted
  <2>5. Answered'
    BY <1>1, <2>1 DEF Answered
  <2> QED BY <2>4, <2>5 DEF CInv
<1>6. CASE UNCHANGED vars
  BY <1>1, <1>6 DEF vars, CInv, Accounted, Answered
<1> QED BY <1>3, <1>4, <1>5, <1>6 DEF Next

LEMMA InvariantCInv == Spec => []CInv
BY InitCInv, StepCInv, PTL DEF Spec

-----------------------------------------------------------------------------
(* The size and the parameters of a volume that was created *)

\* A volume that CreateVolume makes is the smallest multiple of the extent size
\* that has the required bytes, and is within the limit: RoundUp adds less than
\* an extent, and the limit is compared with what it returns.
THEOREM SizeIsTight == Spec => []TightSize
<1>1. CInv => TightSize
  <2> SUFFICES ASSUME CInv, reply.kind = "OK", reply.req.required # Absent
               PROVE  /\ reply.bytes % ExtentSize = 0
                      /\ reply.req.required <= reply.bytes
                      /\ reply.bytes < reply.req.required + ExtentSize
                      /\ reply.req.limit = 0 \/ reply.bytes <= reply.req.limit
    BY DEF TightSize
  <2>1. PICK r : r = reply.req
    OBVIOUS
  <2>2. /\ r \in Requests /\ reply.bytes = Size(r)
        /\ r.required # Absent /\ r.limit # 0 => Size(r) <= r.limit
    BY <2>1 DEF CInv, Answered, AnsweredFor
  <2>3. r.required \in Nat /\ Size(r) = RoundUp(r.required)
    BY <2>1, <2>2, RequestIs
  <2>4. /\ RoundUp(r.required) % ExtentSize = 0 /\ r.required <= RoundUp(r.required)
        /\ RoundUp(r.required) < r.required + ExtentSize
    BY <2>3, RoundUpIs
  <2> QED BY <2>1, <2>2, <2>3, <2>4
<1> QED BY <1>1, InvariantCInv, PTL

\* No parameter of a volume that was created was ignored: what the layout does
\* not consume is an error of volumeOptsFromParameters.
THEOREM NothingIgnored == Spec => []NothingIgnoredSilently
<1>1. CInv => NothingIgnoredSilently
  <2> SUFFICES ASSUME CInv, reply.kind = "OK" PROVE NothingIgnoredSilently
    BY DEF NothingIgnoredSilently
  <2>1. PICK p : p = reply.req.params
    OBVIOUS
  <2>2. p \in Params /\ ~OptsError(p)
    BY <2>1, RequestIs DEF CInv, Answered, AnsweredFor
  <2>3. p \in ParamMap
    BY <2>2, CapacityAssumption DEF CapacityAssumption
  <2>4. p["mirrors"] = p.mirrors /\ p["nosync"] = p.nosync /\ p["stripes"] = p.stripes
    BY <2>3 DEF ParamMap
  <2>5. /\ p.other # "unexpected"
        /\ p.mirrors # Absent => "mirrors" \in Consumes(p.type)
        /\ p.nosync # Absent => "nosync" \in Consumes(p.type)
        /\ p.stripes # Absent => "stripes" \in Consumes(p.type)
    BY <2>2, <2>4 DEF OptsError
  <2>6. PICK t : t = p.type
    OBVIOUS
  <2>7. /\ "mirrors" \in Consumes(t) => t = "raid1"
        /\ "nosync" \in Consumes(t) => t \in {"raid1", "raid10"}
        /\ "stripes" \in Consumes(t) => t \in {"linear", "raid5", "raid6", "raid10"}
    BY DEF Consumes
  <2> QED BY <2>1, <2>5, <2>6, <2>7 DEF NothingIgnoredSilently
<1> QED BY <1>1, InvariantCInv, PTL

-----------------------------------------------------------------------------
(* Space in unsigned integers *)

LEMMA WrapIs ==
  ASSUME NEW n \in Int
  PROVE  Wrap(n) \in Nat /\ (0 <= n /\ n < 2 ^ Width => Wrap(n) = n)
<1>1. PICK M : M = 2 ^ Width
  OBVIOUS
<1>2. M \in Nat \ {0} /\ Wrap(n) = n % M
  BY <1>1, PowersAssumption DEF Wrap
<1>3. n % M \in Nat /\ n = M * (n \div M) + (n % M) /\ n \div M \in Int
  BY <1>2, DivMod
<1>4. ASSUME 0 <= n, n < M PROVE n % M = n
  BY <1>2, <1>4
<1> QED BY <1>1, <1>2, <1>3, <1>4

LEMMA SignedIs ==
  ASSUME NEW n \in Nat
  PROVE  ToSigned(n) \in Int /\ ToSigned(n) <= n /\ (n < 2 ^ (Width - 1) => ToSigned(n) = n)
BY PowersAssumption DEF ToSigned

\* No product of extents of the group and their size is wrapped.
LEMMA BytesFit ==
  ASSUME NEW n \in 0..ExtentCount
  PROVE  /\ Wrap(n * ExtentSize) = n * ExtentSize /\ n * ExtentSize \in Nat
         /\ ToSigned(n * ExtentSize) = n * ExtentSize
<1>1. ExtentSize \in Nat \ {0} /\ ExtentCount \in Nat /\ ExtentCount * ExtentSize < 2 ^ (Width - 1)
  BY CapacityAssumption DEF CapacityAssumption
<1>2. PICK a, b : a = n * ExtentSize /\ b = ExtentCount * ExtentSize
  OBVIOUS
<1>3. a \in Nat /\ b \in Nat /\ a <= b
  <2>1. ExtentSize * n <= ExtentSize * ExtentCount
    BY <1>1, Times
  <2> QED BY <1>1, <1>2, <2>1
<1>4. a < 2 ^ (Width - 1) /\ a < 2 ^ Width
  BY <1>1, <1>2, <1>3, PowersAssumption
<1> QED BY <1>2, <1>3, <1>4, WrapIs, SignedIs

\* The number of copies of a mirror, and the devices that are asked for.
LEMMA CopiesIs ==
  ASSUME NEW p \in Params, ~LayoutError(p)
  PROVE  Copies(Layout(p)) = OrDefault(Layout(p).mirrors, 1) + 1
<1>1. PICK l : l = Layout(p)
  OBVIOUS
<1>2. l.mirrors \in Number \cup {0}
  BY <1>1, LayoutIs
<1>3. PICK m : m = OrDefault(l.mirrors, 1)
  OBVIOUS
<1>4. m \in Nat /\ m <= 2 ^ (Width - 2)
  BY <1>2, <1>3, PowersAssumption DEF Number, OrDefault
<1>5. m + 1 < 2 ^ Width
  BY <1>4, PowersAssumption
<1>6. Wrap(m + 1) = m + 1
  BY <1>4, <1>5, WrapIs
<1> QED BY <1>1, <1>3, <1>6 DEF Copies

\* The free extents of a layout, when the group has the metadata extents.
LEMMA ExtentsFreeIs ==
  ASSUME NEW p \in Params, ~LayoutError(p), NEW n \in 0..ExtentCount
  PROVE  LET l == Layout(p)
             x == extentsFree(l, n)
         IN  /\ l.type \notin {"raid1", "raid10"} => x = n
             /\ l.type \in {"raid1", "raid10"} /\ Copies(l) <= n =>
                  /\ x \in 0..ExtentCount
                  /\ Copies(l) * (x + 1) <= n /\ n < Copies(l) * (x + 1) + Copies(l)
<1>1. PICK l : l = Layout(p)
  OBVIOUS
<1>2. PICK c : c = Copies(l)
  OBVIOUS
<1>3. c \in Nat \ {0}
  <2>1. l.mirrors \in Nat
    BY <1>1, LayoutIs DEF LayoutType
  <2> QED BY <1>1, <1>2, <2>1, CopiesIs DEF OrDefault
<1>4. PICK x : x = extentsFree(l, n)
  OBVIOUS
<1>5. l.type \notin {"raid1", "raid10"} => x = n
  BY <1>4 DEF extentsFree
<1>6. ASSUME l.type \in {"raid1", "raid10"}, c <= n
      PROVE  x \in 0..ExtentCount /\ c * (x + 1) <= n /\ n < c * (x + 1) + c
  <2>1. n \in Nat /\ n <= ExtentCount /\ ExtentCount \in Nat
    BY CapacityAssumption DEF CapacityAssumption
  <2>2. n < 2 ^ Width
    <3>1. ExtentSize \in Nat \ {0} /\ ExtentCount * ExtentSize < 2 ^ (Width - 1)
      BY CapacityAssumption DEF CapacityAssumption
    <3>2. ExtentCount * 1 <= ExtentCount * ExtentSize
      BY <2>1, <3>1, Times
    <3>3. PICK b : b = ExtentCount * ExtentSize
      OBVIOUS
    <3>4. b \in Int /\ ExtentCount <= b /\ b < 2 ^ (Width - 1)
      BY <2>1, <3>1, <3>2, <3>3
    <3> QED BY <2>1, <3>4, PowersAssumption
  <2>3. PICK m : m = n - c
    OBVIOUS
  <2>4. m \in Nat /\ m < 2 ^ Width
    BY <1>3, <1>6, <2>1, <2>2, <2>3, PowersAssumption
  <2>5. x = m \div c
    BY <1>2, <1>4, <1>6, <2>3, <2>4, WrapIs DEF extentsFree
  <2>6. x \in Int /\ m % c \in Nat /\ m % c < c /\ m = c * x + (m % c)
    BY <1>3, <2>4, <2>5, DivMod
  <2>7. c * (x + 1) = c * x + c
    BY <1>3, <2>6
  <2>8. PICK y : y = c * x
    OBVIOUS
  <2>9. y \in Int /\ y <= m /\ m < y + c
    BY <1>3, <2>4, <2>6, <2>8
  <2>10. c * (x + 1) <= n /\ n < c * (x + 1) + c
    BY <1>3, <2>1, <2>3, <2>7, <2>8, <2>9
  <2>11. x >= 0
    <3> SUFFICES ASSUME x <= -1 PROVE FALSE
      BY <2>6
    <3>1. c * x <= c * (-1)
      BY <1>3, <2>6, Times
    <3> QED BY <1>3, <2>4, <2>8, <2>9, <3>1
  <2>12. x <= m
    <3>1. x * 1 <= x * c
      BY <1>3, <2>6, <2>11, Times
    <3>2. x * c = c * x
      BY <1>3, <2>6
    <3> QED BY <2>4, <2>6, <2>8, <2>9, <3>1, <3>2
  <2>13. x \in 0..ExtentCount
    BY <1>3, <2>1, <2>3, <2>4, <2>6, <2>11, <2>12
  <2> QED BY <2>10, <2>13
<1> QED BY <1>1, <1>2, <1>4, <1>5, <1>6

LEMMA CeilDivOne == ASSUME NEW y \in Nat PROVE CeilDiv(y, 1) = y
<1>1. PICK c : c = CeilDiv(y, 1)
  OBVIOUS
<1>2. c \in Nat /\ y <= 1 * c /\ 1 * c < y + 1
  BY <1>1, CeilDivIs
<1> QED BY <1>1, <1>2

\* Rounded down to whole stripes, an extent count needs no rounding up.
LEMMA WholeStripesIs ==
  ASSUME NEW n \in Nat, NEW d \in Nat \ {0}
  PROVE  /\ (n \div d) * d \in Nat /\ d * CeilDiv((n \div d) * d, d) <= n
         /\ d = 1 => (n \div d) * d = n
<1>1. PICK q : q = n \div d
  OBVIOUS
<1>2. q \in Int /\ n % d \in Nat /\ n % d < d /\ n = d * q + (n % d)
  BY <1>1, DivMod
<1>3. PICK y : y = q * d
  OBVIOUS
<1>4. y = d * q /\ y \in Int /\ y <= n /\ n < y + d
  BY <1>2, <1>3
<1>5. q >= 0
  <2> SUFFICES ASSUME q < 0 PROVE FALSE
    BY <1>2
  <2>1. d * q <= d * (-1)
    BY <1>2, Times
  <2> QED BY <1>4, <2>1
<1>6. y \in Nat
  BY <1>2, <1>3, <1>5
<1>7. PICK k : k = CeilDiv(y, d)
  OBVIOUS
<1>8. k \in Nat /\ y <= d * k /\ d * k < y + d
  BY <1>6, <1>7, CeilDivIs
<1>9. PICK z : z = d * k
  OBVIOUS
<1>10. z \in Int /\ d * q <= z /\ z < d * q + d /\ z = k * d
  BY <1>4, <1>8, <1>9
<1>11. z \div d = q
  <2>1. d * q <= z
    BY <1>10
  <2>2. z < d * q + d
    BY <1>10
  <2>3. z \in Int
    BY <1>10
  <2>4. q \in Int
    BY <1>2
  <2> QED BY <2>1, <2>2, <2>3, <2>4, DivBetween, Zenon
<1>12. z \div d = k
  BY <1>8, <1>10, NoRemainder
<1>13. d * k = y
  BY <1>4, <1>11, <1>12
<1> QED BY <1>1, <1>3, <1>4, <1>6, <1>7, <1>13

\* What GetCapacity reports for a linear or a mirrored volume is, in any group
\* that has the devices and the metadata extents, the most that lvcreate can
\* allocate: an extent more does not fit, and rounded down to whole stripes,
\* which changes nothing of an unstriped volume, it fits.  No wrap, no rounding
\* and no extent of a copy is forgotten.
THEOREM CapacityIsLargest == Spec => []ReportedCapacityIsLargest
<1>1. CInv => ReportedCapacityIsLargest
  <2> SUFFICES ASSUME CInv, Answerable
               PROVE  LET l == Layout(reply.req.params) IN
                        /\ Fits(l, WholeStripes(l, Reported), reply.free)
                        /\ ~Fits(l, Reported + 1, reply.free)
    BY DEF ReportedCapacityIsLargest
  <2>1. PICK p, l, n : p = reply.req.params /\ l = Layout(p) /\ n = reply.free
    OBVIOUS
  <2>2. /\ p \in Params /\ ~LayoutError(p) /\ n \in 0..ExtentCount
        /\ reply.bytes = ToSigned(BytesFree(l, n))
    BY <2>1 DEF CInv, Answered, AnsweredFor, Answerable
  <2>3. /\ l.type \in {"linear", "raid1"} /\ MinNumberOfDevices(l) <= Devices
        /\ EnoughDevices(l) /\ (l.type = "raid1" => Copies(l) <= n)
    BY <2>1 DEF Answerable
  <2>4. l \in LayoutType /\ l.type \in {"linear", "raid1"}
        /\ (l.type = "raid1" => l.stripes = 0)
    BY <2>1, <2>2, <2>3, LayoutIs
  <2>5. PICK x, c : x = extentsFree(l, n) /\ c = Copies(l)
    OBVIOUS
  <2>6. /\ l.type = "linear" => x = n
        /\ l.type = "raid1" =>
             x \in 0..ExtentCount /\ c * (x + 1) <= n /\ n < c * (x + 1) + c
    BY <2>1, <2>2, <2>3, <2>5, ExtentsFreeIs
  <2>7. x \in 0..ExtentCount /\ ExtentCount \in Nat
    BY <2>2, <2>4, <2>6, CapacityAssumption DEF CapacityAssumption
  <2>8. ~(Devices < ToSigned(MinNumberOfDevices(l)))
    <3>1. MinNumberOfDevices(l) \in Nat
      <4>1. PICK m : m = 2 * OrDefault(l.mirrors, 1)
        OBVIOUS
      <4>2. m \in Int
        BY <2>4, <4>1 DEF LayoutType, OrDefault
      <4>3. Wrap(m) \in Nat
        BY <4>2, WrapIs
      <4>4. MinNumberOfDevices(l) = IF l.type = "linear" THEN 1 ELSE Wrap(m)
        BY <2>4, <4>1 DEF MinNumberOfDevices
      <4> QED BY <4>3, <4>4
    <3>2. PICK d, t : d = MinNumberOfDevices(l) /\ t = ToSigned(d)
      OBVIOUS
    <3>3. d \in Nat /\ t \in Int /\ t <= d /\ d <= Devices /\ Devices \in Nat
      BY <2>3, <3>1, <3>2, SignedIs, CapacityAssumption DEF CapacityAssumption
    <3> QED BY <3>2, <3>3
  <2>9. reply.bytes = x * ExtentSize
    BY <2>2, <2>5, <2>7, <2>8, BytesFit DEF BytesFree
  <2>10. Reported = x
    BY <2>7, <2>9, NoRemainder, CapacityAssumption DEF CapacityAssumption, Reported
  <2>11. PICK d : d = DataParts(l)
    OBVIOUS
  <2>12. d \in Nat \ {0} /\ x \in Nat /\ x + 1 \in Nat /\ n \in Nat
    BY <2>2, <2>4, <2>7, <2>11, NeededIs
  <2>13. PICK w : w = (x \div d) * d
    OBVIOUS
  <2>14. w \in Nat /\ d * CeilDiv(w, d) <= x /\ (d = 1 => w = x)
    BY <2>12, <2>13, WholeStripesIs
  <2>15. SUFFICES Needed(l, w) <= n /\ ~(Needed(l, x + 1) <= n)
    BY <2>1, <2>3, <2>10, <2>11, <2>13 DEF Fits, WholeStripes
  <2>16. CASE l.type = "linear"
    <3>1. ASSUME NEW y \in Nat PROVE Needed(l, y) = d * CeilDiv(y, d)
      BY <2>4, <2>11, <2>16, <3>1, NeededIs
    <3>2. Needed(l, w) <= n
      BY <2>6, <2>14, <2>16, <3>1
    <3>3. PICK k : k = d * CeilDiv(x + 1, d)
      OBVIOUS
    <3>4. k \in Int /\ x + 1 <= k
      BY <2>12, <3>3, CeilDivIs
    <3>5. Needed(l, x + 1) = k
      BY <2>12, <3>1, <3>3
    <3> QED BY <2>6, <2>12, <2>16, <3>2, <3>4, <3>5
  <2>17. CASE l.type = "raid1"
    <3>1. c = OrDefault(l.mirrors, 1) + 1 /\ c \in Nat
      <4>1. l.mirrors \in Nat
        BY <2>4 DEF LayoutType
      <4>2. c = OrDefault(l.mirrors, 1) + 1
        BY <2>1, <2>2, <2>5, CopiesIs
      <4> QED BY <4>1, <4>2 DEF OrDefault
    <3>2. d = 1 /\ Subvolumes(l) = c
      <4>1. OrDefault(l.stripes, 1) = 1
        BY <2>4, <2>17 DEF OrDefault
      <4> QED BY <2>4, <2>11, <2>12, <2>17, <3>1, <4>1, NeededIs
    <3>3. ASSUME NEW y \in Nat PROVE Needed(l, y) = c * (y + 1)
      <4>1. CeilDiv(y, 1) = y
        BY CeilDivOne
      <4>2. Needed(l, y) = Subvolumes(l) * (CeilDiv(y, DataParts(l)) + 1)
        BY <2>4, <2>17, <3>3, NeededIs
      <4> QED BY <2>11, <3>2, <4>1, <4>2
    <3>4. Needed(l, w) = c * (x + 1) /\ Needed(l, x + 1) = c * ((x + 1) + 1)
      BY <2>12, <2>14, <3>2, <3>3
    <3>5. c * ((x + 1) + 1) = c * (x + 1) + c
      BY <2>12, <3>1
    <3>6. c * (x + 1) <= n /\ n < c * (x + 1) + c
      BY <2>6, <2>17
    <3>7. c * (x + 1) \in Int
      BY <2>12, <3>1
    <3> QED BY <2>12, <3>1, <3>4, <3>5, <3>6, <3>7
  <2> QED BY <2>4, <2>16, <2>17
<1> QED BY <1>1, InvariantCInv, PTL

-----------------------------------------------------------------------------
(* Refusals *)

\* No storage class asks for more than one mirror: MinNumberOfDevices of a
\* three-way mirror is four devices, where lvcreate needs three.
NoThreeWayMirror ==
  \A p \in Params : p.type = "raid1" /\ p.mirrors # Absent => p.mirrors <= 1

LEMMA WrapLess == ASSUME NEW n \in Nat PROVE Wrap(n) \in Nat /\ Wrap(n) <= n
<1>1. PICK M : M = 2 ^ Width
  OBVIOUS
<1>2. M \in Nat \ {0} /\ Wrap(n) = n % M
  BY <1>1, PowersAssumption DEF Wrap
<1>3. CASE n < M
  BY <1>1, <1>2, <1>3, WrapIs
<1>4. CASE n >= M
  BY <1>2, <1>4, DivMod
<1> QED BY <1>2, <1>3, <1>4

\* The devices that are asked for are no more than the subvolumes.
LEMMA DevicesAsked ==
  ASSUME NoThreeWayMirror, NEW p \in Params, ~LayoutError(p)
  PROVE  LET l == Layout(p) IN ToSigned(MinNumberOfDevices(l)) <= Subvolumes(l)
                               /\ ToSigned(MinNumberOfDevices(l)) \in Int
<1>1. PICK l, t, s, m : l = Layout(p) /\ t = l.type /\ s = l.stripes /\ m = l.mirrors
  OBVIOUS
<1>2. l \in LayoutType /\ t \in Types /\ s \in Nat /\ m \in Nat
  BY <1>1, LayoutIs DEF LayoutType
<1>3. m = 0 \/ (t = "raid1" /\ m = 1)
  <2>1. ASSUME m # 0 PROVE t = "raid1" /\ m = 1
    <3>1. m = p.mirrors /\ p.type = "raid1"
      BY <1>1, <2>1, LayoutIs
    <3>2. p.mirrors # Absent
      BY <1>2, <3>1, CapacityAssumption DEF CapacityAssumption
    <3>3. m <= 1
      BY <3>1, <3>2 DEF NoThreeWayMirror
    <3>4. t = "raid1"
      BY <1>1, <2>1, LayoutIs
    <3> QED BY <1>2, <2>1, <3>3, <3>4
  <2> QED BY <2>1
<1>4. OrDefault(m, 1) = 1
  BY <1>3 DEF OrDefault
<1>5. PICK s2, u : s2 = OrDefault(s, 2) /\ u = Subvolumes(l)
  OBVIOUS
<1>6. s2 \in Nat /\ s <= s2 /\ OrDefault(s, 3) \in Nat /\ s <= OrDefault(s, 3)
  BY <1>2, <1>5 DEF OrDefault
<1>7. u \in Nat \ {0}
      /\ (t = "raid1" => u = 2) /\ (t = "raid5" => u = s2 + 1)
      /\ (t = "raid6" => u = OrDefault(s, 3) + 2) /\ (t = "raid10" => u = 2 * s2)
  BY <1>1, <1>2, <1>4, <1>5, NeededIs
<1>8. PICK d : d = MinNumberOfDevices(l)
  OBVIOUS
<1>9. /\ t = "linear" => d = 1
      /\ t = "raid1" => d = Wrap(2)
      /\ t = "raid5" => d = Wrap(s + 1)
      /\ t = "raid6" => d = Wrap(s + 2)
      /\ t = "raid10" => d = Wrap(2 * s2)
  BY <1>1, <1>2, <1>4, <1>5, <1>8 DEF MinNumberOfDevices
<1>10. d \in Nat /\ d <= u
  <2>1. CASE t = "linear"
    BY <1>7, <1>9, <2>1
  <2>2. CASE t = "raid1"
    BY <1>7, <1>9, <2>2, WrapLess
  <2>3. CASE t = "raid5"
    <3>1. s + 1 \in Nat /\ s + 1 <= u
      BY <1>2, <1>6, <1>7, <2>3
    <3>2. d = Wrap(s + 1) /\ Wrap(s + 1) \in Nat /\ Wrap(s + 1) <= s + 1
      BY <1>9, <2>3, <3>1, WrapLess
    <3> QED BY <1>7, <3>1, <3>2
  <2>4. CASE t = "raid6"
    <3>1. s + 2 \in Nat /\ s + 2 <= u
      BY <1>2, <1>6, <1>7, <2>4
    <3>2. d = Wrap(s + 2) /\ Wrap(s + 2) \in Nat /\ Wrap(s + 2) <= s + 2
      BY <1>9, <2>4, <3>1, WrapLess
    <3> QED BY <1>7, <3>1, <3>2
  <2>5. CASE t = "raid10"
    <3>1. 2 * s2 \in Nat
      BY <1>6
    <3> QED BY <1>7, <1>9, <2>5, <3>1, WrapLess
  <2> QED BY <1>2, <2>1, <2>2, <2>3, <2>4, <2>5 DEF Types
<1>11. ToSigned(d) \in Int /\ ToSigned(d) <= d
  BY <1>10, SignedIs
<1> QED BY <1>1, <1>5, <1>7, <1>8, <1>10, <1>11

\* The extents that a volume of y takes, at least, whatever its stripes.
LEMMA NeededAtLeast ==
  ASSUME NEW p \in Params, ~LayoutError(p), NEW y \in Nat
  PROVE  LET l == Layout(p)
         IN  /\ y <= Needed(l, y) /\ Needed(l, y) \in Nat
             /\ l.type \in {"raid1", "raid10"} => Copies(l) * (y + 1) <= Needed(l, y)
<1>1. PICK l, t, u, d, k : /\ l = Layout(p) /\ t = l.type /\ u = Subvolumes(l)
                           /\ d = DataParts(l) /\ k = CeilDiv(y, d)
  OBVIOUS
<1>2. l \in LayoutType /\ t \in Types /\ l.stripes \in Nat /\ l.mirrors \in Nat
  BY <1>1, LayoutIs DEF LayoutType
<1>3. u \in Nat \ {0} /\ d \in Nat \ {0}
  BY <1>1, <1>2, NeededIs
<1>4. k \in Nat /\ y <= d * k
  BY <1>1, <1>3, CeilDivIs
<1>5. d <= u
  <2>1. /\ t = "linear" => u = d
        /\ t = "raid1" => u = OrDefault(l.mirrors, 1) + 1 /\ d = OrDefault(l.stripes, 1)
        /\ t = "raid10" => u = 2 * OrDefault(l.stripes, 2) /\ d = OrDefault(l.stripes, 2)
        /\ t = "raid5" => u = OrDefault(l.stripes, 2) + 1 /\ d = OrDefault(l.stripes, 2)
        /\ t = "raid6" => u = OrDefault(l.stripes, 3) + 2 /\ d = OrDefault(l.stripes, 3)
    BY <1>1, <1>2, NeededIs
  <2>2. t = "raid1" => l.stripes = 0
    BY <1>1, LayoutIs
  <2>3. t = "raid1" => d = 1
    BY <2>1, <2>2 DEF OrDefault
  <2> QED BY <1>2, <1>3, <2>1, <2>3 DEF Types
<1>6. PICK dk, uk : dk = d * k /\ uk = u * k
  OBVIOUS
<1>7. dk \in Nat /\ uk \in Nat /\ dk <= uk /\ y <= dk
  <2>1. k * d <= k * u
    BY <1>3, <1>4, <1>5, Times
  <2> QED BY <1>3, <1>4, <1>6, <2>1
<1>8. PICK n : n = Needed(l, y)
  OBVIOUS
<1>9. n \in Nat /\ (t = "linear" => n = uk) /\ (t # "linear" => n = uk + u)
  <2>1. u * (k + 1) = u * k + u
    BY <1>3, <1>4
  <2> QED BY <1>1, <1>2, <1>6, <1>8, <2>1, NeededIs
<1>10. y <= n
  BY <1>3, <1>7, <1>9
<1>11. ASSUME t \in {"raid1", "raid10"} PROVE Copies(l) * (y + 1) <= n
  <2>1. PICK c : c = Copies(l)
    OBVIOUS
  <2>2. c = OrDefault(l.mirrors, 1) + 1
    BY <1>1, <2>1, CopiesIs
  <2>3. CASE t = "raid1"
    <3>1. u = c /\ d = 1
      <4>1. l.stripes = 0
        BY <1>1, <2>3, LayoutIs
      <4> QED BY <1>1, <1>2, <2>2, <2>3, <4>1, NeededIs DEF OrDefault
    <3>2. k = y
      BY <1>1, <3>1, CeilDivOne
    <3>3. c * (y + 1) = c * y + c /\ c \in Nat
      BY <1>3, <3>1
    <3>4. uk = c * y
      BY <1>6, <3>1, <3>2
    <3> QED BY <1>3, <1>7, <1>9, <2>1, <2>3, <3>1, <3>3, <3>4
  <2>4. CASE t = "raid10"
    <3>1. c = 2
      <4>1. l.mirrors = 0
        BY <1>1, <2>4, LayoutIs
      <4> QED BY <2>2, <4>1 DEF OrDefault
    <3>2. u = 2 * d
      BY <1>1, <1>2, <2>4, NeededIs
    <3>3. uk = 2 * dk
      BY <1>3, <1>4, <1>6, <3>2
    <3> QED BY <1>3, <1>7, <1>9, <2>1, <2>4, <3>1, <3>2, <3>3
  <2> QED BY <1>11, <2>3, <2>4
<1> QED BY <1>1, <1>8, <1>9, <1>10, <1>11

\* What lvcreate can allocate is within BytesFree.
LEMMA FitsIsFree ==
  ASSUME NoThreeWayMirror, NEW p \in Params, ~LayoutError(p), NEW size \in Nat,
         NEW n \in 0..ExtentCount, Fits(Layout(p), CeilDiv(size, ExtentSize), n)
  PROVE  ~(BytesFree(Layout(p), n) < size)
<1>1. PICK l, y, x : l = Layout(p) /\ y = CeilDiv(size, ExtentSize) /\ x = extentsFree(l, n)
  OBVIOUS
<1>2. ExtentSize \in Nat \ {0} /\ ExtentCount \in Nat /\ Devices \in Nat
  BY CapacityAssumption DEF CapacityAssumption
<1>3. y \in Nat /\ size <= ExtentSize * y
  BY <1>1, <1>2, CeilDivIs
<1>4. l \in LayoutType
  BY <1>1, LayoutIs
<1>5. ~(Devices < ToSigned(MinNumberOfDevices(l)))
  <2>1. PICK d, u : d = ToSigned(MinNumberOfDevices(l)) /\ u = Subvolumes(l)
    OBVIOUS
  <2>2. d \in Int /\ d <= u
    BY <1>1, <2>1, DevicesAsked
  <2>3. u \in Nat
    BY <1>3, <1>4, <2>1, NeededIs
  <2>4. u <= Devices
    BY <1>1, <2>1 DEF Fits, EnoughDevices
  <2> QED BY <1>2, <2>1, <2>2, <2>3, <2>4
<1>6. PICK need : need = Needed(l, y)
  OBVIOUS
<1>7. need \in Nat /\ need <= n /\ y <= need /\ n \in Nat
  BY <1>1, <1>2, <1>3, <1>6, NeededAtLeast DEF Fits
<1>8. x \in 0..ExtentCount /\ y <= x
  <2>1. CASE l.type \notin {"raid1", "raid10"}
    <3>1. x = n
      BY <1>1, <2>1, ExtentsFreeIs
    <3> QED BY <1>2, <1>3, <1>7, <3>1
  <2>2. CASE l.type \in {"raid1", "raid10"}
    <3>1. PICK c : c = Copies(l)
      OBVIOUS
    <3>2. c \in Nat \ {0}
      <4>1. l.mirrors \in Nat
        BY <1>4 DEF LayoutType
      <4>2. c = OrDefault(l.mirrors, 1) + 1
        BY <1>1, <3>1, CopiesIs
      <4> QED BY <4>1, <4>2 DEF OrDefault
    <3>3. c * (y + 1) <= need
      BY <1>1, <1>3, <1>6, <2>2, <3>1, NeededAtLeast
    <3>4. PICK a : a = c * (y + 1)
      OBVIOUS
    <3>5. a \in Int /\ c <= a
      <4>1. c * 1 <= c * (y + 1)
        BY <1>3, <3>2, Times
      <4> QED BY <1>3, <3>2, <3>4, <4>1
    <3>6. c <= n /\ a <= n
      BY <1>7, <3>2, <3>3, <3>4, <3>5
    <3>7. x \in 0..ExtentCount /\ n < c * (x + 1) + c
      BY <1>1, <2>2, <3>1, <3>6, ExtentsFreeIs
    <3>8. y <= x
      <4> SUFFICES ASSUME x + 1 <= y PROVE FALSE
        BY <1>2, <1>3, <3>7
      <4>1. c * (x + 2) <= c * (y + 1)
        BY <1>2, <1>3, <3>2, <3>7, Times
      <4>2. c * (x + 2) = c * (x + 1) + c
        BY <1>2, <3>2, <3>7
      <4>3. PICK b : b = c * (x + 1)
        OBVIOUS
      <4>4. b \in Int
        BY <1>2, <3>2, <3>7, <4>3
      <4>5. b + c <= a /\ n < b + c
        BY <3>4, <3>7, <4>1, <4>2, <4>3
      <4> QED BY <1>7, <3>2, <3>5, <3>6, <4>4, <4>5
    <3> QED BY <3>7, <3>8
  <2> QED BY <2>1, <2>2
<1>9. BytesFree(l, n) = x * ExtentSize /\ x * ExtentSize \in Nat
  BY <1>1, <1>5, <1>8, BytesFit DEF BytesFree
<1>10. ExtentSize * y <= x * ExtentSize
  <2>1. ExtentSize * y <= ExtentSize * x
    BY <1>2, <1>3, <1>8, Times
  <2>2. ExtentSize * x = x * ExtentSize
    BY <1>2, <1>8
  <2> QED BY <2>1, <2>2
<1>11. PICK f, g : f = x * ExtentSize /\ g = ExtentSize * y
  OBVIOUS
<1>12. g \in Int
  BY <1>2, <1>3, <1>11
<1> QED BY <1>1, <1>3, <1>9, <1>10, <1>11, <1>12

\* CreateVolume refuses nothing for want of space that lvcreate would have
\* made, of any type and number of stripes, whatever was created and deleted
\* before, unless a storage class asks for a three-way mirror: BytesFree is
\* never less than the largest volume of its layout.
THEOREM RefusalsAreRight ==
  ASSUME NoThreeWayMirror PROVE Spec => []NoFalseRefusal
<1>1. CInv => NoFalseRefusal
  <2> SUFFICES ASSUME CInv, reply.kind = "InsufficientCapacity"
               PROVE  ~Fits(Layout(reply.req.params), CeilDiv(reply.bytes, ExtentSize), reply.free)
    BY DEF NoFalseRefusal
  <2>1. PICK r, p, n : r = reply.req /\ p = r.params /\ n = reply.free
    OBVIOUS
  <2>2. /\ r \in Requests /\ ~LayoutError(p) /\ reply.bytes = Size(r) /\ n \in 0..ExtentCount
        /\ \/ BytesFree(Layout(p), n) < Size(r)
           \/ ~Fits(Layout(p), CeilDiv(Size(r), ExtentSize), n)
    BY <2>1 DEF CInv, Answered, AnsweredFor
  <2>3. p \in Params /\ Size(r) \in Nat
    BY <2>1, <2>2, RequestIs
  <2>4. BytesFree(Layout(p), n) < Size(r) => ~Fits(Layout(p), CeilDiv(Size(r), ExtentSize), n)
    BY <2>2, <2>3, FitsIsFree
  <2> QED BY <2>1, <2>2, <2>4
<1> QED BY <1>1, InvariantCInv, PTL
=============================================================================
