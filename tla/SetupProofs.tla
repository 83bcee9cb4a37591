------------------------------ MODULE SetupProofs ------------------------------
(***************************************************************************)
(* Proofs about the start of the program (Setup): the table of modes the   *)
(* constructors fill, the mode the command line selects from it and the    *)
(* options that mode gets, for any modes, any size the table grows by, any *)
(* option strings and any number of arguments.  Of qsort, which is the C   *)
(* library's, the proofs use that it sorts.                                *)
(***************************************************************************)
EXTENDS Setup, FiniteSetTheorems, TLAPS

\* What setup_memsync_info relies on: qsort permutes its array and leaves it
\* in ascending order.
QsortSorts ==
    \E p \in Bijection(1..Methods, 1..Methods) :
        /\ MemsyncInfo = [i \in 1..Methods |-> Section[p[i]]]
        /\ \A i, j \in 1..Methods : i < j => MemsyncInfo[i] <= MemsyncInfo[j]

-----------------------------------------------------------------------------
\* The inductive invariant

NameOrNone == Names \cup {""}
Slot == [name : NameOrNone, ops : NameOrNone, initialized : BOOLEAN]
Entry(name) == [name |-> name, ops |-> name, initialized |-> TRUE]

Config == [mode : Nat, thread : {"fork", "pthread", "clone"}, runtime : Nat,
           interval : 0..2, summary : BOOLEAN, latency : Int, sched : {"fifo", "rr"},
           affinity : BOOLEAN]

\* The table has been grown a whole number of times, to no more than the slot
\* count needs; a slot in use is complete and has a name no other has.
TableOK ==
    /\ count \in Nat
    /\ \E k \in Nat : /\ count <= k * Increment /\ k * Increment < count + Increment
                      /\ table \in [0..(k * Increment - 1) -> Slot]
    /\ \A i \in 0..(count - 1) : table[i].name \in Names /\ table[i] = Entry(table[i].name)
    /\ \A i \in DOMAIN table : i >= count => table[i] = Zero
    /\ \A i, j \in 0..(count - 1) : table[i].name = table[j].name => i = j

\* From main on the table is complete, and the mode is the one asked for.
ModeOK ==
    /\ phase = "constructors" => asked = "none"
    /\ phase \in {"options", "setup", "started"} =>
          /\ count = Cardinality(Names) /\ config.mode \in 0..(count - 1)
          /\ asked \in Names => table[config.mode].name = asked
          /\ asked \notin Names => config.mode = 0

ChosenOps == table[config.mode].ops
NoMethods == methods = [ping |-> -1, pong |-> -1]

\* What the string of -o says the two threads use.
MethodsGiven ==
    /\ optString.first \in 0..(Methods - 1)
    /\ methods = [ping |-> optString.first,
                  pong |-> CASE optString.then = "end"   -> optString.first
                             [] optString.then = "comma" -> optString.second
                             [] OTHER                    -> -1]
    /\ optString.then = "comma" => optString.second \in 0..(Methods - 1)
    /\ infos = [ping |-> Info(methods.ping), pong |-> Info(methods.pong)]

\* The options are those of the mode chosen, as far as it has been set up.
OptionsOK ==
    /\ phase \in {"constructors", "options"} => NoMethods /\ variety = -1
    /\ phase \in {"setup", "started"} =>
          /\ ChosenOps # "spin" => NoMethods
          /\ ChosenOps # "nop" => variety = -1
          /\ ChosenOps = "spin" /\ optString # NoOptString => MethodsGiven
          /\ ChosenOps = "nop" /\ optString # NoOptString =>
                variety = optString.first /\ variety # -1
    /\ phase = "setup" /\ optString = NoOptString => NoMethods /\ variety = -1
    /\ phase = "started" /\ optString = NoOptString =>
          /\ ChosenOps = "spin" => methods = [ping |-> 0, pong |-> 0]
          /\ ChosenOps = "nop" => variety = 0

\* The rest of the types.
PlainOK ==
    /\ phase \in {"constructors", "options", "setup", "started", "refused"}
    /\ args \in 0..MaxArgs /\ config \in Config
    /\ optString \in OptStrings \cup {NoOptString}
    /\ methods \in [ping : Int, pong : Int] /\ variety \in -1..(Varieties - 1)

SetupInv == TableOK /\ ModeOK /\ OptionsOK /\ PlainOK

-----------------------------------------------------------------------------
\* The table

\* What the constants are.
LEMMA SetupConstants ==
  /\ "spin" \in Names /\ "none" \notin Names /\ IsFiniteSet(Names)
  /\ Increment \in Nat /\ Increment > 0 /\ Varieties \in Nat /\ Varieties > 0
  /\ MaxArgs \in Nat /\ OptStrings \subseteq OptString
  BY SetupAssumption DEF SetupAssumption

\* Spin has at least one method.
LEMMA MethodsPositive == Methods \in Nat /\ Methods > 0
  BY SetupAssumption DEF SetupAssumption, Methods

\* The number of modes is not zero.
LEMMA NamesCounted == Cardinality(Names) \in Nat /\ Cardinality(Names) > 0
  BY SetupConstants, FS_CardinalityType, FS_EmptySet

\* The names in use are as many as the slots in use.
LEMMA CountBounded ==
  ASSUME TableOK
  PROVE  /\ count <= Cardinality(Names)
         /\ count = Cardinality(Names) => \A n \in Names : \E i \in 0..(count - 1) : table[i].name = n
<1> DEFINE f == [i \in 0..(count - 1) |-> table[i].name]
<1>1. count \in Nat
  BY DEF TableOK
<1>2. f \in [0..(count - 1) -> Names]
  BY DEF TableOK
<1>3. \A i, j \in 0..(count - 1) : f[i] = f[j] => i = j
  BY DEF TableOK
<1>4. f \in Injection(0..(count - 1), Names)
  BY <1>2, <1>3 DEF Injection, IsInjective
<1>5. Cardinality(0..(count - 1)) = count
  BY <1>1, FS_Interval
<1> HIDE DEF f
<1>6. /\ count <= Cardinality(Names)
      /\ count = Cardinality(Names) => f \in Surjection(0..(count - 1), Names)
  BY <1>4, <1>5, FS_Injection, SetupConstants
<1>7. f \in Surjection(0..(count - 1), Names) => \A n \in Names : \E i \in 0..(count - 1) : f[i] = n
  BY DEF Surjection
<1> QED
  BY <1>6, <1>7 DEF f

\* A name has at most one slot, so the first one is that one.
LEMMA FirstSlot ==
  ASSUME NEW t, NEW n \in Nat, NEW name, NEW i \in 0..(n - 1), t[i].name = name,
         \A j \in 0..(n - 1) : t[j].name = name => j = i
  PROVE  Slots(t, n, name) # {} /\ First(Slots(t, n, name)) = i
<1>1. Slots(t, n, name) = {i}
  BY DEF Slots
<1>2. \A j \in {i} : i <= j
  OBVIOUS
<1> QED
  BY <1>1, <1>2 DEF First

\* parse_comm_mode finds a name of the table, and nothing else.
LEMMA ModeFound ==
  ASSUME TableOK, count = Cardinality(Names), NEW name
  PROVE  /\ ParseCommMode(name) \in 0..(count - 1)
         /\ name \in Names => table[ParseCommMode(name)].name = name
         /\ name \notin Names => ParseCommMode(name) = 0
<1>1. count \in Nat /\ count > 0
  BY NamesCounted DEF TableOK
<1>2. CASE name \in Names
  <2>1. PICK i \in 0..(count - 1) : table[i].name = name
    BY <1>2, CountBounded
  <2>2. \A j \in 0..(count - 1) : table[j].name = name => j = i
    BY <2>1 DEF TableOK
  <2>3. Slots(table, count, name) # {} /\ First(Slots(table, count, name)) = i
    BY <1>1, <2>1, <2>2, FirstSlot
  <2> QED
    BY <1>2, <2>1, <2>3 DEF ParseCommMode
<1>3. CASE name \notin Names
  <2>1. Slots(table, count, name) = {}
    BY <1>3 DEF Slots, TableOK
  <2> QED
    BY <1>1, <1>3, <2>1 DEF ParseCommMode
<1> QED
  BY <1>2, <1>3

\* comm_mode_add's realloc: there is room for one slot more, the slots in use
\* are kept and the others are zero.
LEMMA GrownOK ==
  ASSUME TableOK
  PROVE  \E k \in Nat : /\ count < k * Increment /\ k * Increment < count + 1 + Increment
                        /\ Grown \in [0..(k * Increment - 1) -> Slot]
                        /\ \A i \in 0..(count - 1) : Grown[i] = table[i]
                        /\ \A i \in 0..(k * Increment - 1) : i >= count => Grown[i] = Zero
<1>1. count \in Nat /\ Increment \in Nat /\ Increment > 0
  BY SetupConstants DEF TableOK
<1>2. PICK k \in Nat : /\ count <= k * Increment /\ k * Increment < count + Increment
                       /\ table \in [0..(k * Increment - 1) -> Slot]
  BY DEF TableOK
<1>3. Zero \in Slot
  BY DEF Zero, Slot, NameOrNone
<1>4. CASE count % Increment = 0
  <2>1. PICK q \in Nat : count = q * Increment
    <3>1. count = Increment * (count \div Increment) + (count % Increment) /\ count \div Increment \in Nat
      BY <1>1
    <3>2. Increment * (count \div Increment) = (count \div Increment) * Increment
      BY <1>1, <3>1
    <3> QED
      BY <1>1, <1>4, <3>1, <3>2
  <2>2. PICK m \in Nat : m * Increment = count + Increment
    <3>1. (q + 1) * Increment = count + Increment /\ q + 1 \in Nat
      BY <1>1, <2>1
    <3> QED
      BY <3>1
  <2>3. Grown = [i \in 0..(count + Increment - 1) |-> IF i < count THEN table[i] ELSE Zero]
    BY <1>4 DEF Grown
  <2>4. \A i \in 0..(count - 1) : table[i] \in Slot
    BY <1>1, <1>2
  <2>5. Grown \in [0..(count + Increment - 1) -> Slot]
    BY <1>1, <1>3, <2>3, <2>4
  <2>6. \A i \in 0..(count - 1) : Grown[i] = table[i]
    BY <1>1, <2>3
  <2>7. \A i \in 0..(count + Increment - 1) : i >= count => Grown[i] = Zero
    BY <1>1, <2>3
  <2>8. count < count + Increment /\ count + Increment < count + 1 + Increment
    BY <1>1
  <2>9. /\ count < m * Increment /\ m * Increment < count + 1 + Increment
        /\ 0..(m * Increment - 1) = 0..(count + Increment - 1)
    BY <1>1, <2>2, <2>8
  <2> QED
    BY <2>5, <2>6, <2>7, <2>9
<1>5. CASE count % Increment # 0
  <2>1. Grown = table
    BY <1>5 DEF Grown
  <2>2. count # k * Increment
    <3>1. (Increment * k) % Increment = 0 /\ Increment * k = k * Increment
      BY <1>1
    <3> QED
      BY <1>5, <3>1
  <2>3. k * Increment \in Nat
    BY <1>1
  <2>4. count < k * Increment /\ k * Increment < count + 1 + Increment
    BY <1>1, <1>2, <2>2, <2>3
  <2>5. \A i \in 0..(k * Increment - 1) : i >= count => table[i] = Zero
    BY <1>2 DEF TableOK
  <2> QED
    BY <1>2, <2>1, <2>4, <2>5
<1> QED
  BY <1>4, <1>5

\* A slot with its third member assigned to.
LEMMA SlotFlagged ==
  \A b : \A r \in Slot :
    [r EXCEPT !.initialized = b] = [name |-> r.name, ops |-> r.ops, initialized |-> b]
  BY DEF Slot

\* The two assignments to a slot's members that comm_mode_add makes.
LEMMA SlotAdded ==
  ASSUME NEW D, NEW f \in [D -> Slot], NEW c \in D, NEW n \in NameOrNone
  PROVE  [f EXCEPT ![c].name = n, ![c].initialized = FALSE]
           = [f EXCEPT ![c] = [name |-> n, ops |-> f[c].ops, initialized |-> FALSE]]
<1> DEFINE g == [f EXCEPT ![c].name = n]
           r == [name |-> n, ops |-> f[c].ops, initialized |-> f[c].initialized]
<1>1. f[c] \in Slot
  OBVIOUS
<1>2. [f[c] EXCEPT !.name = n] = r
  BY <1>1 DEF Slot
<1>3. g = [f EXCEPT ![c] = r]
  BY <1>2
<1>4. r \in Slot /\ g[c] = r
  BY <1>1, <1>3 DEF Slot
<1>5. [f EXCEPT ![c].name = n, ![c].initialized = FALSE] = [g EXCEPT ![c].initialized = FALSE]
  OBVIOUS
<1>6. r.name = n /\ r.ops = f[c].ops
  OBVIOUS
<1> HIDE DEF g, r
<1>7. [r EXCEPT !.initialized = FALSE] = [name |-> n, ops |-> f[c].ops, initialized |-> FALSE]
  BY <1>4, <1>6, SlotFlagged, Zenon
<1>8. [g EXCEPT ![c].initialized = FALSE] = [g EXCEPT ![c] = [r EXCEPT !.initialized = FALSE]]
  BY <1>4
<1> QED
  BY <1>3, <1>5, <1>7, <1>8

\* And the two that comm_mode_do_initialization makes.
LEMMA SlotInitialized ==
  ASSUME NEW D, NEW f \in [D -> Slot], NEW c \in D, NEW n \in NameOrNone, f[c].name = n
  PROVE  [f EXCEPT ![c].ops = n, ![c].initialized = TRUE] = [f EXCEPT ![c] = Entry(n)]
<1> DEFINE g == [f EXCEPT ![c].ops = n]
           r == [name |-> n, ops |-> n, initialized |-> f[c].initialized]
<1>1. f[c] \in Slot
  OBVIOUS
<1>2. [f[c] EXCEPT !.ops = n] = r
  BY <1>1 DEF Slot
<1>3. g = [f EXCEPT ![c] = r]
  BY <1>2
<1>4. r \in Slot /\ g[c] = r
  BY <1>1, <1>3 DEF Slot
<1>5. [f EXCEPT ![c].ops = n, ![c].initialized = TRUE] = [g EXCEPT ![c].initialized = TRUE]
  OBVIOUS
<1>6. r.name = n /\ r.ops = n
  OBVIOUS
<1> HIDE DEF g, r
<1>7. [r EXCEPT !.initialized = TRUE] = Entry(n)
  BY <1>4, <1>6, SlotFlagged, Zenon DEF Entry
<1>8. [g EXCEPT ![c].initialized = TRUE] = [g EXCEPT ![c] = [r EXCEPT !.initialized = TRUE]]
  BY <1>4
<1> QED
  BY <1>3, <1>5, <1>7, <1>8

\* A constructor fills the next slot: comm_mode_do_initialization finds the
\* slot that comm_mode_add has just filled.
LEMMA Constructed ==
  ASSUME TableOK, NEW name \in Names, Construct(name)
  PROVE  TableOK' /\ table' = [Grown EXCEPT ![count] = Entry(name)]
<1>1. PICK k \in Nat : /\ count < k * Increment /\ k * Increment < count + 1 + Increment
                       /\ Grown \in [0..(k * Increment - 1) -> Slot]
                       /\ \A i \in 0..(count - 1) : Grown[i] = table[i]
                       /\ \A i \in 0..(k * Increment - 1) : i >= count => Grown[i] = Zero
  BY GrownOK
<1>2. count \in Nat /\ k * Increment \in Nat /\ count' = count + 1
  BY SetupConstants DEF TableOK, Construct
<1>3. count \in 0..(k * Increment - 1) /\ \A i \in 0..(count - 1) : i \in 0..(k * Increment - 1) /\ i # count
  BY <1>1, <1>2
<1> DEFINE added == [Grown EXCEPT ![count].name = name, ![count].initialized = FALSE]
<1>4. /\ added \in [0..(k * Increment - 1) -> Slot]
      /\ added[count].name = name
      /\ \A i \in 0..(k * Increment - 1) : i # count => added[i] = Grown[i]
  <2> DEFINE r == [name |-> name, ops |-> Grown[count].ops, initialized |-> FALSE]
  <2>1. name \in NameOrNone
    BY DEF NameOrNone
  <2>2. added = [Grown EXCEPT ![count] = r]
    BY <1>1, <1>3, <2>1, SlotAdded
  <2>3. r \in Slot /\ r.name = name
    BY <1>1, <1>3, <2>1 DEF Slot
  <2> HIDE DEF r
  <2> QED
    BY <1>1, <1>3, <2>2, <2>3
<1>5. First(Slots(added, count + 1, name)) = count
  <2>1. added[count].name = name
    BY <1>4
  <2>2. \A j \in 0..(count + 1 - 1) : added[j].name = name => j = count
    <3>1. \A j \in 0..(count - 1) : added[j].name = table[j].name
      BY <1>1, <1>3, <1>4
    <3>2. \A j \in 0..(count - 1) : table[j].name # name
      BY DEF Construct
    <3> QED
      BY <1>2, <3>1, <3>2
  <2>3. count \in 0..(count + 1 - 1) /\ count + 1 \in Nat
    BY <1>2
  <2> HIDE DEF added
  <2> QED
    BY <2>1, <2>2, <2>3, FirstSlot
<1>6. table' = [added EXCEPT ![count].ops = name, ![count].initialized = TRUE]
  BY <1>5 DEF Construct
<1> HIDE DEF added
<1>7. /\ table' \in [0..(k * Increment - 1) -> Slot]
      /\ table'[count] = Entry(name)
      /\ \A i \in 0..(k * Increment - 1) : i # count => table'[i] = Grown[i]
  <2>1. name \in NameOrNone
    BY DEF NameOrNone
  <2>2. table' = [added EXCEPT ![count] = Entry(name)]
    BY <1>3, <1>4, <1>6, <2>1, SlotInitialized
  <2>3. Entry(name) \in Slot
    BY <2>1 DEF Entry, Slot
  <2> QED
    BY <1>3, <1>4, <2>2, <2>3
<1>8. table' = [Grown EXCEPT ![count] = Entry(name)]
  BY <1>1, <1>3, <1>7
<1>9. \A i \in 0..(count - 1) : table'[i] = table[i]
  BY <1>1, <1>3, <1>7
<1>10. Entry(name).name = name
  BY DEF Entry
<1>11. TableOK'
  <2>1. \A i \in 0..count : table'[i].name \in Names /\ table'[i] = Entry(table'[i].name)
    <3>1. \A i \in 0..(count - 1) : table'[i].name \in Names /\ table'[i] = Entry(table'[i].name)
      BY <1>9 DEF TableOK
    <3>2. table'[count].name \in Names /\ table'[count] = Entry(table'[count].name)
      BY <1>7, <1>10
    <3> QED
      BY <1>2, <3>1, <3>2
  <2>2. \A i \in DOMAIN table' : i >= count + 1 => table'[i] = Zero
    BY <1>1, <1>2, <1>7
  <2>3. \A i, j \in 0..count : table'[i].name = table'[j].name => i = j
    <3>1. \A i, j \in 0..(count - 1) : table'[i].name = table'[j].name => i = j
      BY <1>9 DEF TableOK
    <3>2. \A i \in 0..(count - 1) : table'[i].name # table'[count].name
      BY <1>7, <1>9, <1>10 DEF Construct
    <3> QED
      BY <1>2, <3>1, <3>2
  <2>4. count' \in Nat /\ count' - 1 = count
    BY <1>2
  <2>5. count' <= k * Increment /\ k * Increment < count' + Increment
    BY <1>1, <1>2, SetupConstants
  <2> QED
    BY <1>2, <1>7, <2>1, <2>2, <2>3, <2>4, <2>5 DEF TableOK
<1> QED
  BY <1>8, <1>11

-----------------------------------------------------------------------------
\* Initial states and the steps

\* Assigning to a member of config keeps the others.
LEMMA ConfigSet ==
  ASSUME NEW c \in Config
  PROVE  /\ c.mode \in Nat
         /\ \A v \in Nat : [c EXCEPT !.mode = v] \in Config /\ [c EXCEPT !.mode = v].mode = v
         /\ \A v \in {"fork", "pthread", "clone"} :
               [c EXCEPT !.thread = v] \in Config /\ [c EXCEPT !.thread = v].mode = c.mode
         /\ \A v \in Nat :
               [c EXCEPT !.runtime = v] \in Config /\ [c EXCEPT !.runtime = v].mode = c.mode
         /\ \A v \in 0..2 :
               [c EXCEPT !.interval = v] \in Config /\ [c EXCEPT !.interval = v].mode = c.mode
         /\ \A v \in BOOLEAN :
               [c EXCEPT !.summary = v] \in Config /\ [c EXCEPT !.summary = v].mode = c.mode
         /\ \A v \in Int :
               [c EXCEPT !.latency = v] \in Config /\ [c EXCEPT !.latency = v].mode = c.mode
         /\ \A v \in {"fifo", "rr"} :
               [c EXCEPT !.sched = v] \in Config /\ [c EXCEPT !.sched = v].mode = c.mode
         /\ \A v \in BOOLEAN :
               [c EXCEPT !.affinity = v] \in Config /\ [c EXCEPT !.affinity = v].mode = c.mode
  BY DEF Config

\* setup_defaults gives a proper configuration.
LEMMA DefaultsOK == Defaults \in Config /\ Defaults.mode = 0
  BY DEF Defaults, Config

\* The table as long as nothing is added to it.
LEMMA TableKept ==
  ASSUME TableOK, UNCHANGED <<table, count>>
  PROVE  TableOK'
  BY DEF TableOK

\* The invariant holds initially.
LEMMA SetupInit == Init => SetupInv
<1> SUFFICES ASSUME Init PROVE SetupInv
  OBVIOUS
<1>1. TableOK
  <2>1. 0 * Increment = 0 /\ 0 \in Nat
    BY SetupConstants
  <2>2. table \in [0..(0 - 1) -> Slot] /\ DOMAIN table = {} /\ 0..(0 - 1) = {}
    BY DEF Init
  <2>3. count = 0 /\ 0 <= 0 /\ 0 < 0 + Increment
    BY SetupConstants DEF Init
  <2>4. \E k \in Nat : /\ count <= k * Increment /\ k * Increment < count + Increment
                       /\ table \in [0..(k * Increment - 1) -> Slot]
    BY <2>1, <2>2, <2>3
  <2> QED
    BY <2>2, <2>3, <2>4 DEF TableOK
<1>2. ModeOK
  BY DEF Init, ModeOK
<1>3. OptionsOK
  BY DEF Init, OptionsOK, NoMethods
<1>4. PlainOK
  BY DefaultsOK, SetupConstants DEF Init, PlainOK
<1> QED
  BY <1>1, <1>2, <1>3, <1>4 DEF SetupInv

\* The constructors keep the invariant.
LEMMA ConstructKeeps ==
  ASSUME SetupInv, NEW name \in Names, Construct(name)
  PROVE  SetupInv'
<1>1. TableOK'
  BY Constructed DEF SetupInv
<1>2. phase = "constructors" /\ UNCHANGED <<phase, config, optString, optVars, args, asked>>
  BY DEF Construct
<1>3. ModeOK'
  BY <1>2 DEF SetupInv, ModeOK
<1>4. OptionsOK'
  BY <1>2 DEF SetupInv, OptionsOK, NoMethods, optVars
<1>5. PlainOK'
  BY <1>2 DEF SetupInv, PlainOK, optVars
<1> QED
  BY <1>1, <1>3, <1>4, <1>5 DEF SetupInv

\* So does every way to give up.
LEMMA RefusedKeeps ==
  ASSUME SetupInv, phase' = "refused", args' \in 0..MaxArgs, config' \in Config,
         UNCHANGED <<table, count, optString, optVars, asked>>
  PROVE  SetupInv'
<1>1. TableOK'
  BY TableKept DEF SetupInv
<1>2. ModeOK' /\ OptionsOK'
  BY DEF ModeOK, OptionsOK
<1>3. PlainOK'
  BY DEF SetupInv, PlainOK, optVars
<1> QED
  BY <1>1, <1>2, <1>3 DEF SetupInv

\* main: all modes have been added, the first one is the default.
LEMMA EnterMainKeeps == SetupInv /\ EnterMain => SetupInv'
<1> SUFFICES ASSUME SetupInv, EnterMain PROVE SetupInv'
  OBVIOUS
<1>1. /\ phase = "constructors" /\ count = Cardinality(Names) /\ config' = Defaults
      /\ UNCHANGED <<table, count, optString, optVars, args, asked>>
  BY DEF EnterMain
<1>2. CASE phase' = "refused"
  BY <1>1, <1>2, RefusedKeeps, DefaultsOK DEF SetupInv, PlainOK
<1>3. CASE phase' = "options"
  <2>1. TableOK'
    BY <1>1, TableKept DEF SetupInv
  <2>2. ModeOK'
    <3>1. asked = "none" /\ asked \notin Names
      BY <1>1, SetupConstants DEF SetupInv, ModeOK
    <3>2. 0 \in 0..(count - 1)
      BY <1>1, NamesCounted
    <3> QED
      BY <1>1, <1>3, <3>1, <3>2, DefaultsOK DEF ModeOK
  <2>3. OptionsOK'
    BY <1>1, <1>3 DEF SetupInv, OptionsOK, NoMethods, optVars
  <2>4. PlainOK'
    BY <1>1, <1>3, DefaultsOK DEF SetupInv, PlainOK, optVars
  <2> QED
    BY <2>1, <2>2, <2>3, <2>4 DEF SetupInv
<1> QED
  BY <1>2, <1>3 DEF EnterMain

\* An argument that is read: the mode is the one it was, or the one asked for.
LEMMA ArgumentKeeps ==
  ASSUME SetupInv, Reads, phase' = phase, config' \in Config,
         UNCHANGED <<table, count, optVars>>, optString' \in OptStrings \cup {NoOptString},
         \/ asked' = asked /\ config'.mode = config.mode
         \/ config'.mode = ParseCommMode(asked')
  PROVE  SetupInv'
<1>1. phase = "options" /\ args' \in 0..MaxArgs
  BY SetupConstants DEF SetupInv, PlainOK, Reads
<1>2. TableOK'
  BY TableKept DEF SetupInv
<1>3. ModeOK'
  <2>1. count = Cardinality(Names)
    BY <1>1 DEF SetupInv, ModeOK
  <2>2. CASE asked' = asked /\ config'.mode = config.mode
    BY <1>1, <2>2 DEF SetupInv, ModeOK
  <2>3. CASE config'.mode = ParseCommMode(asked')
    <3>1. /\ ParseCommMode(asked') \in 0..(count - 1)
          /\ asked' \in Names => table[ParseCommMode(asked')].name = asked'
          /\ asked' \notin Names => ParseCommMode(asked') = 0
      BY <2>1, ModeFound DEF SetupInv
    <3> QED
      BY <1>1, <2>1, <2>3, <3>1 DEF ModeOK
  <2> QED
    BY <2>2, <2>3
<1>4. OptionsOK'
  BY <1>1 DEF SetupInv, OptionsOK, NoMethods, optVars
<1>5. PlainOK'
  BY <1>1 DEF SetupInv, PlainOK, optVars
<1> QED
  BY <1>2, <1>3, <1>4, <1>5 DEF SetupInv

\* parse_opts keeps the invariant, whatever the argument.
LEMMA ParseOptKeeps == SetupInv /\ ParseOpt => SetupInv'
<1> SUFFICES ASSUME SetupInv, ParseOpt PROVE SetupInv'
  OBVIOUS
<1>1. config \in Config /\ optString \in OptStrings \cup {NoOptString}
  BY DEF SetupInv, PlainOK
<1>2. ASSUME NEW name, OptMode(name) PROVE SetupInv'
  <2>1. count = Cardinality(Names) /\ TableOK
    BY <1>2 DEF OptMode, Reads, SetupInv, ModeOK
  <2>2. ParseCommMode(name) \in Nat
    BY <2>1, ModeFound DEF TableOK
  <2>3. config' \in Config /\ config'.mode = ParseCommMode(asked')
    <3> DEFINE m == ParseCommMode(name)
    <3>1. config' = [config EXCEPT !.mode = m] /\ asked' = name /\ m \in Nat
      BY <1>2, <2>2 DEF OptMode
    <3>2. ParseCommMode(asked') = m
      BY <3>1
    <3> HIDE DEF m
    <3>3. [config EXCEPT !.mode = m] \in Config /\ [config EXCEPT !.mode = m].mode = m
      BY <1>1, <3>1, ConfigSet, Zenon
    <3> QED
      BY <3>1, <3>2, <3>3, Zenon
  <2>4. Reads /\ phase' = phase /\ UNCHANGED <<table, count, optString, optVars>>
    BY <1>2 DEF OptMode
  <2> QED
    BY <1>1, <2>3, <2>4, ArgumentKeeps
<1>3. ASSUME Reads, config' \in Config, config'.mode = config.mode,
             UNCHANGED <<phase, table, count, optString, optVars, asked>>
      PROVE  SetupInv'
  BY <1>1, <1>3, ArgumentKeeps
<1>4. ASSUME NEW val, OptThread(val) PROVE SetupInv'
  <2>1. config' \in Config /\ config'.mode = config.mode
    <3>1. CASE val \in {"fork", "pthread"}
      BY <1>1, <1>4, <3>1, ConfigSet DEF OptThread
    <3>2. CASE val \in {"clone", "thread"}
      BY <1>1, <1>4, <3>2, ConfigSet DEF OptThread
    <3>3. CASE val \notin {"fork", "pthread", "clone", "thread"}
      BY <1>1, <1>4, <3>3 DEF OptThread
    <3> QED
      BY <3>1, <3>2, <3>3
  <2> QED
    BY <1>3, <1>4, <2>1 DEF OptThread
<1>5. ASSUME NEW val \in {0, 5}, OptRuntime(val) PROVE SetupInv'
  <2>1. val \in Nat
    OBVIOUS
  <2>2. config' \in Config /\ config'.mode = config.mode
    BY <1>1, <1>5, <2>1, ConfigSet, Zenon DEF OptRuntime
  <2> QED
    BY <1>3, <1>5, <2>2 DEF OptRuntime
<1>6. ASSUME NEW val, OptUpdate(val) PROVE SetupInv'
  <2>1. Defaults.interval = 1
    BY DEF Defaults
  <2>2. \/ \E v \in 0..2 : config' = [config EXCEPT !.interval = v]
        \/ config' = [config EXCEPT !.summary = TRUE]
    BY <1>6, <2>1 DEF OptUpdate
  <2>3. ASSUME NEW v \in 0..2, config' = [config EXCEPT !.interval = v]
        PROVE  config' \in Config /\ config'.mode = config.mode
    BY <1>1, <2>3, ConfigSet, Zenon
  <2>4. ASSUME config' = [config EXCEPT !.summary = TRUE]
        PROVE  config' \in Config /\ config'.mode = config.mode
    <3>1. TRUE \in BOOLEAN
      OBVIOUS
    <3> QED
      BY <1>1, <2>4, <3>1, ConfigSet, Zenon
  <2> QED
    BY <1>3, <1>6, <2>2, <2>3, <2>4 DEF OptUpdate
<1>7. ASSUME NEW val \in Int, OptLatency(val) PROVE SetupInv'
  <2>1. \E v \in Int : config' = [config EXCEPT !.latency = v]
    BY <1>7 DEF OptLatency
  <2>2. PICK v \in Int : config' = [config EXCEPT !.latency = v]
    BY <2>1
  <2>3. config' \in Config /\ config'.mode = config.mode
    BY <1>1, <2>2, ConfigSet, Zenon
  <2> QED
    BY <1>3, <1>7, <2>3 DEF OptLatency
<1>8. ASSUME NEW val, OptSched(val) PROVE SetupInv'
  <2>1. config' \in Config /\ config'.mode = config.mode
    BY <1>1, <1>8, ConfigSet DEF OptSched
  <2> QED
    BY <1>3, <1>8, <2>1 DEF OptSched
<1>9. ASSUME OptSecretSauce PROVE SetupInv'
  <2>1. config' \in Config /\ config'.mode = config.mode
    <3>1. 0 \in Int
      OBVIOUS
    <3> QED
      BY <1>1, <1>9, <3>1, ConfigSet, Zenon DEF OptSecretSauce
  <2> QED
    BY <1>3, <1>9, <2>1 DEF OptSecretSauce
<1>10. ASSUME NEW str \in OptStrings, OptOption(str) PROVE SetupInv'
  <2>1. config' \in Config /\ config'.mode = config.mode /\ optString' \in OptStrings \cup {NoOptString}
    BY <1>1, <1>10 DEF OptOption
  <2>2. Reads /\ UNCHANGED <<phase, table, count, optVars, asked>>
    BY <1>10 DEF OptOption
  <2> QED
    BY <2>1, <2>2, ArgumentKeeps
<1>11. ASSUME OptOther PROVE SetupInv'
  <2>1. args' \in 0..MaxArgs
    BY <1>11, SetupConstants DEF OptOther, Reads, SetupInv, PlainOK
  <2>2. config' \in Config /\ phase' = "refused" /\ UNCHANGED <<table, count, optString, optVars, asked>>
    BY <1>1, <1>11 DEF OptOther
  <2> QED
    BY <2>1, <2>2, RefusedKeeps
<1> QED
  BY <1>2, <1>4, <1>5, <1>6, <1>7, <1>8, <1>9, <1>10, <1>11 DEF ParseOpt

\* What an option string is.
LEMMA StringParts ==
  ASSUME SetupInv, optString # NoOptString
  PROVE  /\ optString.first \in Int /\ optString.second \in Int
         /\ optString.then \in {"end", "comma", "junk"}
  BY SetupConstants DEF SetupInv, PlainOK, OptString

\* comm_parse_options of spin takes only methods that are in its table.
LEMMA SpinParsed ==
  ASSUME SetupInv, phase = "options", optString # NoOptString,
         SpinParse(optString), phase' = "setup", UNCHANGED optString
  PROVE  /\ MethodsGiven' /\ variety' = -1
         /\ methods' \in [ping : Int, pong : Int]
<1>1. methods = [ping |-> -1, pong |-> -1] /\ variety = -1
  BY DEF SetupInv, OptionsOK, NoMethods
<1>2. /\ InRange(optString.first)
      /\ optString.then = "comma" => InRange(optString.second)
      /\ methods' = [ping |-> optString.first,
                     pong |-> CASE optString.then = "end"   -> optString.first
                                [] optString.then = "comma" -> optString.second
                                [] OTHER                    -> methods.pong]
      /\ infos' = [ping |-> Info(methods'.ping), pong |-> Info(methods'.pong)]
      /\ variety' = variety
  BY DEF SpinParse
<1>3. methods.pong = -1
  BY <1>1
<1>4. methods' \in [ping : Int, pong : Int]
  BY <1>2, <1>3, StringParts
<1>5. MethodsGiven'
  <2>1. optString'.first \in 0..(Methods - 1) /\ optString' = optString
    BY <1>2 DEF InRange
  <2>2. optString.then = "comma" => optString.second \in 0..(Methods - 1)
    BY <1>2 DEF InRange
  <2>3. methods' = [ping |-> optString.first,
                    pong |-> CASE optString.then = "end"   -> optString.first
                               [] optString.then = "comma" -> optString.second
                               [] OTHER                    -> -1]
    BY <1>2, <1>3
  <2> QED
    BY <1>2, <2>1, <2>2, <2>3 DEF MethodsGiven
<1> QED
  BY <1>1, <1>2, <1>4, <1>5

\* The end of parse_opts keeps the invariant.
LEMMA ParseCommOptionKeeps ==
  ASSUME SetupInv, ParseCommOption
  PROVE  SetupInv'
<1>1. phase = "options" /\ UNCHANGED <<table, count, optString, args, asked>>
  BY DEF ParseCommOption
<1>2. config' \in Config /\ config'.mode = config.mode
  <2>1. PICK v \in BOOLEAN : config' = [config EXCEPT !.affinity = v]
    BY DEF ParseCommOption
  <2> QED
    BY <2>1, ConfigSet DEF SetupInv, PlainOK
<1>3. NoMethods /\ variety = -1
  BY <1>1 DEF SetupInv, OptionsOK
<1>4. (TableOK' /\ ModeOK') \/ phase' \notin {"setup", "refused"}
  <2>1. TableOK'
    BY <1>1, TableKept DEF SetupInv
  <2>2. phase' \in {"setup", "refused"} => ModeOK'
    BY <1>1, <1>2 DEF SetupInv, ModeOK
  <2> QED
    BY <2>1, <2>2
<1>5. ASSUME phase' = "refused", UNCHANGED optVars PROVE SetupInv'
  <2>1. args' \in 0..MaxArgs
    BY <1>1 DEF SetupInv, PlainOK
  <2> QED
    BY <1>1, <1>2, <1>5, <2>1, RefusedKeeps
<1>6. ASSUME phase' = "setup", OptionsOK',
             methods' \in [ping : Int, pong : Int], variety' \in -1..(Varieties - 1)
      PROVE  SetupInv'
  <2>1. PlainOK'
    BY <1>1, <1>2, <1>6 DEF SetupInv, PlainOK
  <2> QED
    BY <1>4, <1>6, <2>1 DEF SetupInv
<1>7. ChosenOps' = ChosenOps
  BY <1>1, <1>2 DEF ChosenOps
<1>8. /\ methods \in [ping : Int, pong : Int]
      /\ variety \in -1..(Varieties - 1)
  BY DEF SetupInv, PlainOK
<1>9. CASE optString # NoOptString /\ ChosenOps = "spin" /\ SpinParse(optString)
  <2>1. CASE phase' = "refused" /\ UNCHANGED optVars
    BY <1>5, <2>1
  <2>2. CASE phase' = "setup"
    <3>1. /\ MethodsGiven' /\ variety' = -1
          /\ methods' \in [ping : Int, pong : Int]
      BY <1>1, <1>9, <2>2, SpinParsed
    <3>2. OptionsOK'
      BY <1>1, <1>7, <1>9, <2>2, <3>1 DEF OptionsOK
    <3> QED
      BY <1>6, <2>2, <3>1, <3>2, SetupConstants
  <2> QED
    BY <1>9, <2>1, <2>2 DEF SpinParse
<1>10. CASE optString # NoOptString /\ ChosenOps = "nop" /\ NopParse(optString)
  <2>1. UNCHANGED <<methods, infos>>
    BY <1>10 DEF NopParse
  <2>2. CASE phase' = "refused" /\ UNCHANGED variety
    BY <1>5, <2>1, <2>2 DEF optVars
  <2>3. CASE phase' = "setup" /\ optString.first \in 0..(Varieties - 1) /\ variety' = optString.first
    <3>1. OptionsOK'
      BY <1>1, <1>3, <1>7, <1>10, <2>1, <2>3 DEF OptionsOK, NoMethods
    <3>2. variety' \in -1..(Varieties - 1)
      BY <2>3, SetupConstants
    <3> QED
      BY <1>6, <1>8, <2>1, <2>3, <3>1, <3>2
  <2> QED
    BY <1>10, <2>2, <2>3 DEF NopParse
<1>11. CASE /\ optString = NoOptString \/ ChosenOps \notin {"spin", "nop"}
            /\ phase' = "setup" /\ UNCHANGED optVars
  <2>1. UNCHANGED <<methods, infos, variety>>
    BY <1>11 DEF optVars
  <2>2. OptionsOK'
    BY <1>1, <1>3, <1>7, <1>11, <2>1 DEF OptionsOK, NoMethods
  <2> QED
    BY <1>6, <1>8, <1>11, <2>1, <2>2
<1> QED
  BY <1>9, <1>10, <1>11 DEF ParseCommOption, ChosenOps

\* make_pair of the mode chosen keeps the invariant.
LEMMA CommSetupKeeps ==
  ASSUME SetupInv, CommSetup
  PROVE  SetupInv'
<1>1. /\ phase = "setup" /\ phase' = "started"
      /\ UNCHANGED <<table, count, config, optString, args, asked>>
  BY DEF CommSetup
<1>2. TableOK'
  BY <1>1, TableKept DEF SetupInv
<1>3. ModeOK'
  BY <1>1 DEF SetupInv, ModeOK
<1>4. ChosenOps' = ChosenOps
  BY <1>1 DEF ChosenOps
<1>5. ASSUME OptionsOK', methods' \in [ping : Int, pong : Int], variety' \in -1..(Varieties - 1)
      PROVE  SetupInv'
  <2>1. PlainOK'
    BY <1>1, <1>5 DEF SetupInv, PlainOK
  <2> QED
    BY <1>2, <1>3, <1>5, <2>1 DEF SetupInv
<1>6. /\ methods \in [ping : Int, pong : Int]
      /\ variety \in -1..(Varieties - 1)
  BY DEF SetupInv, PlainOK
<1>7. ASSUME UNCHANGED <<methods, infos>> PROVE MethodsGiven' = MethodsGiven
  BY <1>1, <1>7 DEF MethodsGiven, Info
<1>8. OptionsOK
  BY DEF SetupInv
<1>9. CASE ChosenOps = "spin" /\ MakeSpinPair
  <2>1. variety' = variety
    BY <1>9 DEF MakeSpinPair
  <2>2. CASE optString = NoOptString
    <3>1. methods.ping = -1
      BY <1>1, <1>8, <2>2 DEF OptionsOK, NoMethods
    <3>2. methods' = [ping |-> 0, pong |-> 0] /\ infos' = [ping |-> Info(0), pong |-> Info(0)]
      BY <1>9, <3>1 DEF MakeSpinPair
    <3>3. methods' \in [ping : Int, pong : Int]
      BY <3>2
    <3>4. OptionsOK'
      BY <1>1, <1>4, <1>8, <1>9, <2>1, <2>2, <3>2 DEF OptionsOK
    <3> QED
      BY <1>5, <1>6, <2>1, <3>3, <3>4
  <2>3. CASE optString # NoOptString
    <3>1. MethodsGiven
      BY <1>1, <1>8, <1>9, <2>3 DEF OptionsOK
    <3>2. methods.ping # -1
      BY <3>1, MethodsPositive DEF MethodsGiven
    <3>3. UNCHANGED <<methods, infos>>
      BY <1>9, <3>2 DEF MakeSpinPair
    <3>4. OptionsOK'
      BY <1>1, <1>4, <1>7, <1>8, <1>9, <2>1, <2>3, <3>1, <3>3 DEF OptionsOK
    <3> QED
      BY <1>5, <1>6, <2>1, <3>3, <3>4
  <2> QED
    BY <2>2, <2>3
<1>10. CASE ChosenOps = "nop" /\ MakeNopPair
  <2>1. UNCHANGED <<methods, infos>> /\ variety' = IF variety = -1 THEN 0 ELSE variety
    BY <1>10 DEF MakeNopPair
  <2>2. variety' \in -1..(Varieties - 1)
    BY <1>6, <2>1, SetupConstants
  <2>3. NoMethods'
    BY <1>1, <1>8, <1>10, <2>1 DEF OptionsOK, NoMethods
  <2>4. CASE optString = NoOptString
    <3>1. variety' = 0
      BY <1>1, <1>8, <2>1, <2>4 DEF OptionsOK
    <3>2. OptionsOK'
      BY <1>1, <1>4, <1>10, <2>3, <2>4, <3>1 DEF OptionsOK
    <3> QED
      BY <1>5, <1>6, <2>1, <2>2, <3>2
  <2>5. CASE optString # NoOptString
    <3>1. variety = optString.first /\ variety # -1
      BY <1>1, <1>8, <1>10, <2>5 DEF OptionsOK
    <3>2. variety' = optString.first /\ variety' # -1
      BY <2>1, <3>1
    <3>3. OptionsOK'
      BY <1>1, <1>4, <1>10, <2>3, <2>5, <3>2 DEF OptionsOK
    <3> QED
      BY <1>5, <1>6, <2>1, <2>2, <3>3
  <2> QED
    BY <2>4, <2>5
<1>11. CASE ChosenOps \notin {"spin", "nop"} /\ UNCHANGED optVars
  <2>1. UNCHANGED <<methods, infos, variety>>
    BY <1>11 DEF optVars
  <2>2. OptionsOK'
    BY <1>1, <1>4, <1>8, <1>11, <2>1 DEF OptionsOK, NoMethods
  <2> QED
    BY <1>5, <1>6, <2>1, <2>2
<1> QED
  BY <1>9, <1>10, <1>11 DEF CommSetup, ChosenOps

\* Every step keeps the invariant.
LEMMA SetupNext == SetupInv /\ [Next]_vars => SetupInv'
<1> SUFFICES ASSUME SetupInv, [Next]_vars PROVE SetupInv'
  OBVIOUS
<1>1. ASSUME UNCHANGED vars PROVE SetupInv'
  <2>1. TableOK'
    BY <1>1, TableKept DEF vars, SetupInv
  <2> QED
    BY <1>1, <2>1 DEF vars, optVars, SetupInv, ModeOK, OptionsOK, PlainOK, ChosenOps,
                      NoMethods, MethodsGiven, Info
<1>2. ASSUME ConstructFails PROVE SetupInv'
  BY <1>2, RefusedKeeps DEF ConstructFails, SetupInv, PlainOK
<1> QED
  BY <1>1, <1>2, ConstructKeeps, EnterMainKeeps, ParseOptKeeps, ParseCommOptionKeeps,
     CommSetupKeeps DEF Next, Started

-----------------------------------------------------------------------------
\* The theorems

\* The inductive invariant of the program's start.
THEOREM SetupInvariant == Spec => []SetupInv
  BY SetupInit, SetupNext, PTL DEF Spec

\* Each constructor finds room for its slot, the slots in use carry the
\* operations of their own name, the rest is zero; however many modes are
\* linked and by however many slots the table grows.
THEOREM TableSoundHolds == Spec => []TableSound
<1>1. SetupInv => TableSound
  <2> SUFFICES ASSUME SetupInv PROVE TableSound
    OBVIOUS
  <2>1. TableOK /\ count \in Nat
    BY DEF SetupInv, TableOK
  <2>2. \A i \in 0..(count - 1) : i \in DOMAIN table
    <3>1. PICK k \in Nat : count <= k * Increment /\ table \in [0..(k * Increment - 1) -> Slot]
      BY <2>1 DEF TableOK
    <3>2. k * Increment \in Nat
      BY SetupConstants
    <3> QED
      BY <2>1, <3>1, <3>2
  <2>3. \A i \in 0..(count - 1) :
           table[i].ops = table[i].name /\ table[i].initialized /\ table[i].name \in Names
    <3>1. \A n : Entry(n).ops = n /\ Entry(n).initialized
      BY Zenon DEF Entry
    <3> SUFFICES ASSUME NEW i \in 0..(count - 1)
                 PROVE  table[i].ops = table[i].name /\ table[i].initialized /\ table[i].name \in Names
      OBVIOUS
    <3>2. table[i] = Entry(table[i].name) /\ table[i].name \in Names
      BY <2>1 DEF TableOK
    <3>3. PICK n : n = table[i].name
      OBVIOUS
    <3>4. table[i] = Entry(n)
      BY <3>2, <3>3
    <3>5. table[i].ops = n
      BY <3>1, <3>4
    <3>6. table[i].initialized
      BY <3>1, <3>4, Zenon
    <3> QED
      BY <3>2, <3>3, <3>5, <3>6
  <2> QED
    BY <2>1, <2>2, <2>3 DEF TableSound, TableOK
<1> QED
  BY <1>1, SetupInvariant, PTL

\* The mode the run uses exists and is the one asked for last, or the first
\* one; whatever arguments came in whatever order.
THEOREM RunsModeAskedHolds == Spec => []RunsModeAsked
<1>1. SetupInv => RunsModeAsked
  BY DEF SetupInv, ModeOK, RunsModeAsked
<1> QED
  BY <1>1, SetupInvariant, PTL

\* The sync methods spin will call are entries of its table.
THEOREM MethodsInTableHolds == Spec => []MethodsInTable
<1>1. SetupInv => MethodsInTable
  <2> SUFFICES ASSUME SetupInv, phase = "started", ChosenOps = "spin"
               PROVE  /\ methods.ping \in 0..(Methods - 1)
                      /\ optString.then # "junk" => methods.pong \in 0..(Methods - 1)
    BY DEF MethodsInTable, ChosenOps
  <2>1. CASE optString = NoOptString
    <3>1. methods = [ping |-> 0, pong |-> 0]
      BY <2>1 DEF SetupInv, OptionsOK
    <3> QED
      BY <3>1, MethodsPositive
  <2>2. CASE optString # NoOptString
    <3>1. MethodsGiven
      BY <2>2 DEF SetupInv, OptionsOK
    <3> QED
      BY <2>2, <3>1, StringParts DEF MethodsGiven
  <2> QED
    BY <2>1, <2>2
<1> QED
  BY <1>1, SetupInvariant, PTL

\* An option meant for another mode changes nothing.
THEOREM OptionForModeHolds == Spec => []OptionForMode
<1>1. SetupInv => OptionForMode
  BY DEF SetupInv, OptionsOK, NoMethods, ChosenOps, OptionForMode
<1> QED
  BY <1>1, SetupInvariant, PTL

\* A sorted table: as many methods have smaller sequence numbers as the place
\* says.
LEMMA Ranked ==
  ASSUME QsortSorts
  PROVE  /\ DOMAIN MemsyncInfo = 1..Methods
         /\ \A i \in 1..Methods :
               /\ MemsyncInfo[i] \in Nat
               /\ Cardinality({j \in DOMAIN Section : Section[j] < MemsyncInfo[i]}) = i - 1
<1>1. PICK p \in Bijection(1..Methods, 1..Methods) :
         /\ MemsyncInfo = [i \in 1..Methods |-> Section[p[i]]]
         /\ \A i, j \in 1..Methods : i < j => MemsyncInfo[i] <= MemsyncInfo[j]
  BY DEF QsortSorts
<1>2. /\ p \in [1..Methods -> 1..Methods]
      /\ \A i, j \in 1..Methods : p[i] = p[j] => i = j
      /\ \A m \in 1..Methods : \E i \in 1..Methods : p[i] = m
  BY DEF Bijection, Injection, Surjection, IsInjective, Range
<1>3. /\ Methods \in Nat /\ DOMAIN Section = 1..Methods
      /\ \A i \in 1..Methods : Section[i] \in Nat
      /\ \A i, j \in 1..Methods : Section[i] = Section[j] => i = j
  BY SetupAssumption DEF SetupAssumption, Methods, IsInjective
<1>4. \A i \in 1..Methods : MemsyncInfo[i] = Section[p[i]] /\ MemsyncInfo[i] \in Nat
  BY <1>1, <1>2, <1>3
<1>5. \A i, j \in 1..Methods : i < j => MemsyncInfo[i] < MemsyncInfo[j]
  <2> SUFFICES ASSUME NEW i \in 1..Methods, NEW j \in 1..Methods, i < j
               PROVE  MemsyncInfo[i] < MemsyncInfo[j]
    OBVIOUS
  <2>1. MemsyncInfo[i] # MemsyncInfo[j]
    <3>1. p[i] \in 1..Methods /\ p[j] \in 1..Methods /\ p[i] # p[j]
      BY <1>2, <1>3
    <3>2. Section[p[i]] # Section[p[j]]
      BY <1>3, <3>1
    <3> QED
      BY <1>4, <3>2
  <2>2. MemsyncInfo[i] <= MemsyncInfo[j] /\ MemsyncInfo[i] \in Nat /\ MemsyncInfo[j] \in Nat
    BY <1>1, <1>4
  <2> QED
    BY <2>1, <2>2
<1>6. ASSUME NEW i \in 1..Methods
      PROVE  Cardinality({j \in DOMAIN Section : Section[j] < MemsyncInfo[i]}) = i - 1
  <2> DEFINE S == 1..(i - 1)
             T == {j \in DOMAIN Section : Section[j] < MemsyncInfo[i]}
             f == [k \in S |-> p[k]]
  <2>1. S \subseteq 1..Methods /\ i \in Nat /\ i >= 1
    BY <1>3
  <2>2. \A k \in S : f[k] \in T
    BY <1>2, <1>3, <1>4, <1>5, <2>1
  <2>3. \A k, m \in S : f[k] = f[m] => k = m
    BY <1>2, <2>1
  <2>4. \A j \in T : \E k \in S : f[k] = j
    <3> SUFFICES ASSUME NEW j \in T PROVE \E k \in S : f[k] = j
      OBVIOUS
    <3>1. j \in 1..Methods /\ Section[j] < MemsyncInfo[i]
      BY <1>3
    <3>2. PICK k \in 1..Methods : p[k] = j
      BY <1>2, <3>1
    <3>3. MemsyncInfo[k] < MemsyncInfo[i] /\ MemsyncInfo[k] \in Nat /\ MemsyncInfo[i] \in Nat
      BY <1>4, <3>1, <3>2
    <3>4. k < i
      BY <1>5, <3>3, <1>3
    <3> QED
      BY <3>2, <3>4, <2>1
  <2> HIDE DEF T
  <2>5. f \in [S -> T]
    BY <2>2
  <2> HIDE DEF S, f
  <2>6. f \in Bijection(S, T)
    BY <2>3, <2>4, <2>5 DEF Bijection, Injection, Surjection, IsInjective, Range
  <2>7. IsFiniteSet(S) /\ Cardinality(S) = i - 1
    <3>1. 1 \in Int /\ i - 1 \in Int
      BY <2>1
    <3>2. IsFiniteSet(1..(i - 1)) /\ Cardinality(1..(i - 1)) = IF 1 > i - 1 THEN 0 ELSE i - 1 - 1 + 1
      BY <3>1, FS_Interval
    <3> QED
      BY <2>1, <3>2 DEF S
  <2>8. Cardinality(T) = Cardinality(S)
    BY <2>6, <2>7, FS_Bijection DEF ExistsBijection
  <2> QED
    BY <2>7, <2>8 DEF T
<1> QED
  BY <1>1, <1>4, <1>6

\* A method's entry in the sorted table.
LEMMA InfoNat ==
  ASSUME QsortSorts, NEW m \in Int
  PROVE  /\ Info(m) \in Nat
         /\ m \in 0..(Methods - 1) =>
               Cardinality({j \in DOMAIN Section : Section[j] < Info(m)}) = m
<1>1. CASE m + 1 \in 1..Methods
  <2> DEFINE i == m + 1
  <2>1. i \in 1..Methods /\ i - 1 = m
    BY <1>1
  <2>2. Info(m) = MemsyncInfo[i]
    BY <2>1, Ranked DEF Info
  <2> HIDE DEF i
  <2>3. /\ MemsyncInfo[i] \in Nat
        /\ Cardinality({j \in DOMAIN Section : Section[j] < MemsyncInfo[i]}) = i - 1
    BY <2>1, Ranked, Zenon
  <2> QED
    BY <2>1, <2>2, <2>3
<1>2. CASE m + 1 \notin 1..Methods
  BY <1>2, MethodsPositive, Ranked DEF Info
<1> QED
  BY <1>1, <1>2

\* The entries the threads use are numbers of methods, or none.
InfosOK == infos \in [ping : Nat, pong : Nat]

\* The entries stay entries of the sorted table.
LEMMA InfosNext ==
  ASSUME QsortSorts, SetupInv, InfosOK, [Next]_vars
  PROVE  InfosOK'
<1>1. ASSUME UNCHANGED infos PROVE InfosOK'
  BY <1>1 DEF InfosOK
<1>2. ASSUME methods' \in [ping : Int, pong : Int],
             infos' = [ping |-> Info(methods'.ping), pong |-> Info(methods'.pong)]
      PROVE  InfosOK'
  <2>1. Info(methods'.ping) \in Nat /\ Info(methods'.pong) \in Nat
    BY <1>2, InfoNat
  <2> QED
    BY <1>2, <2>1 DEF InfosOK
<1>3. ASSUME ParseCommOption PROVE InfosOK'
  <2>1. CASE /\ infos' = [ping |-> Info(methods'.ping), pong |-> Info(methods'.pong)]
    <3>1. SetupInv'
      BY <1>3, ParseCommOptionKeeps
    <3> QED
      BY <1>2, <2>1, <3>1 DEF SetupInv, PlainOK
  <2> QED
    BY <1>1, <1>3, <2>1 DEF ParseCommOption, SpinParse, NopParse, optVars
<1>4. ASSUME CommSetup PROVE InfosOK'
  <2>1. CASE infos' = [ping |-> Info(0), pong |-> Info(0)]
    <3>1. 0 \in Int
      OBVIOUS
    <3>2. Info(0) \in Nat
      BY <3>1, InfoNat, Zenon
    <3> QED
      BY <2>1, <3>2 DEF InfosOK
  <2> QED
    BY <1>1, <1>4, <2>1 DEF CommSetup, MakeSpinPair, MakeNopPair, optVars
<1>5. ASSUME ParseOpt PROVE InfosOK'
  BY <1>1, <1>5 DEF ParseOpt, OptMode, OptThread, OptRuntime, OptUpdate, OptLatency,
                    OptSched, OptSecretSauce, OptOption, OptOther, optVars
<1>6. ASSUME NEW name, Construct(name) PROVE InfosOK'
  BY <1>1, <1>6 DEF Construct, optVars
<1>7. ASSUME ConstructFails \/ EnterMain \/ Started \/ UNCHANGED vars PROVE InfosOK'
  BY <1>1, <1>7 DEF ConstructFails, EnterMain, Started, vars, optVars
<1> QED
  BY <1>3, <1>4, <1>5, <1>6, <1>7 DEF Next

\* The variables keep their types; the entries of spin's table because qsort
\* sorts the methods there are.
THEOREM SetupTypeOK ==
  ASSUME QsortSorts
  PROVE  Spec => []TypeOK
<1>1. Init => InfosOK
  BY DEF Init, InfosOK
<1>2. SetupInv /\ InfosOK /\ [Next]_vars => InfosOK'
  BY InfosNext
<1>3. SetupInv /\ InfosOK => TypeOK
  <2> SUFFICES ASSUME SetupInv, InfosOK PROVE TypeOK
    OBVIOUS
  <2>1. count \in 0..Cardinality(Names)
    BY CountBounded, NamesCounted DEF SetupInv, TableOK
  <2>2. DOMAIN table \subseteq 0..(count + Increment)
    <3>1. PICK k \in Nat : k * Increment < count + Increment /\ table \in [0..(k * Increment - 1) -> Slot]
      BY DEF SetupInv, TableOK
    <3>2. k * Increment \in Nat /\ count \in Nat /\ Increment \in Nat
      BY SetupConstants DEF SetupInv, TableOK
    <3> QED
      BY <3>1, <3>2
  <2>3. /\ config.mode \in Nat /\ config.interval \in 0..2
        /\ config.thread \in {"fork", "pthread", "clone"} /\ config.sched \in {"fifo", "rr"}
    BY DEF SetupInv, PlainOK, Config
  <2> QED
    BY <2>1, <2>2, <2>3 DEF SetupInv, PlainOK, InfosOK, TypeOK
<1> QED
  BY <1>1, <1>2, <1>3, SetupInvariant, PTL DEF Spec

\* The numbers that usage() lists the sync methods under are the ones -o
\* takes, in whatever order the linker laid out the table; the variety of nop
\* is the number given, or 0.
THEOREM RunsMethodListedHolds ==
  ASSUME QsortSorts
  PROVE  Spec => []RunsMethodListed
<1>1. SetupInv => RunsMethodListed
  <2> SUFFICES ASSUME SetupInv PROVE RunsMethodListed
    OBVIOUS
  <2> DEFINE Before(info) == Cardinality({i \in DOMAIN Section : Section[i] < info})
  <2>1. ASSUME phase = "started", ChosenOps = "spin", optString.then \in {"end", "comma"}
        PROVE  /\ Before(infos.ping) = optString.first
               /\ Before(infos.pong) = IF optString.then = "end" THEN optString.first
                                                                 ELSE optString.second
    <3>1. optString # NoOptString
      BY <2>1 DEF NoOptString
    <3>2. MethodsGiven
      BY <2>1, <3>1 DEF SetupInv, OptionsOK
    <3>3. /\ methods.ping = optString.first /\ methods.ping \in 0..(Methods - 1)
          /\ methods.pong = IF optString.then = "end" THEN optString.first ELSE optString.second
          /\ methods.pong \in 0..(Methods - 1)
      BY <2>1, <3>2 DEF MethodsGiven
    <3>4. infos.ping = Info(methods.ping) /\ infos.pong = Info(methods.pong)
      BY <3>2 DEF MethodsGiven
    <3>5. \A m \in 0..(Methods - 1) : Before(Info(m)) = m
      <4> SUFFICES ASSUME NEW m \in 0..(Methods - 1) PROVE Before(Info(m)) = m
        OBVIOUS
      <4>1. m \in Int
        OBVIOUS
      <4> QED
        BY <4>1, InfoNat
    <3> HIDE DEF Before
    <3> QED
      BY <3>3, <3>4, <3>5
  <2>2. ASSUME phase = "started", ChosenOps = "nop"
        PROVE  variety = IF optString = NoOptString THEN 0 ELSE optString.first
    BY <2>2 DEF SetupInv, OptionsOK
  <2> QED
    BY <2>1, <2>2 DEF RunsMethodListed, ChosenOps
<1> QED
  BY <1>1, SetupInvariant, PTL
=============================================================================
