----------------------------- MODULE FuseProofs -----------------------------
(***************************************************************************)
(* Proofs about the callbacks of myfuse.c, for any number of threads: what *)
(* read, write and readdir report is wrong only where another thread       *)
(* interfered, and names and lengths stay those of the table of SizeStore. *)
(*                                                                         *)
(* The invariant has three parts.  The first is about the shared state:    *)
(* the name array holds every file once also while it is shifted, but for  *)
(* the slot that the shift has left free, and "used" counts the bytes of   *)
(* the files that no unlink has taken.  The second is the order of that    *)
(* array, without which the search misses names.  The third says for each  *)
(* callback what the sizes it read earlier are still worth, given what it  *)
(* has met.                                                                *)
(***************************************************************************)
EXTENDS FuseProps, DataLemmas

Changes == {"add", "drop", "shrink", "grow"}
Happenings == {"add", "drop", "shrink", "grow", "freed"}
Writing == {"compare", "clip", "write"}
Listing == {"readdir", "filler", "listed"}

Call == [pc : {"idle", "rshift", "lshift", "read"} \cup Writing \cup Listing,
         path : Names \cup {0}, offset : Nat, length : Nat, f_size : Nat, count : Nat,
         k : Int, index : Int, f : FileT \cup {NoFile}, listing : Seq(Nat), met : SUBSET Happenings]

TypeInv ==
  /\ name \in [FileT -> Names \cup {0}]
  /\ length \in [FileT -> Nat]
  /\ list \in [0 .. IndexLen - 1 -> FileT \cup {NoFile}]
  /\ size \in 0 .. IndexLen
  /\ used \in 0 .. FileDataLen
  /\ lock \in Thread \cup {NoThread, Unmounted}
  /\ calls \in [Thread -> Call]

(* The mutex is held by the thread that shifts the name array. *)
LockInv ==
  /\ \A t \in Thread : calls[t].pc \in {"rshift", "lshift"} <=> lock = t
  /\ lock = Unmounted => \A t \in Thread : calls[t].pc = "idle"

Shifts(pc) == lock \in Thread /\ calls[lock].pc = pc

(* The files that no unlink has taken, and those of them in the array. *)
Staying == IF Shifts("lshift") THEN Live \ {calls[lock].f} ELSE Live
Linked == IF Shifts("rshift") THEN Live \ {calls[lock].f} ELSE Staying

(* The slots of the array but the one that the shift has left free. *)
Slots ==
  IF Shifts("rshift") THEN 0 .. size \ {calls[lock].k + 1}
  ELSE IF Shifts("lshift") THEN 0 .. size - 1 \ {calls[lock].k - 1}
  ELSE 0 .. size - 1

(* The slots D of the list l hold each of the files F once. *)
Filled(l, D, F) ==
  /\ \A j \in D : l[j] \in F
  /\ \A i, j \in D : l[i] = l[j] => i = j
  /\ \A f \in F : \E j \in D : l[j] = f

ShiftInv ==
  /\ Shifts("rshift") =>
       LET c == calls[lock]
       IN  /\ size < IndexLen /\ c.index \in 0 .. size /\ c.k \in c.index - 1 .. size - 1
           /\ c.f \in Live /\ c.path = name[c.f]
           /\ c.k + 1 < size => list[c.k + 1] \in Live
  /\ Shifts("lshift") =>
       LET c == calls[lock]
       IN  c.k \in 1 .. size /\ c.f \in Live /\ list[c.k - 1] \in FileT

ArrayInv ==
  /\ \A f, g \in Live : name[f] = name[g] => f = g
  /\ lock # Unmounted => Filled(list, Slots, Linked)
  /\ ShiftInv

Sizes == [f \in FileT |-> IF f \in Staying THEN length[f] ELSE 0]

SpaceInv ==
  /\ \A f \in FileT \ Live : length[f] = 0
  /\ SumFunctionOnSet(Sizes, FileT) <= FileDataLen
  /\ lock # Unmounted => used = SumFunctionOnSet(Sizes, FileT)

SharedInv == TypeInv /\ LockInv /\ ArrayInv /\ SpaceInv

(* A new name stands where the old one stood.  myfuse_rename does not move
   the file in the name array, whose search expects an order. *)
RenamesKeepOrder ==
  \A r \in Renames : \A a \in Names : a \notin {r[1], r[2]} => (a < r[1] <=> a < r[2])

(* The slots are in order, and a create has found the place of its file. *)
OrderInv ==
  lock # Unmounted =>
    /\ \A i, j \in Slots : i < j => name[list[i]] < name[list[j]]
    /\ Shifts("rshift") =>
         \A j \in Slots :
           /\ j < calls[lock].index => name[list[j]] < calls[lock].path
           /\ j >= calls[lock].index => name[list[j]] > calls[lock].path

(* What the callbacks know about a file that they looked up, as long as they
   have not met certain events. *)
ReadInv(c) ==
  c.pc = "read" =>
    /\ c.path # 0
    /\ "drop" \notin c.met =>
         \E f \in Staying : /\ name[f] = c.path
                            /\ "shrink" \notin c.met => c.offset + c.count <= length[f]

Untouched(c) == c.met \cap {"drop", "shrink", "grow"} = {}
NoneFreed(c) == "freed" \notin c.met

SizeInv(c) ==
  c.pc \in Writing =>
    /\ c.path # 0 /\ c.offset \in Offsets /\ c.length \in Lengths
    /\ c.offset <= c.f_size /\ c.f_size <= FileDataLen
    /\ "drop" \notin c.met =>
         \E f \in Staying : /\ name[f] = c.path
                            /\ "shrink" \notin c.met => c.f_size <= length[f]
                            /\ Untouched(c) => length[f] = c.f_size

(* What the free space was worth at the comparison, and at the clipping. *)
RoomInv(c) ==
  /\ c.pc = "clip" /\ NoneFreed(c) => growth(c) > FileDataLen - used
  /\ c.pc = "write" =>
       /\ Untouched(c) => used + c.offset + c.count - c.f_size <= FileDataLen
       /\ c.offset + c.length >= c.f_size /\ c.count > c.length => ~ NoneFreed(c)

IsName(n) == \E f \in Live : name[f] = n

(* What a listing has read so far. *)
ListInv(c) ==
  /\ c.pc \in Listing =>
       /\ c.path = 0 /\ Len(c.listing) = c.k /\ c.count <= IndexLen
       /\ \A j \in 0 .. c.count - 1 : list[j] \in FileT
       /\ "drop" \notin c.met =>
            /\ ~ Shifts("lshift") /\ c.count <= size
            /\ \A j \in 1 .. c.k : IsName(c.listing[j])
       /\ c.met = {} =>
            /\ ~ Shifts("rshift") /\ c.count = size
            /\ \A j \in 1 .. c.k : c.listing[j] = name[list[j - 1]]
  /\ c.pc \in {"readdir", "filler"} => c.k \in 0 .. c.count - 1
  /\ c.pc = "filler" =>
       /\ c.f \in FileT
       /\ "drop" \notin c.met => c.f \in Live
       /\ c.met = {} => c.f = list[c.k]
  /\ c.pc = "listed" => c.k = c.count

CallInv(c) == ReadInv(c) /\ SizeInv(c) /\ RoomInv(c) /\ ListInv(c)

CallsInv == \A t \in Thread : CallInv(calls[t])

IInv == SharedInv /\ OrderInv /\ CallsInv

----------------------------------------------------------------------------
(* Lists with a free slot *)

(* A file is copied from slot i to the free slot j. *)
LEMMA FilledMove ==
  ASSUME NEW n \in Int, NEW l, DOMAIN l = 0 .. n, NEW D \in SUBSET (0 .. n), NEW F,
         Filled(l, D, F), NEW i \in D, NEW j \in 0 .. n \ D
  PROVE  Filled([l EXCEPT ![j] = l[i]], (D \ {i}) \cup {j}, F)
  <1> DEFINE m == [l EXCEPT ![j] = l[i]]
             E == (D \ {i}) \cup {j}
  <1>1. m[j] = l[i] /\ \A x \in D \ {i} : m[x] = l[x]
    OBVIOUS
  <1> HIDE DEF m
  <1>2. \A x \in E : m[x] \in F
    BY <1>1 DEF Filled
  <1>3. \A x, y \in E : m[x] = m[y] => x = y
    BY <1>1 DEF Filled
  <1>4. \A f \in F : \E x \in E : m[x] = f
    BY <1>1 DEF Filled
  <1>5. Filled(m, E, F)
    BY <1>2, <1>3, <1>4 DEF Filled
  <1> QED BY <1>5 DEF m

(* A file that the list does not hold is stored in the free slot. *)
LEMMA FilledAdd ==
  ASSUME NEW n \in Int, NEW l, DOMAIN l = 0 .. n, NEW D \in SUBSET (0 .. n), NEW F,
         Filled(l, D, F), NEW f, f \notin F, NEW j \in 0 .. n \ D
  PROVE  Filled([l EXCEPT ![j] = f], D \cup {j}, F \cup {f})
  <1> DEFINE m == [l EXCEPT ![j] = f]
             E == D \cup {j}
             G == F \cup {f}
  <1>1. m[j] = f /\ \A x \in D : m[x] = l[x]
    OBVIOUS
  <1> HIDE DEF m
  <1>2. \A x \in E : m[x] \in G
    BY <1>1 DEF Filled
  <1>3. \A x, y \in E : m[x] = m[y] => x = y
    BY <1>1 DEF Filled
  <1>4. \A g \in G : \E x \in E : m[x] = g
    BY <1>1 DEF Filled
  <1>5. Filled(m, E, G)
    BY <1>2, <1>3, <1>4 DEF Filled
  <1> QED BY <1>5 DEF m

(* A slot is left free. *)
LEMMA FilledDrop ==
  ASSUME NEW l, NEW D, NEW F, Filled(l, D, F), NEW i \in D
  PROVE  Filled(l, D \ {i}, F \ {l[i]})
  BY DEF Filled

----------------------------------------------------------------------------
(* Threads, the mutex and the array *)

LEMMA ThreadNames ==
  /\ NoThread \notin Thread /\ Unmounted \notin Thread /\ NoThread # Unmounted
  /\ Names \subseteq Nat \ {0} /\ IndexLen \in Nat /\ FileDataLen \in Nat
  /\ Offsets \subseteq Nat /\ Lengths \subseteq Nat /\ TruncateLengths \subseteq Nat
  /\ IsFiniteSet(FileT) /\ NoFile \notin FileT
  <1>1. IsFiniteSet(FileT)
    BY FuseAssumption, FS_Interval DEF FileT
  <1> QED BY <1>1, FuseAssumption DEF NoThread, Unmounted, FileT, NoFile

LEMMA LiveFiles == Live \subseteq FileT /\ \A f \in FileT : f \in Live <=> name[f] # 0
  BY DEF Live

(* With the mutex free the array is whole. *)
LEMMA ArrayWhole ==
  ASSUME SharedInv, lock = NoThread
  PROVE  /\ ~ Shifts("rshift") /\ ~ Shifts("lshift")
         /\ Staying = Live /\ Linked = Live /\ Slots = 0 .. size - 1
         /\ Filled(list, 0 .. size - 1, Live)
  <1>1. lock \notin Thread /\ lock # Unmounted
    BY ThreadNames
  <1>2. ~ Shifts("rshift") /\ ~ Shifts("lshift")
    BY <1>1 DEF Shifts
  <1>3. Staying = Live /\ Linked = Live /\ Slots = 0 .. size - 1
    BY <1>2 DEF Staying, Linked, Slots
  <1> QED BY <1>1, <1>2, <1>3 DEF SharedInv, ArrayInv

LEMMA SlotFiles ==
  ASSUME SharedInv, lock # Unmounted
  PROVE  /\ Slots \subseteq 0 .. IndexLen - 1 /\ Linked \subseteq Live
         /\ \A j \in Slots : list[j] \in Linked /\ list[j] \in FileT /\ name[list[j]] \in Nat
         /\ \A f \in FileT : name[f] \in Nat
  <1>1. TypeInv /\ ArrayInv /\ Linked \subseteq Live /\ Live \subseteq FileT
    BY LiveFiles DEF SharedInv, Linked, Staying
  <1>2. \A f \in FileT : name[f] \in Nat
    <2>1. \A f \in FileT : name[f] \in Names \cup {0}
      BY <1>1 DEF TypeInv
    <2>2. \A n \in Names \cup {0} : n \in Nat
      BY ThreadNames
    <2> QED BY <2>1, <2>2, Zenon
  <1>3. \A j \in Slots : list[j] \in Linked
    BY <1>1 DEF ArrayInv, Filled
  <1>4. Slots \subseteq 0 .. IndexLen - 1
    BY <1>1, ThreadNames DEF Slots, TypeInv, ArrayInv, ShiftInv
  <1> QED BY <1>1, <1>2, <1>3, <1>4

(* What the search for a name compares. *)
LEMMA ComparedNames ==
  ASSUME SharedInv, OrderInv, lock = NoThread, NEW a \in Names
  PROVE  /\ size \in Nat /\ cmp_names(a) \in [0 .. size - 1 -> Int] /\ a \in Nat
         /\ \A j \in 0 .. size - 1 : /\ list[j] \in Live /\ name[list[j]] \in Nat
                                     /\ cmp_names(a)[j] = a - name[list[j]]
         /\ \A j, k \in 0 .. size - 1 : j < k => cmp_names(a)[j] >= cmp_names(a)[k]
  <1>1. lock # Unmounted /\ Slots = 0 .. size - 1 /\ Linked = Live
    BY ArrayWhole, ThreadNames
  <1>2. \A j \in 0 .. size - 1 : list[j] \in Live /\ name[list[j]] \in Nat
    BY <1>1, SlotFiles
  <1>3. \A j, k \in 0 .. size - 1 : j < k => name[list[j]] < name[list[k]]
    BY <1>1 DEF OrderInv
  <1>4. size \in Nat /\ a \in Nat
    BY ThreadNames DEF SharedInv, TypeInv
  <1>5. /\ cmp_names(a) = [j \in 0 .. size - 1 |-> cmp_names(a)[j]]
        /\ \A j \in 0 .. size - 1 : cmp_names(a)[j] = a - name[list[j]]
    BY DEF cmp_names, cmp_name
  <1>6. \A j \in 0 .. size - 1 : cmp_names(a)[j] \in Int
    BY <1>2, <1>4, <1>5
  <1>7. cmp_names(a) \in [0 .. size - 1 -> Int]
    <2>1. PICK cmp : cmp = cmp_names(a)
      OBVIOUS
    <2> QED BY <1>5, <1>6, <2>1
  <1>8. ASSUME NEW j \in 0 .. size - 1, NEW k \in 0 .. size - 1, j < k
        PROVE  cmp_names(a)[j] >= cmp_names(a)[k]
    <2>1. PICK x \in Nat, y \in Nat : x = name[list[j]] /\ y = name[list[k]]
      BY <1>2
    <2>2. x < y /\ cmp_names(a)[j] = a - x /\ cmp_names(a)[k] = a - y
      BY <1>3, <1>5, <1>8, <2>1
    <2> QED BY <1>4, <2>2
  <1> QED BY <1>2, <1>4, <1>5, <1>7, <1>8

(* In an array in order the search finds a name that is there. *)
LEMMA FoundFile ==
  ASSUME SharedInv, OrderInv, lock = NoThread, NEW a \in Names
  PROVE  /\ Exists(a) <=> \E f \in Live : name[f] = a
         /\ Exists(a) => /\ file(a) \in Live /\ name[file(a)] = a
                         /\ position(a) \in 0 .. size - 1
                         /\ list[position(a)] = file(a)
         /\ \A f \in Live : name[f] = a => f = file(a)
  <1>1. PICK cmp, p : cmp = cmp_names(a) /\ p = position(a)
    OBVIOUS
  <1>2. Filled(list, 0 .. size - 1, Live) /\ \A f, g \in Live : name[f] = name[g] => f = g
    BY ArrayWhole DEF SharedInv, ArrayInv
  <1>3. /\ size \in Nat /\ cmp \in [0 .. size - 1 -> Int] /\ a \in Nat
        /\ \A j \in 0 .. size - 1 : /\ list[j] \in Live /\ name[list[j]] \in Nat
                                    /\ cmp[j] = a - name[list[j]]
        /\ \A j, k \in 0 .. size - 1 : j < k => cmp[j] >= cmp[k]
    BY <1>1, ComparedNames
  <1>4. p = arr_get_index(cmp, size, FALSE)
    BY <1>1 DEF position
  <1>5. \/ p = -1 /\ \A k \in 0 .. size - 1 : cmp[k] # 0
        \/ p \in 0 .. size - 1 /\ cmp[p] = 0
    BY <1>3, <1>4, FindAnswer
  <1>6. \A k \in 0 .. size - 1 : cmp[k] = 0 <=> name[list[k]] = a
    <2> SUFFICES ASSUME NEW k \in 0 .. size - 1 PROVE cmp[k] = 0 <=> name[list[k]] = a
      OBVIOUS
    <2>1. PICK x \in Nat : x = name[list[k]]
      BY <1>3
    <2>2. cmp[k] = a - x
      BY <1>3, <2>1
    <2> QED BY <1>3, <2>1, <2>2
  <1>7. Exists(a) <=> p # -1
    BY <1>1 DEF Exists
  <1>8. ASSUME p # -1
        PROVE  /\ p \in 0 .. size - 1 /\ list[p] \in Live /\ name[list[p]] = a
               /\ \A f \in Live : name[f] = a => f = list[p]
    BY <1>2, <1>3, <1>5, <1>6, <1>8
  <1>9. ASSUME NEW f \in Live, name[f] = a PROVE p # -1
    <2>1. PICK k \in 0 .. size - 1 : list[k] = f
      BY <1>2 DEF Filled
    <2>2. cmp[k] = 0
      BY <1>6, <1>9, <2>1
    <2>3. p \in 0 .. size - 1
      BY <1>5, <2>2
    <2> QED BY <1>3, <2>3
  <1> QED BY <1>1, <1>7, <1>8, <1>9 DEF file

(* ... and for a name that is not there, its place. *)
Place(a) == arr_get_index(cmp_names(a), size, TRUE)

LEMMA FoundPlace ==
  ASSUME SharedInv, OrderInv, lock = NoThread, NEW a \in Names, ~ Exists(a)
  PROVE  /\ Place(a) \in 0 .. size
         /\ \A j \in 0 .. size - 1 : /\ j < Place(a) => name[list[j]] < a
                                     /\ j >= Place(a) => name[list[j]] > a
  <1>1. PICK cmp, p : cmp = cmp_names(a) /\ p = Place(a)
    OBVIOUS
  <1>2. /\ size \in Nat /\ cmp \in [0 .. size - 1 -> Int] /\ a \in Nat
        /\ \A j \in 0 .. size - 1 : /\ list[j] \in Live /\ name[list[j]] \in Nat
                                    /\ cmp[j] = a - name[list[j]]
        /\ \A j, k \in 0 .. size - 1 : j < k => cmp[j] >= cmp[k]
    BY <1>1, ComparedNames
  <1>3. \A k \in 0 .. size - 1 : cmp[k] # 0
    <2> SUFFICES ASSUME NEW k \in 0 .. size - 1, cmp[k] = 0 PROVE FALSE
      OBVIOUS
    <2>1. PICK x \in Nat : x = name[list[k]]
      BY <1>2
    <2>2. a - x = 0
      BY <1>2, <2>1
    <2>3. name[list[k]] = a /\ list[k] \in Live
      BY <1>2, <2>1, <2>2
    <2> QED BY <2>3, FoundFile
  <1>4. Gap(cmp, size, p)
    <2>1. p = arr_get_index(cmp, size, TRUE)
      BY <1>1 DEF Place
    <2> QED BY <1>2, <1>3, <2>1, InsertAnswer
  <1>5. /\ p \in 0 .. size /\ size \in Nat
        /\ p > 0 => p - 1 \in 0 .. size - 1 /\ cmp[p - 1] > 0
        /\ p < size => p \in 0 .. size - 1 /\ cmp[p] < 0
    BY <1>2, <1>4 DEF Gap
  <1>6. ASSUME NEW j \in 0 .. size - 1, j < p PROVE name[list[j]] < a
    <2>1. p > 0 /\ (j < p - 1 \/ j = p - 1)
      BY <1>5, <1>6
    <2>2. cmp[j] >= cmp[p - 1] /\ cmp[j] \in Int /\ cmp[p - 1] \in Int
      BY <1>2, <1>5, <2>1
    <2>3. cmp[j] > 0
      BY <1>5, <2>1, <2>2
    <2>4. PICK x \in Nat : x = name[list[j]]
      BY <1>2
    <2>5. a - x > 0
      BY <1>2, <2>3, <2>4
    <2> QED BY <1>2, <2>4, <2>5
  <1>7. ASSUME NEW j \in 0 .. size - 1, j >= p PROVE name[list[j]] > a
    <2>1. p < size /\ (p < j \/ p = j)
      BY <1>5, <1>7
    <2>2. cmp[p] >= cmp[j] /\ cmp[j] \in Int /\ cmp[p] \in Int
      BY <1>2, <1>5, <2>1
    <2>3. cmp[j] < 0
      BY <1>5, <2>1, <2>2
    <2>4. PICK x \in Nat : x = name[list[j]]
      BY <1>2
    <2>5. a - x < 0
      BY <1>2, <2>3, <2>4
    <2> QED BY <1>2, <2>4, <2>5
  <1> QED BY <1>1, <1>5, <1>6, <1>7

----------------------------------------------------------------------------
(* What the other calls meet *)

LEMMA EventSets ==
  /\ \A pc \in Writing : pc \in DOMAIN Events /\ Events[pc] = {"drop", "shrink", "grow"}
  /\ \A pc \in Listing : pc \in DOMAIN Events /\ Events[pc] = {"add", "drop"}
  /\ "read" \in DOMAIN Events /\ Events["read"] = {"drop", "shrink"}
  BY DEF Events, Writing, Listing

(* No event is forgotten, unless a drop outweighs it. *)
LEMMA HearsKeeps ==
  ASSUME TypeInv, NEW u \in Thread, NEW event \in Happenings, NEW a
  PROVE  /\ Hears(u, event, a) \in SUBSET Happenings
         /\ "drop" \notin Hears(u, event, a) => calls[u].met \subseteq Hears(u, event, a)
         /\ "drop" \in calls[u].met => "drop" \in Hears(u, event, a)
         /\ "freed" \in calls[u].met => "freed" \in Hears(u, event, a)
         /\ Hears(u, event, a) = {} => calls[u].met = {}
  <1>1. calls[u].met \in SUBSET Happenings
    BY DEF TypeInv, Call
  <1> QED BY <1>1 DEF Hears, Happenings

LEMMA HearsIn ==
  ASSUME TypeInv, NEW u \in Thread, NEW event \in Happenings, NEW a
  PROVE  LET c == calls[u]
             heard == Hears(u, event, a)
         IN  /\ c.pc \in Writing \cup {"read"} /\ event \in {"drop", "shrink"} /\ c.path \in {0, a}
                => event \in heard \/ "drop" \in heard
             /\ c.pc = "clip" /\ used' < used => "freed" \in heard
             /\ c.pc \in Writing /\ event = "grow" => "grow" \in heard \/ "drop" \in heard
             /\ c.pc \in Listing /\ c.path = 0 /\ event \in {"add", "drop"}
                => event \in heard \/ "drop" \in heard
             /\ c.pc \in Listing /\ c.path = 0 /\ event \in {"shrink", "grow"}
                => heard = c.met \/ ("drop" \in heard /\ "drop" \in c.met)
  <1>1. calls[u].met \in SUBSET Happenings
    BY DEF TypeInv, Call
  <1>2. CASE calls[u].pc \in Writing
    BY <1>1, <1>2, EventSets DEF Hears, Happenings, Writing, Listing
  <1>3. CASE calls[u].pc \in Listing
    BY <1>1, <1>3, EventSets DEF Hears, Happenings, Writing, Listing
  <1>4. CASE calls[u].pc = "read"
    BY <1>1, <1>4, EventSets DEF Hears, Happenings, Writing, Listing
  <1> QED BY <1>2, <1>3, <1>4 DEF Writing

(* Another call goes on with other events. *)
Goes(u, met) == calls'[u] = [calls[u] EXCEPT !.met = met]

LEMMA GoesOn ==
  ASSUME TypeInv, NEW u \in Thread, NEW met, Goes(u, met)
  PROVE  /\ calls'[u].pc = calls[u].pc /\ calls'[u].path = calls[u].path
         /\ calls'[u].offset = calls[u].offset /\ calls'[u].length = calls[u].length
         /\ calls'[u].f_size = calls[u].f_size /\ calls'[u].count = calls[u].count
         /\ calls'[u].k = calls[u].k /\ calls'[u].index = calls[u].index
         /\ calls'[u].f = calls[u].f /\ calls'[u].listing = calls[u].listing
         /\ calls'[u].met = met
         /\ met \in SUBSET Happenings => calls'[u] \in Call
  <1>1. calls[u] \in Call
    BY DEF TypeInv
  <1> QED BY <1>1 DEF Goes, Call

LEMMA ContinueCalls ==
  ASSUME TypeInv, NEW t \in Thread, NEW c \in Call, NEW event \in Happenings, NEW a,
         Continue(t, c, event, a)
  PROVE  /\ calls' \in [Thread -> Call] /\ calls'[t] = c
         /\ \A u \in Thread \ {t} : Goes(u, Hears(u, event, a)) /\ calls'[u].pc = calls[u].pc
  <1>1. /\ DOMAIN calls' = Thread /\ calls'[t] = c
        /\ calls' = [u \in Thread |-> calls'[u]]
    BY DEF Continue
  <1>2. ASSUME NEW u \in Thread \ {t}
        PROVE  Goes(u, Hears(u, event, a)) /\ calls'[u].pc = calls[u].pc /\ calls'[u] \in Call
    <2>1. Goes(u, Hears(u, event, a))
      BY DEF Continue, Goes
    <2> QED BY <2>1, HearsKeeps, GoesOn
  <1> QED BY <1>1, <1>2

LEMMA LocalsCalls ==
  ASSUME TypeInv, NEW t \in Thread, NEW c \in Call, Locals(t, c)
  PROVE  /\ calls' \in [Thread -> Call] /\ calls'[t] = c
         /\ \A u \in Thread \ {t} : calls'[u] = calls[u]
  BY DEF Locals, TypeInv

LEMMA IdleCall == Idle \in Call
  BY DEF Idle, Call, NoFile

----------------------------------------------------------------------------
(* The shared state *)

(* The files, the array and the mutex stay. *)
Quiet == UNCHANGED <<files, array, used, lock>>

ViewSame ==
  /\ Live' = Live /\ Staying' = Staying
  /\ Shifts("rshift")' <=> Shifts("rshift")
  /\ Shifts("lshift")' <=> Shifts("lshift")

LEMMA QuietStep ==
  ASSUME SharedInv, NEW t \in Thread, NEW c \in Call, Locals(t, c), Quiet,
         calls[t].pc \notin {"rshift", "lshift"}, c.pc \notin {"rshift", "lshift"},
         lock = Unmounted => c.pc = "idle"
  PROVE  SharedInv' /\ ViewSame
  <1>1. /\ name' = name /\ length' = length /\ list' = list /\ size' = size
        /\ used' = used /\ lock' = lock
    BY DEF Quiet, files, array
  <1>2. /\ calls' \in [Thread -> Call] /\ calls'[t] = c
        /\ \A u \in Thread \ {t} : calls'[u] = calls[u]
    BY LocalsCalls DEF SharedInv
  <1>3. TypeInv'
    BY <1>1, <1>2 DEF TypeInv, SharedInv
  <1>4. lock # t
    BY DEF SharedInv, LockInv
  <1>5. LockInv'
    BY <1>1, <1>2, <1>4 DEF LockInv, SharedInv
  <1>6. Live' = Live
    BY <1>1 DEF Live
  <1>7. lock \in Thread => calls'[lock] = calls[lock]
    BY <1>2, <1>4
  <1>8. ViewSame /\ Slots' = Slots /\ Linked' = Linked /\ Sizes' = Sizes
    BY <1>1, <1>6, <1>7 DEF ViewSame, Shifts, Staying, Slots, Linked, Sizes
  <1>9. ShiftInv'
    BY <1>1, <1>6, <1>7, <1>8 DEF ShiftInv, ViewSame, Shifts, SharedInv, ArrayInv
  <1>10. ArrayInv'
    BY <1>1, <1>6, <1>8, <1>9 DEF ArrayInv, SharedInv
  <1>11. SpaceInv'
    BY <1>1, <1>6, <1>8 DEF SpaceInv, SharedInv
  <1> QED BY <1>3, <1>5, <1>8, <1>10, <1>11 DEF SharedInv

(* What a step does to the files, for the other calls: nothing, ... *)
FilesStay(F) ==
  \A f \in F : f \in Staying' /\ name'[f] = name[f] /\ length'[f] = length[f]

Waits(t) ==
  /\ \A u \in Thread \ {t} : calls'[u] = calls[u]
  /\ FilesStay(Staying) /\ used' = used

(* ... or one of the events, which happens to the file of name a. *)
Happens(t, event, a) ==
  /\ event \in Changes /\ a \in Names
  /\ \A u \in Thread \ {t} : Goes(u, Hears(u, event, a))
  /\ FilesStay(IF event = "add" THEN Staying ELSE {f \in Staying : name[f] # a})
  /\ event \in {"shrink", "grow"} => \A f \in Staying : f \in Staying' /\ name'[f] = name[f]
  /\ event = "add" => used' = used
  /\ event \in {"drop", "shrink"} => used' <= used
  /\ event = "grow" => used <= used' /\ \A f \in Staying : length[f] <= length'[f]

(* What it does to the array, for the listings. *)
ArraySame == list' = list /\ size' = size /\ Live' = Live /\ name' = name /\ ViewSame

ArrayGrows ==
  /\ size' >= size /\ ~ Shifts("lshift") /\ ~ Shifts("lshift")'
  /\ \A f \in Live : f \in Live' /\ name'[f] = name[f]
  /\ \A j \in 0 .. IndexLen - 1 : list[j] \in FileT => list'[j] \in FileT

LEMMA ShiftedCall ==
  ASSUME NEW c \in Call, NEW k \in Int
  PROVE  LET d == [c EXCEPT !.k = k]
         IN  /\ d \in Call /\ d.pc = c.pc /\ d.path = c.path /\ d.f = c.f /\ d.k = k
             /\ d.index = c.index
  BY DEF Call

LEMMA CreateShared ==
  ASSUME SharedInv, OrderInv, NEW t \in Thread, NEW a \in Names, create(t, a)
  PROVE  /\ SharedInv' /\ Happens(t, "add", a) /\ ArrayGrows /\ calls[t].pc = "idle"
         /\ calls'[t].pc = "rshift"
  <1>0. PICK p : p = Place(a)
    OBVIOUS
  <1> DEFINE c(f) == [Idle EXCEPT !.pc = "rshift", !.path = a, !.f = f, !.k = size - 1, !.index = p]
  <1>1. PICK f \in FileT \ Live :
          /\ name' = [name EXCEPT ![f] = a] /\ length' = [length EXCEPT ![f] = 0]
          /\ Continue(t, c(f), "add", a)
    BY <1>0 DEF create, Place
  <1>2. /\ lock = NoThread /\ lock' = t /\ calls[t].pc = "idle" /\ ~ Exists(a) /\ size < IndexLen
        /\ list' = list /\ size' = size /\ used' = used
    BY DEF create, Free, array
  <1>3. TypeInv /\ LockInv /\ ArrayInv /\ SpaceInv
    BY DEF SharedInv
  <1>4. /\ c(f) \in Call /\ c(f).pc = "rshift" /\ c(f).path = a /\ c(f).f = f /\ c(f).k = size - 1
        /\ c(f).index = p /\ p \in 0 .. size /\ "add" \in Happenings
    <2>0. p \in 0 .. size
      BY <1>0, <1>2, FoundPlace
    <2>1. size - 1 \in Int /\ p \in Int
      BY <1>3, <2>0, ThreadNames DEF TypeInv
    <2>2. "rshift" \in {"rshift", "lshift"} /\ a \in Names \cup {0} /\ "add" \in Happenings
      BY DEF Happenings
    <2> QED BY <2>0, <2>1, <2>2, IdleCall DEF Call
  <1> HIDE DEF c
  <1>5. /\ calls' \in [Thread -> Call] /\ calls'[t] = c(f)
        /\ \A u \in Thread \ {t} : Goes(u, Hears(u, "add", a)) /\ calls'[u].pc = calls[u].pc
    BY <1>1, <1>3, <1>4, ContinueCalls
  <1>6. TypeInv'
    BY <1>1, <1>2, <1>3, <1>5, ThreadNames DEF TypeInv
  <1>7. LockInv'
    BY <1>2, <1>3, <1>4, <1>5, ThreadNames DEF LockInv
  <1>8. Shifts("rshift")' /\ ~ Shifts("lshift")' /\ calls'[lock'] = c(f)
    BY <1>2, <1>4, <1>5 DEF Shifts
  <1>9. /\ ~ Shifts("lshift") /\ Staying = Live /\ Filled(list, 0 .. size - 1, Live)
        /\ \A g \in Live : name[g] # a
    BY <1>2, ArrayWhole, FoundFile
  <1>10. /\ name'[f] = a /\ length'[f] = 0 /\ name[f] = 0 /\ length[f] = 0
         /\ \A g \in FileT \ {f} : name'[g] = name[g] /\ length'[g] = length[g]
    BY <1>1, <1>3, LiveFiles DEF TypeInv, SpaceInv
  <1>11. Live' = Live \cup {f}
    BY <1>1, <1>10, ThreadNames DEF Live
  <1>12. /\ Staying' = Live \cup {f} /\ Linked' = Live
         /\ Slots' = 0 .. size - 1
    <2>1. 0 .. size \ {size - 1 + 1} = 0 .. size - 1
      BY <1>3 DEF TypeInv
    <2> QED BY <1>1, <1>2, <1>4, <1>8, <1>11, <2>1 DEF Staying, Linked, Slots
  <1>13. ShiftInv'
    BY <1>2, <1>3, <1>4, <1>8, <1>10, <1>11 DEF ShiftInv, TypeInv
  <1>14. \A g, h \in Live' : name'[g] = name'[h] => g = h
    BY <1>3, <1>9, <1>10, <1>11, LiveFiles DEF ArrayInv
  <1>15. ArrayInv'
    BY <1>2, <1>9, <1>12, <1>13, <1>14 DEF ArrayInv
  <1>16. Sizes' = Sizes
    BY <1>9, <1>10, <1>12 DEF Sizes
  <1>17. SpaceInv'
    BY <1>2, <1>3, <1>10, <1>11, <1>16, ThreadNames DEF SpaceInv
  <1>18. FilesStay(Staying)
    BY <1>1, <1>9, <1>10, <1>12, LiveFiles DEF FilesStay
  <1>19. Happens(t, "add", a)
    BY <1>2, <1>4, <1>5, <1>18 DEF Happens, Changes
  <1>20. ArrayGrows
    BY <1>1, <1>2, <1>3, <1>8, <1>9, <1>10, <1>11, LiveFiles DEF ArrayGrows, TypeInv
  <1> QED BY <1>2, <1>4, <1>5, <1>6, <1>7, <1>15, <1>17, <1>19, <1>20 DEF SharedInv

(* A call that shifts has the mutex. *)
LEMMA Shifting ==
  ASSUME LockInv, NEW t \in Thread, NEW pc \in {"rshift", "lshift"}, calls[t].pc = pc
  PROVE  lock = t /\ Shifts(pc) /\ (pc = "rshift" => ~ Shifts("lshift"))
         /\ (pc = "lshift" => ~ Shifts("rshift")) /\ lock # Unmounted
  BY ThreadNames DEF LockInv, Shifts

LEMMA RshiftShared ==
  ASSUME SharedInv, NEW t \in Thread, arr_rshift(t)
  PROVE  /\ SharedInv' /\ Waits(t) /\ Shifts("rshift") /\ ArrayGrows /\ calls[t].pc = "rshift"
         /\ calls'[t].pc = "rshift"
  <1> DEFINE k == calls[t].k
             c == [calls[t] EXCEPT !.k = k - 1]
  <1>1. /\ calls[t].pc = "rshift" /\ k >= calls[t].index
        /\ list' = [list EXCEPT ![k + 1] = list[k]] /\ Locals(t, c)
        /\ name' = name /\ length' = length /\ size' = size /\ used' = used /\ lock' = lock
    BY DEF arr_rshift, files
  <1>2. TypeInv /\ LockInv /\ ArrayInv /\ SpaceInv /\ calls[t] \in Call
    BY DEF SharedInv, TypeInv
  <1>3. lock = t /\ Shifts("rshift") /\ ~ Shifts("lshift") /\ lock # Unmounted
    BY <1>1, <1>2, Shifting
  <1>4. /\ c \in Call /\ c.pc = "rshift" /\ c.path = calls[t].path /\ c.f = calls[t].f /\ c.k = k - 1
        /\ c.index = calls[t].index
    <2>1. k \in Int /\ k - 1 \in Int
      BY <1>2 DEF Call
    <2> QED BY <1>1, <1>2, <2>1, ShiftedCall
  <1>5. /\ k \in 0 .. size - 1 /\ size < IndexLen /\ size \in Nat /\ IndexLen \in Nat
        /\ calls[t].index \in 0 .. k
    BY <1>1, <1>2, <1>3, ThreadNames DEF ArrayInv, ShiftInv, TypeInv
  <1> HIDE DEF c
  <1>6. /\ calls' \in [Thread -> Call] /\ calls'[t] = c
        /\ \A u \in Thread \ {t} : calls'[u] = calls[u]
    BY <1>1, <1>2, <1>4, LocalsCalls
  <1> HIDE DEF k
  <1>7. /\ list'[k + 1] = list[k] /\ \A j \in 0 .. IndexLen - 1 \ {k + 1} : list'[j] = list[j]
        /\ DOMAIN list = 0 .. IndexLen - 1 /\ DOMAIN list' = 0 .. IndexLen - 1
    BY <1>1, <1>2, <1>5 DEF TypeInv
  <1>8. TypeInv'
    BY <1>1, <1>2, <1>5, <1>6 DEF TypeInv
  <1>9. LockInv'
    BY <1>1, <1>2, <1>4, <1>6 DEF LockInv
  <1>10. Shifts("rshift")' /\ ~ Shifts("lshift")' /\ calls'[lock'] = c
    BY <1>1, <1>3, <1>4, <1>6 DEF Shifts
  <1>11. Live' = Live
    BY <1>1 DEF Live
  <1>12. /\ Staying = Live /\ Staying' = Live /\ Linked' = Linked /\ Linked = Live \ {calls[t].f}
         /\ Slots = 0 .. size \ {k + 1} /\ Slots' = 0 .. size \ {k}
    BY <1>1, <1>3, <1>4, <1>5, <1>10, <1>11 DEF Staying, Linked, Slots, k
  <1>13. Filled(list, Slots, Linked) /\ k \in Slots /\ list[k] \in Linked
    BY <1>2, <1>3, <1>5, <1>12 DEF ArrayInv, Filled
  <1>14. Filled(list', Slots', Linked)
    <2>1. /\ Slots \in SUBSET (0 .. IndexLen - 1) /\ k + 1 \in 0 .. IndexLen - 1 \ Slots
          /\ (Slots \ {k}) \cup {k + 1} = Slots' /\ IndexLen - 1 \in Int
      BY <1>5, <1>12
    <2> QED BY <1>1, <1>7, <1>13, <2>1, FilledMove
  <1>15. ShiftInv'
    <2>1. list'[k] = list[k]
      BY <1>5, <1>7
    <2>2. /\ calls[t].f \in Live /\ calls[t].path = name[calls[t].f]
      BY <1>2, <1>3 DEF ArrayInv, ShiftInv
    <2> QED BY <1>1, <1>4, <1>5, <1>10, <1>11, <1>12, <1>13, <2>1, <2>2 DEF ShiftInv
  <1>16. ArrayInv'
    BY <1>1, <1>2, <1>3, <1>11, <1>12, <1>14, <1>15 DEF ArrayInv
  <1>17. Sizes' = Sizes
    BY <1>1, <1>12 DEF Sizes
  <1>18. SpaceInv'
    BY <1>1, <1>2, <1>11, <1>17 DEF SpaceInv
  <1>19. Waits(t)
    BY <1>1, <1>6, <1>12 DEF Waits, FilesStay
  <1>20. ArrayGrows
    BY <1>1, <1>3, <1>5, <1>7, <1>10, <1>11, <1>12, <1>13, LiveFiles DEF ArrayGrows
  <1> QED BY <1>1, <1>3, <1>4, <1>6, <1>8, <1>9, <1>16, <1>18, <1>19, <1>20 DEF SharedInv

LEMMA StoreShared ==
  ASSUME SharedInv, NEW t \in Thread, arr_store(t)
  PROVE  /\ SharedInv' /\ Waits(t) /\ Shifts("rshift") /\ ArrayGrows /\ calls[t].pc = "rshift"
         /\ calls'[t] = Idle
  <1> DEFINE k == calls[t].k
             f == calls[t].f
  <1>1. /\ calls[t].pc = "rshift"
        /\ k < calls[t].index /\ list' = [list EXCEPT ![calls[t].index] = f] /\ Locals(t, Idle)
        /\ name' = name /\ length' = length /\ size' = size + 1 /\ used' = used /\ lock' = NoThread
    BY DEF arr_store, files
  <1>2. TypeInv /\ LockInv /\ ArrayInv /\ SpaceInv
    BY DEF SharedInv
  <1>3. lock = t /\ Shifts("rshift") /\ ~ Shifts("lshift") /\ lock # Unmounted
    BY <1>1, <1>2, Shifting
  <1>4. /\ k \in -1 .. size - 1 /\ size < IndexLen /\ size \in Nat /\ IndexLen \in Nat
        /\ f \in Live /\ calls[t].index = k + 1
    BY <1>1, <1>2, <1>3, ThreadNames DEF ArrayInv, ShiftInv, TypeInv
  <1>5. Slots = 0 .. size \ {k + 1} /\ Linked = Live \ {f} /\ Staying = Live
    BY <1>3 DEF Slots, Linked, Staying
  <1> HIDE DEF k, f
  <1>6. /\ calls' \in [Thread -> Call] /\ calls'[t] = Idle
        /\ \A u \in Thread \ {t} : calls'[u] = calls[u]
    BY <1>1, <1>2, IdleCall, LocalsCalls
  <1>7. /\ list'[k + 1] = f /\ \A j \in 0 .. IndexLen - 1 \ {k + 1} : list'[j] = list[j]
        /\ DOMAIN list = 0 .. IndexLen - 1 /\ DOMAIN list' = 0 .. IndexLen - 1
    BY <1>1, <1>2, <1>4 DEF TypeInv
  <1>8. TypeInv'
    BY <1>1, <1>2, <1>4, <1>6, LiveFiles DEF TypeInv
  <1>9. LockInv'
    BY <1>1, <1>2, <1>3, <1>6, ThreadNames DEF LockInv, Idle
  <1>10. ~ Shifts("rshift")' /\ ~ Shifts("lshift")'
    BY <1>1, ThreadNames DEF Shifts
  <1>11. Live' = Live
    BY <1>1 DEF Live
  <1>12. Staying' = Live /\ Linked' = Live /\ Slots' = 0 .. size
    BY <1>1, <1>4, <1>10, <1>11 DEF Staying, Linked, Slots
  <1>13. Filled(list', Slots', Linked')
    <2>1. /\ Slots \in SUBSET (0 .. IndexLen - 1) /\ k + 1 \in 0 .. IndexLen - 1 \ Slots
          /\ Slots \cup {k + 1} = Slots' /\ Linked \cup {f} = Linked' /\ IndexLen - 1 \in Int
          /\ f \notin Linked
      BY <1>4, <1>5, <1>12
    <2>2. Filled(list, Slots, Linked)
      BY <1>2, <1>3 DEF ArrayInv
    <2> QED BY <1>1, <1>4, <1>7, <2>1, <2>2, FilledAdd
  <1>14. ArrayInv'
    BY <1>1, <1>2, <1>10, <1>11, <1>13 DEF ArrayInv, ShiftInv
  <1>15. Sizes' = Sizes
    BY <1>1, <1>5, <1>12 DEF Sizes
  <1>16. SpaceInv'
    BY <1>1, <1>2, <1>3, <1>11, <1>15 DEF SpaceInv
  <1>17. Waits(t)
    BY <1>1, <1>5, <1>6, <1>12 DEF Waits, FilesStay
  <1>18. ArrayGrows
    BY <1>1, <1>3, <1>4, <1>7, <1>10, <1>11, LiveFiles DEF ArrayGrows
  <1> QED BY <1>1, <1>3, <1>6, <1>8, <1>9, <1>14, <1>16, <1>17, <1>18 DEF SharedInv

(* The array drops a file: listings have met it. *)
ArrayDrops ==
  \A j \in 0 .. IndexLen - 1 : list[j] \in FileT => list'[j] \in FileT

LEMMA UnlinkShared ==
  ASSUME SharedInv, OrderInv, NEW t \in Thread, NEW a \in Names, unlink(t, a)
  PROVE  /\ SharedInv' /\ Happens(t, "drop", a) /\ ArrayDrops /\ calls[t].pc = "idle"
         /\ calls'[t].pc = "lshift"
  <1>1. PICK f, p : f = file(a) /\ p = position(a)
    OBVIOUS
  <1> DEFINE c == [Idle EXCEPT !.pc = "lshift", !.f = f, !.k = p + 1]
  <1>2. /\ lock = NoThread /\ lock' = t /\ calls[t].pc = "idle" /\ Exists(a)
        /\ list' = list /\ size' = size /\ name' = name /\ length' = length
        /\ used' = used - length[f] /\ Continue(t, c, "drop", a)
    BY <1>1 DEF unlink, Free, array, files
  <1>3. TypeInv /\ LockInv /\ ArrayInv /\ SpaceInv /\ size \in Nat /\ size <= IndexLen
        /\ used \in Int
    BY ThreadNames DEF SharedInv, TypeInv
  <1>4. /\ f \in Live /\ f \in FileT /\ name[f] = a /\ p \in 0 .. size - 1 /\ list[p] = f
        /\ \A g \in Live : name[g] = a => g = f
    BY <1>1, <1>2, FoundFile, LiveFiles
  <1>5. /\ ~ Shifts("lshift") /\ Staying = Live /\ Filled(list, 0 .. size - 1, Live)
    BY <1>2, ArrayWhole
  <1>6. c \in Call /\ c.pc = "lshift" /\ c.f = f /\ c.k = p + 1 /\ "drop" \in Happenings
    <2>1. p + 1 \in Int
      BY <1>3, <1>4
    <2> QED BY <1>4, <2>1, IdleCall DEF Call, Happenings
  <1> HIDE DEF c
  <1>7. /\ calls' \in [Thread -> Call] /\ calls'[t] = c
        /\ \A u \in Thread \ {t} : Goes(u, Hears(u, "drop", a)) /\ calls'[u].pc = calls[u].pc
    BY <1>2, <1>3, <1>6, ContinueCalls
  <1>8. Live' = Live
    BY <1>2 DEF Live
  <1>9. Shifts("lshift")' /\ ~ Shifts("rshift")' /\ calls'[lock'] = c
    BY <1>2, <1>6, <1>7 DEF Shifts
  <1>10. Staying' = Live \ {f} /\ Linked' = Live \ {f} /\ Slots' = 0 .. size - 1 \ {p}
    <2>1. c.k - 1 = p
      BY <1>4, <1>6
    <2>2. Staying' = Live \ {f} /\ Linked' = Live \ {f}
      BY <1>6, <1>8, <1>9 DEF Staying, Linked
    <2> QED BY <1>2, <1>9, <2>1, <2>2 DEF Slots
  <1>11. LockInv'
    BY <1>2, <1>3, <1>6, <1>7, ThreadNames DEF LockInv
  <1>12. Filled(list', Slots', Linked')
    BY <1>2, <1>4, <1>5, <1>10, FilledDrop
  <1>13. ShiftInv'
    <2>1. c.k - 1 = p
      BY <1>4, <1>6
    <2> QED BY <1>2, <1>3, <1>4, <1>6, <1>8, <1>9, <2>1 DEF ShiftInv
  <1>14. ArrayInv'
    BY <1>2, <1>3, <1>8, <1>12, <1>13 DEF ArrayInv
  <1>15. /\ Sizes'[f] = 0 /\ Sizes[f] = length[f]
         /\ \A g \in FileT : Sizes[g] \in Nat /\ Sizes'[g] \in Nat /\ (g # f => Sizes'[g] = Sizes[g])
    BY <1>2, <1>3, <1>4, <1>5, <1>10 DEF Sizes, TypeInv
  <1>16. PICK old, new : old = SumFunctionOnSet(Sizes, FileT) /\ new = SumFunctionOnSet(Sizes', FileT)
    OBVIOUS
  <1>17. /\ old \in Nat /\ new \in Nat /\ length[f] <= old /\ new = old - length[f] + 0
         /\ length[f] \in Nat
    BY <1>4, <1>15, <1>16, ThreadNames, SumChange
  <1>18. /\ used = old /\ used' = new /\ used' \in Nat /\ used' <= used /\ new <= FileDataLen
         /\ used' \in 0 .. FileDataLen
    BY <1>2, <1>3, <1>16, <1>17, ThreadNames DEF SpaceInv
  <1>19. TypeInv'
    BY <1>2, <1>3, <1>7, <1>18 DEF TypeInv
  <1>20. SpaceInv'
    BY <1>2, <1>3, <1>8, <1>16, <1>18 DEF SpaceInv
  <1>21. Happens(t, "drop", a)
    BY <1>2, <1>4, <1>5, <1>6, <1>7, <1>10, <1>18 DEF Happens, Changes, FilesStay
  <1> QED BY <1>2, <1>6, <1>7, <1>11, <1>14, <1>19, <1>20, <1>21 DEF SharedInv, ArrayDrops

LEMMA LshiftShared ==
  ASSUME SharedInv, NEW t \in Thread, arr_lshift(t)
  PROVE  /\ SharedInv' /\ Waits(t) /\ Shifts("lshift") /\ ArrayDrops /\ calls[t].pc = "lshift"
         /\ calls'[t].pc = "lshift"
  <1> DEFINE k == calls[t].k
             c == [calls[t] EXCEPT !.k = k + 1]
  <1>1. /\ calls[t].pc = "lshift" /\ k < size
        /\ list' = [list EXCEPT ![k - 1] = list[k]] /\ Locals(t, c)
        /\ name' = name /\ length' = length /\ size' = size /\ used' = used /\ lock' = lock
    BY DEF arr_lshift, files
  <1>2. TypeInv /\ LockInv /\ ArrayInv /\ SpaceInv /\ calls[t] \in Call
    BY DEF SharedInv, TypeInv
  <1>3. lock = t /\ Shifts("lshift") /\ ~ Shifts("rshift") /\ lock # Unmounted
    BY <1>1, <1>2, Shifting
  <1>4. /\ c \in Call /\ c.pc = "lshift" /\ c.f = calls[t].f /\ c.k = k + 1
    <2>1. k \in Int /\ k + 1 \in Int
      BY <1>2 DEF Call
    <2> QED BY <1>1, <1>2, <2>1, ShiftedCall
  <1>5. /\ k \in 1 .. size - 1 /\ size <= IndexLen /\ size \in Nat /\ IndexLen \in Nat
        /\ calls[t].f \in Live
    BY <1>1, <1>2, <1>3, ThreadNames DEF ArrayInv, ShiftInv, TypeInv
  <1> HIDE DEF c
  <1>6. /\ calls' \in [Thread -> Call] /\ calls'[t] = c
        /\ \A u \in Thread \ {t} : calls'[u] = calls[u]
    BY <1>1, <1>2, <1>4, LocalsCalls
  <1>7. Live' = Live
    BY <1>1 DEF Live
  <1>8. Shifts("lshift")' /\ ~ Shifts("rshift")' /\ calls'[lock'] = c
    BY <1>1, <1>3, <1>4, <1>6 DEF Shifts
  <1>9. /\ Staying' = Staying /\ Linked' = Linked /\ Linked = Live \ {calls[t].f}
        /\ Slots = 0 .. size - 1 \ {k - 1} /\ Slots' = 0 .. size - 1 \ {k}
    <2>1. c.k - 1 = k
      BY <1>4, <1>5
    <2>2. Staying' = Staying /\ Linked' = Linked /\ Linked = Live \ {calls[t].f}
      BY <1>1, <1>3, <1>4, <1>7, <1>8 DEF Staying, Linked
    <2> QED BY <1>1, <1>3, <1>8, <2>1, <2>2 DEF Slots
  <1> HIDE DEF k
  <1>10. /\ list'[k - 1] = list[k] /\ \A j \in 0 .. IndexLen - 1 \ {k - 1} : list'[j] = list[j]
         /\ DOMAIN list = 0 .. IndexLen - 1 /\ DOMAIN list' = 0 .. IndexLen - 1
    BY <1>1, <1>2, <1>5 DEF TypeInv
  <1>11. TypeInv'
    BY <1>1, <1>2, <1>5, <1>6 DEF TypeInv
  <1>12. LockInv'
    BY <1>1, <1>2, <1>4, <1>6 DEF LockInv
  <1>13. Filled(list, Slots, Linked) /\ k \in Slots /\ list[k] \in Linked
    BY <1>2, <1>3, <1>5, <1>9 DEF ArrayInv, Filled
  <1>14. Filled(list', Slots', Linked)
    <2>1. /\ Slots \in SUBSET (0 .. IndexLen - 1) /\ k - 1 \in 0 .. IndexLen - 1 \ Slots
          /\ (Slots \ {k}) \cup {k - 1} = Slots' /\ IndexLen - 1 \in Int
      BY <1>5, <1>9
    <2> QED BY <1>1, <1>10, <1>13, <2>1, FilledMove
  <1>15. ShiftInv'
    <2>1. c.k - 1 = k /\ list'[k] = list[k] /\ list[k] \in FileT
      BY <1>4, <1>5, <1>9, <1>10, <1>13, LiveFiles DEF k
    <2> QED BY <1>1, <1>4, <1>5, <1>7, <1>8, <2>1 DEF ShiftInv
  <1>16. ArrayInv'
    BY <1>1, <1>2, <1>3, <1>7, <1>9, <1>14, <1>15 DEF ArrayInv
  <1>17. Sizes' = Sizes
    BY <1>1, <1>9 DEF Sizes
  <1>18. SpaceInv'
    BY <1>1, <1>2, <1>7, <1>17 DEF SpaceInv
  <1>19. Waits(t)
    BY <1>1, <1>6, <1>9 DEF Waits, FilesStay
  <1>20. ArrayDrops
    BY <1>5, <1>9, <1>10, <1>13, LiveFiles DEF ArrayDrops
  <1> QED BY <1>1, <1>3, <1>4, <1>6, <1>11, <1>12, <1>16, <1>18, <1>19, <1>20 DEF SharedInv

LEMMA FreeShared ==
  ASSUME SharedInv, NEW t \in Thread, free_file(t)
  PROVE  /\ SharedInv' /\ Waits(t) /\ Shifts("lshift") /\ ArrayDrops /\ calls[t].pc = "lshift"
         /\ calls'[t] = Idle
         /\ calls[t].f \in Live /\ Live' = Live \ {calls[t].f} /\ lock' = NoThread
         /\ \A g \in Live' : name'[g] = name[g] /\ length'[g] = length[g]
  <1> DEFINE f == calls[t].f
  <1>1. /\ calls[t].pc = "lshift" /\ calls[t].k >= size /\ Locals(t, Idle)
        /\ name' = [name EXCEPT ![f] = 0] /\ length' = [length EXCEPT ![f] = 0]
        /\ list' = list /\ size' = size - 1 /\ used' = used /\ lock' = NoThread
    BY DEF free_file
  <1>2. TypeInv /\ LockInv /\ ArrayInv /\ SpaceInv /\ calls[t] \in Call
    BY DEF SharedInv, TypeInv
  <1>3. lock = t /\ Shifts("lshift") /\ ~ Shifts("rshift") /\ lock # Unmounted
    BY <1>1, <1>2, Shifting
  <1>4. calls[t].k = size /\ size \in 1 .. IndexLen /\ f \in Live /\ f \in FileT
    BY <1>1, <1>2, <1>3, LiveFiles, ThreadNames DEF ArrayInv, ShiftInv, TypeInv
  <1>5. Slots = 0 .. size - 1 \ {size - 1} /\ Linked = Live \ {f} /\ Staying = Live \ {f}
    BY <1>3, <1>4 DEF Slots, Linked, Staying
  <1> HIDE DEF f
  <1>6. /\ calls' \in [Thread -> Call] /\ calls'[t] = Idle
        /\ \A u \in Thread \ {t} : calls'[u] = calls[u]
    BY <1>1, <1>2, IdleCall, LocalsCalls
  <1>7. /\ name'[f] = 0 /\ length'[f] = 0
        /\ \A g \in FileT \ {f} : name'[g] = name[g] /\ length'[g] = length[g]
    BY <1>1, <1>2, <1>4 DEF TypeInv
  <1>8. Live' = Live \ {f}
    BY <1>1, <1>7, LiveFiles DEF Live
  <1>9. TypeInv'
    <2>1. size' \in 0 .. IndexLen
      BY <1>1, <1>4, ThreadNames
    <2>2. name' \in [FileT -> Names \cup {0}] /\ length' \in [FileT -> Nat]
      BY <1>1, <1>2 DEF TypeInv
    <2> QED BY <1>1, <1>2, <1>6, <2>1, <2>2 DEF TypeInv
  <1>10. LockInv'
    BY <1>1, <1>2, <1>3, <1>6, ThreadNames DEF LockInv, Idle
  <1>11. ~ Shifts("rshift")' /\ ~ Shifts("lshift")'
    BY <1>1, ThreadNames DEF Shifts
  <1>12. Staying' = Live' /\ Linked' = Live' /\ Slots' = 0 .. size - 1 - 1
    BY <1>1, <1>11 DEF Staying, Linked, Slots
  <1>13. Slots' = Slots
    BY <1>4, <1>5, <1>12
  <1>14. \A g, h \in Live' : name'[g] = name'[h] => g = h
    BY <1>2, <1>7, <1>8, LiveFiles DEF ArrayInv
  <1>15. ArrayInv'
    BY <1>1, <1>2, <1>3, <1>5, <1>8, <1>11, <1>12, <1>13, <1>14 DEF ArrayInv, ShiftInv
  <1>16. Sizes' = Sizes
    BY <1>5, <1>7, <1>8, <1>12 DEF Sizes
  <1>17. SpaceInv'
    BY <1>1, <1>2, <1>3, <1>4, <1>7, <1>8, <1>16 DEF SpaceInv
  <1>18. Waits(t)
    BY <1>1, <1>5, <1>6, <1>7, <1>8, <1>12, LiveFiles DEF Waits, FilesStay
  <1>19. \A g \in Live' : name'[g] = name[g] /\ length'[g] = length[g]
    BY <1>7, <1>8, LiveFiles
  <1> QED BY <1>1, <1>3, <1>4, <1>6, <1>8, <1>9, <1>10, <1>15, <1>17, <1>18, <1>19
          DEF SharedInv, ArrayDrops, f

LEMMA RenameShared ==
  ASSUME SharedInv, OrderInv, NEW t \in Thread, NEW a \in Names, NEW b \in Names, rename(t, a, b)
  PROVE  /\ SharedInv' /\ Happens(t, "drop", a) /\ ArrayDrops /\ calls[t].pc = "idle"
         /\ calls'[t] = Idle
         /\ Exists(a) /\ lock = NoThread /\ Live' = Live /\ length' = length
         /\ name' = [name EXCEPT ![file(a)] = b] /\ \A g \in Live : name[g] # b
         /\ Staying' = Live /\ list' = list /\ size' = size /\ lock' = lock
         /\ ~ Shifts("rshift")' /\ ~ Shifts("lshift")'
  <1>1. PICK f : f = file(a)
    OBVIOUS
  <1>2. /\ lock = NoThread /\ calls[t].pc = "idle" /\ Exists(a) /\ ~ Exists(b)
        /\ name' = [name EXCEPT ![f] = b] /\ Continue(t, Idle, "drop", a)
        /\ list' = list /\ size' = size /\ length' = length /\ lock' = lock /\ used' = used
    BY <1>1 DEF rename, Free, array
  <1>3. TypeInv /\ LockInv /\ ArrayInv /\ SpaceInv
    BY DEF SharedInv
  <1>4. /\ f \in Live /\ f \in FileT /\ name[f] = a
        /\ \A g \in Live : name[g] = a => g = f
        /\ \A g \in Live : name[g] # b
    BY <1>1, <1>2, FoundFile, LiveFiles
  <1>5. Staying = Live /\ Linked = Live /\ Slots = 0 .. size - 1
    BY <1>2, ArrayWhole
  <1>6. "drop" \in Happenings /\ Idle.pc = "idle"
    BY DEF Happenings, Idle
  <1>7. /\ calls' \in [Thread -> Call] /\ calls'[t] = Idle
        /\ \A u \in Thread \ {t} : Goes(u, Hears(u, "drop", a)) /\ calls'[u].pc = calls[u].pc
    BY <1>2, <1>3, <1>6, IdleCall, ContinueCalls
  <1>8. name'[f] = b /\ \A g \in FileT \ {f} : name'[g] = name[g]
    BY <1>2, <1>3, <1>4 DEF TypeInv
  <1>9. Live' = Live
    BY <1>4, <1>8, ThreadNames DEF Live
  <1>10. ~ Shifts("rshift")' /\ ~ Shifts("lshift")'
    BY <1>2, ThreadNames DEF Shifts
  <1>11. Staying' = Live /\ Linked' = Live /\ Slots' = 0 .. size - 1
    BY <1>2, <1>9, <1>10 DEF Staying, Linked, Slots
  <1>12. TypeInv'
    BY <1>2, <1>3, <1>4, <1>7 DEF TypeInv
  <1>13. LockInv'
    BY <1>2, <1>3, <1>6, <1>7, ThreadNames DEF LockInv
  <1>14. \A g, h \in Live' : name'[g] = name'[h] => g = h
    BY <1>3, <1>4, <1>8, <1>9, LiveFiles DEF ArrayInv
  <1>15. ArrayInv'
    BY <1>2, <1>3, <1>5, <1>10, <1>11, <1>14 DEF ArrayInv, ShiftInv
  <1>16. Sizes' = Sizes
    BY <1>2, <1>5, <1>11 DEF Sizes
  <1>17. SpaceInv'
    BY <1>2, <1>3, <1>9, <1>16 DEF SpaceInv
  <1>18. Happens(t, "drop", a)
    <2>1. used' <= used
      BY <1>2, <1>3, ThreadNames DEF TypeInv
    <2> QED BY <1>2, <1>4, <1>5, <1>6, <1>7, <1>8, <1>11, <2>1, LiveFiles DEF Happens, Changes, FilesStay
  <1> QED BY <1>1, <1>2, <1>4, <1>7, <1>9, <1>10, <1>11, <1>12, <1>13, <1>15, <1>17, <1>18
          DEF SharedInv, ArrayDrops

(* The file f of name a gets the length n. *)
LEMMA LengthShared ==
  ASSUME SharedInv, NEW t \in Thread, NEW a \in Names, NEW f \in Live, name[f] = a,
         NEW n \in Nat, lock = NoThread, calls[t].pc \notin {"rshift", "lshift"},
         used + n - length[f] <= FileDataLen,
         length' = [length EXCEPT ![f] = n], used' = used + n - length[f],
         UNCHANGED <<name, array, lock>>,
         NEW event, event = IF n < length[f] THEN "shrink" ELSE "grow",
         Continue(t, Idle, event, a)
  PROVE  /\ SharedInv' /\ Happens(t, event, a) /\ ArraySame /\ calls'[t] = Idle
  <1>1. /\ list' = list /\ size' = size /\ name' = name /\ lock' = lock
    BY DEF array
  <1>2. TypeInv /\ LockInv /\ ArrayInv /\ SpaceInv /\ f \in FileT /\ used \in Nat /\ length[f] \in Nat
    BY LiveFiles, ThreadNames DEF SharedInv, TypeInv
  <1>3. \A g \in Live : name[g] = a => g = f
    BY <1>2 DEF ArrayInv
  <1>4. /\ Staying = Live /\ Linked = Live /\ Slots = 0 .. size - 1
        /\ ~ Shifts("rshift") /\ ~ Shifts("lshift")
    BY ArrayWhole
  <1>5. event \in Happenings /\ Idle.pc = "idle"
    BY DEF Happenings, Idle
  <1>6. /\ calls' \in [Thread -> Call] /\ calls'[t] = Idle
        /\ \A u \in Thread \ {t} : Goes(u, Hears(u, event, a)) /\ calls'[u].pc = calls[u].pc
    BY <1>2, <1>5, IdleCall, ContinueCalls
  <1>7. length'[f] = n /\ \A g \in FileT \ {f} : length'[g] = length[g]
    BY <1>2 DEF TypeInv
  <1>8. Live' = Live
    BY <1>1 DEF Live
  <1>9. ~ Shifts("rshift")' /\ ~ Shifts("lshift")'
    BY <1>1, ThreadNames DEF Shifts
  <1>10. Staying' = Live /\ Linked' = Live /\ Slots' = 0 .. size - 1
    BY <1>1, <1>8, <1>9 DEF Staying, Linked, Slots
  <1>11. LockInv'
    BY <1>1, <1>2, <1>5, <1>6, ThreadNames DEF LockInv
  <1>12. ArrayInv'
    BY <1>1, <1>2, <1>4, <1>8, <1>9, <1>10 DEF ArrayInv, ShiftInv
  <1>13. /\ Sizes'[f] = n /\ Sizes[f] = length[f]
         /\ \A g \in FileT : Sizes[g] \in Nat /\ Sizes'[g] \in Nat /\ (g # f => Sizes'[g] = Sizes[g])
    BY <1>2, <1>4, <1>7, <1>8, <1>10 DEF Sizes, TypeInv
  <1>14. PICK old, new : old = SumFunctionOnSet(Sizes, FileT) /\ new = SumFunctionOnSet(Sizes', FileT)
    OBVIOUS
  <1>15. old \in Nat /\ new \in Nat /\ new = old - length[f] + n
    BY <1>2, <1>13, <1>14, ThreadNames, SumChange
  <1>16. /\ used = old /\ used' = new /\ new <= FileDataLen /\ used' \in 0 .. FileDataLen
    BY <1>2, <1>14, <1>15, ThreadNames DEF SpaceInv
  <1>17. TypeInv'
    BY <1>1, <1>2, <1>6, <1>16 DEF TypeInv
  <1>18. SpaceInv'
    BY <1>1, <1>2, <1>7, <1>8, <1>14, <1>16 DEF SpaceInv
  <1>19. ArraySame
    BY <1>1, <1>4, <1>8, <1>9, <1>10 DEF ArraySame, ViewSame
  <1>20. Happens(t, event, a)
    <2>1. FilesStay({g \in Staying : name[g] # a})
      BY <1>1, <1>4, <1>7, <1>10, LiveFiles DEF FilesStay
    <2>2. event = "shrink" => used' <= used
      BY <1>2
    <2>3. event = "grow" => used <= used' /\ \A g \in Staying : length[g] <= length'[g]
      <3>1. event = "grow" => length[f] <= n
        BY <1>2
      <3>2. \A g \in FileT : length[g] \in Nat
        BY <1>2 DEF TypeInv
      <3> QED BY <1>2, <1>4, <1>7, <3>1, <3>2, LiveFiles
    <2>4. \A g \in Staying : g \in Staying' /\ name'[g] = name[g]
      BY <1>1, <1>4, <1>10
    <2>5. event # "add" /\ event # "drop"
      OBVIOUS
    <2> QED BY <1>5, <1>6, <2>1, <2>2, <2>3, <2>4, <2>5 DEF Happens, Changes
  <1> QED BY <1>6, <1>11, <1>12, <1>17, <1>18, <1>19, <1>20 DEF SharedInv

LEMMA TruncateShared ==
  ASSUME SharedInv, OrderInv, NEW t \in Thread, NEW a \in Names, NEW n \in TruncateLengths, truncate(t, a, n)
  PROVE  /\ SharedInv' /\ ArraySame /\ calls[t].pc = "idle" /\ calls'[t] = Idle
         /\ Happens(t, "shrink", a) \/ Happens(t, "grow", a)
  <1>1. /\ lock = NoThread /\ calls[t].pc = "idle" /\ Exists(a)
        /\ used + n - length[file(a)] <= FileDataLen
        /\ length' = [length EXCEPT ![file(a)] = n]
        /\ used' = used + n - length[file(a)]
        /\ Continue(t, Idle, IF n < length[file(a)] THEN "shrink" ELSE "grow", a)
        /\ UNCHANGED <<name, array, lock>>
    BY DEF truncate, Free
  <1>2. PICK f : f = file(a)
    OBVIOUS
  <1>3. f \in Live /\ name[f] = a /\ n \in Nat
    BY <1>1, <1>2, FoundFile, ThreadNames
  <1>4. PICK event : event = IF n < length[f] THEN "shrink" ELSE "grow"
    OBVIOUS
  <1>5. Happens(t, event, a) /\ SharedInv' /\ ArraySame /\ calls'[t] = Idle
    BY <1>1, <1>2, <1>3, <1>4, LengthShared
  <1> QED BY <1>1, <1>4, <1>5

(* write_file changes the length only when it makes the file longer. *)
LEMMA WriteShared ==
  ASSUME SharedInv, OrderInv, NEW t \in Thread, SizeInv(calls[t]), write_file(t)
  PROVE  /\ SharedInv' /\ calls[t].pc = "write" /\ calls'[t] = Idle
         /\ ArraySame /\ (Waits(t) \/ Happens(t, "grow", calls[t].path))
  <1>1. PICK c, f, end : c = calls[t] /\ f = file(c.path) /\ end = c.offset + c.count
    OBVIOUS
  <1>2. /\ c.pc = "write" /\ lock = NoThread /\ UNCHANGED <<name, array, lock>>
        /\ IF write_code(c) = 0 /\ end > length[f]
           THEN /\ length' = [length EXCEPT ![f] = end] /\ used' = used + end - length[f]
                /\ Continue(t, Idle, "grow", c.path)
           ELSE Locals(t, Idle) /\ UNCHANGED <<length, used>>
    BY <1>1 DEF write_file
  <1>3. c \in Call /\ TypeInv
    BY <1>1 DEF SharedInv, TypeInv
  <1>4. CASE write_code(c) = 0 /\ end > length[f]
    <2>1. c.path \in Names /\ end \in Nat
      BY <1>1, <1>2, <1>3 DEF SizeInv, Writing, Call
    <2>2. Exists(c.path) /\ ~ (used + c.offset + c.count - length[f] > FileDataLen)
      BY <1>1, <1>4 DEF write_code
    <2>3. f \in Live /\ name[f] = c.path
      BY <1>1, <1>2, <2>1, <2>2, FoundFile
    <2>4. length[f] \in Nat /\ used \in Nat /\ c.offset \in Nat /\ c.count \in Nat /\ FileDataLen \in Nat
      BY <1>3, <2>3, LiveFiles, ThreadNames DEF TypeInv, Call
    <2>5. used + end - length[f] <= FileDataLen
      BY <1>1, <2>2, <2>4
    <2>6. "grow" = IF end < length[f] THEN "shrink" ELSE "grow"
      BY <1>4, <2>1, <2>4
    <2>7. c.pc \notin {"rshift", "lshift"}
      BY <1>2
    <2>8. SharedInv' /\ Happens(t, "grow", c.path) /\ ArraySame /\ calls'[t] = Idle
      BY <1>1, <1>2, <1>4, <2>1, <2>3, <2>5, <2>6, <2>7, LengthShared
    <2> QED BY <1>1, <1>2, <2>8
  <1>5. CASE ~ (write_code(c) = 0 /\ end > length[f])
    <2>1. Locals(t, Idle) /\ Quiet /\ Idle.pc = "idle"
      BY <1>2, <1>5 DEF Quiet, files, Idle
    <2>2. SharedInv' /\ ViewSame
      BY <1>1, <1>2, <2>1, IdleCall, QuietStep
    <2>3. calls'[t] = Idle /\ \A u \in Thread \ {t} : calls'[u] = calls[u]
      BY <1>3, <2>1, IdleCall, LocalsCalls
    <2>4. Waits(t) /\ ArraySame
      BY <1>2, <2>1, <2>2, <2>3 DEF Waits, FilesStay, ArraySame, ViewSame, Quiet, files, array
    <2> QED BY <1>1, <1>2, <2>2, <2>3, <2>4
  <1> QED BY <1>4, <1>5

----------------------------------------------------------------------------
(* Mounting *)

(* The files in the order of their names: each at its rank, the number of
   files before it. *)
LEMMA SortedExists ==
  ASSUME NEW fs \in SUBSET FileT, \A f \in fs : name[f] \in Nat,
         \A f, g \in fs : name[f] = name[g] => f = g
  PROVE  \E s \in [0 .. IndexLen - 1 -> FileT \cup {NoFile}] :
           /\ {s[j] : j \in 0 .. Cardinality(fs) - 1} = fs
           /\ \A j, k \in 0 .. Cardinality(fs) - 1 : j < k => name[s[j]] < name[s[k]]
           /\ \A j \in Cardinality(fs) .. IndexLen - 1 : s[j] = NoFile
  <1> DEFINE Below(f) == {g \in fs : name[g] < name[f]}
  <1>1. PICK n : n = Cardinality(fs)
    OBVIOUS
  <1>2. IsFiniteSet(fs) /\ n \in Nat /\ n <= IndexLen
    <2>1. Cardinality(FileT) = IndexLen
      <3>1. IndexLen \in Nat /\ 1 \in Int
        BY FuseAssumption
      <3>2. Cardinality(1 .. IndexLen) = IF 1 > IndexLen THEN 0 ELSE IndexLen - 1 + 1
        BY <3>1, FS_Interval
      <3> QED BY <3>1, <3>2 DEF FileT
    <2> QED BY <1>1, <2>1, ThreadNames, FS_Subset, FS_CardinalityType
  <1>3. \A f \in fs : /\ IsFiniteSet(Below(f)) /\ Cardinality(Below(f)) \in 0 .. n - 1
    <2> SUFFICES ASSUME NEW f \in fs
                 PROVE  IsFiniteSet(Below(f)) /\ Cardinality(Below(f)) \in 0 .. n - 1
      OBVIOUS
    <2>1. Below(f) \in SUBSET (fs \ {f})
      OBVIOUS
    <2>2. IsFiniteSet(fs \ {f}) /\ Cardinality(fs \ {f}) = n - 1
      BY <1>1, <1>2, FS_RemoveElement
    <2>3. IsFiniteSet(Below(f)) /\ Cardinality(Below(f)) <= n - 1
      BY <2>1, <2>2, FS_Subset
    <2>4. Cardinality(Below(f)) \in Nat
      BY <2>3, FS_CardinalityType
    <2> QED BY <1>2, <2>3, <2>4
  <1>4. \A f, g \in fs : name[f] < name[g] => Cardinality(Below(f)) < Cardinality(Below(g))
    <2> SUFFICES ASSUME NEW f \in fs, NEW g \in fs, name[f] < name[g]
                 PROVE  Cardinality(Below(f)) < Cardinality(Below(g))
      OBVIOUS
    <2>1. f \notin Below(f) /\ Below(f) \cup {f} \in SUBSET Below(g)
      OBVIOUS
    <2>2. Cardinality(Below(f) \cup {f}) = Cardinality(Below(f)) + 1
      BY <1>3, <2>1, FS_AddElement
    <2>3. Cardinality(Below(f) \cup {f}) <= Cardinality(Below(g))
      BY <1>3, <2>1, FS_Subset
    <2>4. PICK p, q, r : /\ p = Cardinality(Below(f)) /\ q = Cardinality(Below(g))
                         /\ r = Cardinality(Below(f) \cup {f})
      OBVIOUS
    <2>5. p \in 0 .. n - 1 /\ q \in 0 .. n - 1
      BY <1>3, <2>4
    <2>6. p < q
      BY <1>2, <2>2, <2>3, <2>4, <2>5
    <2> QED BY <2>4, <2>6
  <1> DEFINE rank == [f \in fs |-> Cardinality(Below(f))]
  <1>5. \A f \in fs : rank[f] = Cardinality(Below(f))
    OBVIOUS
  <1> HIDE DEF Below
  <1>6. rank \in [fs -> 0 .. n - 1]
    BY <1>3
  <1> HIDE DEF rank
  <1>7. \A f, g \in fs : rank[f] = rank[g] => f = g
    BY <1>3, <1>4, <1>5
  <1>8. rank \in Injection(fs, 0 .. n - 1)
    BY <1>6, <1>7, Fun_IsInj
  <1>9. \A j \in 0 .. n - 1 : \E f \in fs : rank[f] = j
    <2>1. IsFiniteSet(0 .. n - 1) /\ Cardinality(0 .. n - 1) = n
      <3>1. Cardinality(0 .. n - 1) = IF 0 > n - 1 THEN 0 ELSE n - 1 - 0 + 1
        BY <1>2, FS_Interval
      <3> QED BY <1>2, <3>1, FS_Interval
    <2>2. rank \in Surjection(fs, 0 .. n - 1)
      BY <1>1, <1>8, <2>1, FS_Injection
    <2> QED BY <2>2, Fun_SurjectionProperties
  <1> DEFINE at(j) == CHOOSE f \in fs : rank[f] = j
             s == [j \in 0 .. IndexLen - 1 |-> IF j < n THEN at(j) ELSE NoFile]
  <1>10. \A j \in 0 .. n - 1 : at(j) \in fs /\ rank[at(j)] = j
    BY <1>9
  <1>11. \A f \in fs : rank[f] \in 0 .. n - 1 /\ at(rank[f]) = f
    BY <1>6, <1>7, <1>10
  <1> HIDE DEF at
  <1>12. /\ s \in [0 .. IndexLen - 1 -> FileT \cup {NoFile}]
         /\ \A j \in 0 .. n - 1 : s[j] = at(j)
         /\ \A j \in n .. IndexLen - 1 : s[j] = NoFile
    BY <1>2, <1>10, ThreadNames
  <1> HIDE DEF s
  <1>13. {s[j] : j \in 0 .. n - 1} = fs
    BY <1>10, <1>11, <1>12
  <1>14. ASSUME NEW j \in 0 .. n - 1, NEW k \in 0 .. n - 1, j < k
         PROVE  name[s[j]] < name[s[k]]
    <2>1. PICK f \in fs, g \in fs : s[j] = f /\ s[k] = g /\ rank[f] = j /\ rank[g] = k
      BY <1>10, <1>12
    <2>2. name[f] \in Nat /\ name[g] \in Nat /\ j \in Nat /\ k \in Nat
      BY <1>2
    <2>3. ~ (name[g] < name[f]) /\ name[g] # name[f]
      BY <1>4, <1>5, <1>14, <2>1, <2>2
    <2> QED BY <2>1, <2>2, <2>3
  <1> QED BY <1>1, <1>12, <1>13, <1>14

LEMMA MountShared ==
  ASSUME SharedInv, myfuse_init
  PROVE  /\ SharedInv' /\ \A t \in Thread : calls'[t].pc = "idle"
         /\ Live' = Live /\ name' = name /\ length' = length
         /\ ~ Shifts("rshift")' /\ ~ Shifts("lshift")' /\ Slots' = 0 .. size' - 1
         /\ \A i, j \in Slots' : i < j => name'[list'[i]] < name'[list'[j]]
  <1>1. /\ lock = Unmounted /\ lock' = NoThread /\ list' = sorted(Live)
        /\ size' = Cardinality(Live) /\ used' = SumFunction(length)
        /\ name' = name /\ length' = length /\ calls' = calls
    BY DEF myfuse_init, files
  <1>2. TypeInv /\ LockInv /\ ArrayInv /\ SpaceInv
    BY DEF SharedInv
  <1>3. \A t \in Thread : calls[t].pc = "idle"
    BY <1>1, <1>2 DEF LockInv
  <1>4. \A f \in Live : name[f] \in Nat
    BY <1>2, LiveFiles, ThreadNames DEF TypeInv
  <1>5. Live' = Live
    BY <1>1 DEF Live
  <1>6. PICK n : n = Cardinality(Live)
    OBVIOUS
  <1>7. n \in 0 .. IndexLen
    <2>1. n \in Nat /\ n <= Cardinality(FileT)
      BY <1>6, LiveFiles, ThreadNames, FS_Subset, FS_CardinalityType
    <2>2. Cardinality(1 .. IndexLen) = IF 1 > IndexLen THEN 0 ELSE IndexLen - 1 + 1
      BY ThreadNames, FS_Interval
    <2> QED BY <2>1, <2>2, ThreadNames DEF FileT
  <1>8. /\ list' \in [0 .. IndexLen - 1 -> FileT \cup {NoFile}]
        /\ {list'[j] : j \in 0 .. n - 1} = Live
        /\ \A j, k \in 0 .. n - 1 : j < k => name[list'[j]] < name[list'[k]]
    <2>1. Live \in SUBSET FileT /\ \A f, g \in Live : name[f] = name[g] => f = g
      BY <1>2, LiveFiles DEF ArrayInv
    <2>2. \E s \in [0 .. IndexLen - 1 -> FileT \cup {NoFile}] :
            /\ {s[j] : j \in 0 .. Cardinality(Live) - 1} = Live
            /\ \A j, k \in 0 .. Cardinality(Live) - 1 : j < k => name[s[j]] < name[s[k]]
            /\ \A j \in Cardinality(Live) .. IndexLen - 1 : s[j] = NoFile
      BY <1>4, <2>1, SortedExists
    <2>3. /\ sorted(Live) \in [0 .. IndexLen - 1 -> FileT \cup {NoFile}]
          /\ {sorted(Live)[j] : j \in 0 .. Cardinality(Live) - 1} = Live
          /\ \A j, k \in 0 .. Cardinality(Live) - 1 :
               j < k => name[sorted(Live)[j]] < name[sorted(Live)[k]]
      BY <2>2, Zenon DEF sorted
    <2> QED BY <1>1, <1>6, <2>3
  <1>9. Filled(list', 0 .. n - 1, Live)
    <2>1. ASSUME NEW i \in 0 .. n - 1, NEW j \in 0 .. n - 1, list'[i] = list'[j]
          PROVE  i = j
      <3>1. name[list'[i]] \in Nat
        BY <1>4, <1>8
      <3>2. ~ (i < j) /\ ~ (j < i)
        BY <1>8, <2>1, <3>1
      <3> QED BY <1>7, <3>2
    <2> QED BY <1>8, <2>1 DEF Filled
  <1>10. /\ lock' \notin Thread /\ ~ Shifts("rshift")' /\ ~ Shifts("lshift")'
         /\ ~ Shifts("rshift") /\ ~ Shifts("lshift")
    BY <1>1, ThreadNames DEF Shifts
  <1>11. /\ Staying' = Live /\ Linked' = Live /\ Slots' = 0 .. n - 1 /\ Staying = Live
    BY <1>1, <1>5, <1>6, <1>10 DEF Staying, Linked, Slots
  <1>12. Sizes = length /\ Sizes' = length
    BY <1>1, <1>2, <1>11 DEF Sizes, SpaceInv, TypeInv
  <1>13. used' = SumFunctionOnSet(length, FileT)
    BY <1>1, <1>2 DEF SumFunction, TypeInv
  <1>14. SumFunctionOnSet(length, FileT) \in Nat
    <2>1. \A f \in FileT : length[f] \in Nat
      BY <1>2 DEF TypeInv
    <2>2. FileT \in SUBSET FileT
      OBVIOUS
    <2> QED BY <2>1, <2>2, ThreadNames, SumSplit
  <1>15. used' \in 0 .. FileDataLen
    BY <1>2, <1>12, <1>13, <1>14, ThreadNames DEF SpaceInv
  <1>16. TypeInv'
    BY <1>1, <1>2, <1>6, <1>7, <1>8, <1>15 DEF TypeInv
  <1>17. LockInv'
    BY <1>1, <1>3, <1>10, ThreadNames DEF LockInv
  <1>18. ArrayInv'
    BY <1>1, <1>2, <1>5, <1>9, <1>10, <1>11 DEF ArrayInv, ShiftInv
  <1>19. SpaceInv'
    BY <1>1, <1>2, <1>5, <1>12, <1>13 DEF SpaceInv
  <1> QED BY <1>1, <1>3, <1>5, <1>6, <1>8, <1>10, <1>11, <1>16, <1>17, <1>18, <1>19 DEF SharedInv

LEMMA DestroyShared ==
  ASSUME SharedInv, myfuse_destroy
  PROVE  /\ SharedInv' /\ lock' = Unmounted /\ \A t \in Thread : calls'[t].pc = "idle"
         /\ Live' = Live /\ name' = name /\ length' = length
  <1>1. /\ lock = NoThread /\ lock' = Unmounted /\ \A t \in Thread : calls[t].pc = "idle"
        /\ list' = [j \in 0 .. IndexLen - 1 |-> NoFile] /\ size' = 0 /\ used' = 0
        /\ name' = name /\ length' = length /\ calls' = calls
    BY DEF myfuse_destroy, files, Idle
  <1>2. TypeInv /\ LockInv /\ ArrayInv /\ SpaceInv
    BY DEF SharedInv
  <1>3. Live' = Live
    BY <1>1 DEF Live
  <1>4. Staying = Live /\ ~ Shifts("rshift")' /\ ~ Shifts("lshift")'
    BY <1>1, ArrayWhole, ThreadNames DEF Shifts
  <1>5. Sizes' = Sizes
    BY <1>1, <1>3, <1>4 DEF Sizes, Staying
  <1>6. TypeInv'
    BY <1>1, <1>2, ThreadNames DEF TypeInv
  <1>7. LockInv'
    BY <1>1, ThreadNames DEF LockInv
  <1>8. ArrayInv'
    BY <1>1, <1>2, <1>3, <1>4 DEF ArrayInv, ShiftInv
  <1>9. SpaceInv'
    BY <1>1, <1>2, <1>3, <1>5 DEF SpaceInv
  <1> QED BY <1>1, <1>3, <1>6, <1>7, <1>8, <1>9 DEF SharedInv

LEMMA InitShared == Init => SharedInv /\ Live = {} /\ \A t \in Thread : calls[t].pc = "idle"
  <1> SUFFICES ASSUME Init
               PROVE  SharedInv /\ Live = {} /\ \A t \in Thread : calls[t].pc = "idle"
    OBVIOUS
  <1>1. /\ name = [f \in FileT |-> 0] /\ length = [f \in FileT |-> 0]
        /\ list = [j \in 0 .. IndexLen - 1 |-> NoFile] /\ size = 0 /\ used = 0
        /\ lock = Unmounted /\ calls = [t \in Thread |-> Idle]
    BY DEF Init
  <1>2. Live = {}
    BY <1>1 DEF Live
  <1>3. \A t \in Thread : calls[t].pc = "idle"
    BY <1>1 DEF Idle
  <1>4. ~ Shifts("rshift") /\ ~ Shifts("lshift")
    BY <1>1, ThreadNames DEF Shifts
  <1>5. TypeInv
    BY <1>1, IdleCall, ThreadNames DEF TypeInv
  <1>6. LockInv
    BY <1>1, <1>3, ThreadNames DEF LockInv
  <1>7. ArrayInv
    BY <1>1, <1>2, <1>4 DEF ArrayInv, ShiftInv
  <1>8. SumFunctionOnSet(Sizes, FileT) = 0
    <2>1. \A f \in FileT : Sizes[f] = 0
      BY <1>1 DEF Sizes
    <2>2. {} \in SUBSET FileT /\ \A f \in FileT : Sizes[f] \in Nat
      BY <2>1
    <2>3. SumFunctionOnSet(Sizes, FileT) = SumFunctionOnSet(Sizes, {})
      BY <2>1, <2>2, ThreadNames, SumZeros
    <2> QED BY <2>3, SumNothing
  <1>9. SpaceInv
    BY <1>1, <1>8, ThreadNames DEF SpaceInv
  <1> QED BY <1>2, <1>3, <1>5, <1>6, <1>7, <1>9 DEF SharedInv

----------------------------------------------------------------------------
(* The calls of the other threads *)

LEMMA WaitsKeep ==
  ASSUME NEW t \in Thread, Waits(t), NEW u \in Thread \ {t}
  PROVE  /\ ReadInv(calls[u]) => ReadInv(calls[u])'
         /\ SizeInv(calls[u]) => SizeInv(calls[u])'
         /\ RoomInv(calls[u]) => RoomInv(calls[u])'
  <1>1. calls'[u] = calls[u] /\ used' = used
    BY DEF Waits
  <1>2. \A f \in Staying : f \in Staying' /\ name'[f] = name[f] /\ length'[f] = length[f]
    BY DEF Waits, FilesStay
  <1>3. ReadInv(calls[u]) => ReadInv(calls[u])'
    BY <1>1, <1>2 DEF ReadInv
  <1>4. SizeInv(calls[u]) => SizeInv(calls[u])'
    BY <1>1, <1>2 DEF SizeInv, Untouched
  <1>5. RoomInv(calls[u]) => RoomInv(calls[u])'
    BY <1>1 DEF RoomInv, growth, Untouched, NoneFreed
  <1> QED BY <1>3, <1>4, <1>5

LEMMA HappensKeeps ==
  ASSUME TypeInv, TypeInv', NEW t \in Thread, NEW event, NEW a, Happens(t, event, a),
         NEW u \in Thread \ {t}
  PROVE  /\ ReadInv(calls[u]) => ReadInv(calls[u])'
         /\ SizeInv(calls[u]) => SizeInv(calls[u])'
         /\ SizeInv(calls[u]) /\ RoomInv(calls[u]) => RoomInv(calls[u])'
  <1>1. PICK c, d, met : c = calls[u] /\ d = calls'[u] /\ met = Hears(u, event, a)
    OBVIOUS
  <1>2. event \in Happenings /\ a \in Names /\ Goes(u, met)
    BY <1>1 DEF Happens, Changes, Happenings
  <1>3. /\ d.pc = c.pc /\ d.path = c.path /\ d.offset = c.offset /\ d.length = c.length
        /\ d.f_size = c.f_size /\ d.count = c.count /\ d.met = met
    BY <1>1, <1>2, GoesOn
  <1>4. /\ "drop" \notin met => c.met \subseteq met
        /\ "drop" \in c.met => "drop" \in met
        /\ "freed" \in c.met => "freed" \in met
    BY <1>1, <1>2, HearsKeeps
  <1>5. /\ c.pc \in Writing \cup {"read"} /\ event \in {"drop", "shrink"} /\ c.path = a
             => event \in met \/ "drop" \in met
        /\ c.pc = "clip" /\ used' < used => "freed" \in met
        /\ c.pc \in Writing /\ event = "grow" => "grow" \in met \/ "drop" \in met
    BY <1>1, <1>2, HearsIn
  <1>6. /\ event # "add" => \A f \in Staying : name[f] # a =>
             f \in Staying' /\ name'[f] = name[f] /\ length'[f] = length[f]
        /\ event = "add" => \A f \in Staying :
             f \in Staying' /\ name'[f] = name[f] /\ length'[f] = length[f]
        /\ event \in {"shrink", "grow"} => \A f \in Staying : f \in Staying' /\ name'[f] = name[f]
        /\ event = "grow" => \A f \in Staying : length[f] <= length'[f]
    BY DEF Happens, FilesStay
  <1>7. /\ event = "add" => used' = used
        /\ event \in {"drop", "shrink"} => used' <= used
        /\ event = "grow" => used <= used'
    BY DEF Happens
  <1>8. /\ \A f \in Staying : length[f] \in Nat /\ length'[f] \in Nat
        /\ used \in Nat /\ used' \in Nat /\ FileDataLen \in Nat
    <2>1. Staying \subseteq FileT
      BY LiveFiles DEF Staying
    <2> QED BY <2>1, ThreadNames DEF TypeInv
  <1>9. c.offset \in Nat /\ c.count \in Nat /\ c.f_size \in Nat /\ c.length \in Nat
    BY <1>1 DEF TypeInv, Call
  <1>10. event \in {"add", "drop", "shrink", "grow"}
    BY DEF Happens, Changes
  <1>11. ASSUME ReadInv(c) PROVE ReadInv(d)'
    <2> SUFFICES ASSUME c.pc = "read", "drop" \notin met
                 PROVE  \E f \in Staying' : /\ name'[f] = c.path
                                            /\ "shrink" \notin met => c.offset + c.count <= length'[f]
      BY <1>3, <1>11 DEF ReadInv
    <2>1. PICK f \in Staying : /\ name[f] = c.path
                               /\ "shrink" \notin c.met => c.offset + c.count <= length[f]
      BY <1>4, <1>11 DEF ReadInv
    <2>2. f \in Staying' /\ name'[f] = c.path
      BY <1>5, <1>6, <1>10, <1>11, <2>1 DEF ReadInv
    <2>3. ASSUME "shrink" \notin met PROVE length[f] <= length'[f]
      <3>1. name[f] # a \/ event = "add" => length'[f] = length[f]
        BY <1>6, <2>1
      <3>2. name[f] = a => event \in {"add", "grow"}
        BY <1>5, <1>10, <2>1, <2>3
      <3> QED BY <1>6, <1>8, <2>1, <3>1, <3>2
    <2>4. ASSUME "shrink" \notin met PROVE c.offset + c.count <= length'[f]
      BY <1>4, <1>8, <1>9, <2>1, <2>3, <2>4
    <2> QED BY <2>2, <2>4
  <1>12. ASSUME SizeInv(c) PROVE SizeInv(d)'
    <2>1. c.pc \in Writing => /\ c.path # 0 /\ c.offset \in Offsets /\ c.length \in Lengths
                              /\ c.offset <= c.f_size /\ c.f_size <= FileDataLen
      BY <1>12 DEF SizeInv
    <2>2. ASSUME c.pc \in Writing, "drop" \notin met
          PROVE  \E f \in Staying' : /\ name'[f] = c.path
                                     /\ "shrink" \notin met => c.f_size <= length'[f]
                                     /\ Untouched(d) => length'[f] = c.f_size
      <3>1. PICK f \in Staying : /\ name[f] = c.path
                                 /\ "shrink" \notin c.met => c.f_size <= length[f]
                                 /\ Untouched(c) => length[f] = c.f_size
        BY <1>4, <1>12, <2>2 DEF SizeInv
      <3>2. f \in Staying' /\ name'[f] = c.path
        BY <1>5, <1>6, <1>10, <2>2, <3>1
      <3>3. name[f] # a \/ event = "add" => length'[f] = length[f]
        BY <1>6, <3>1
      <3>4. ASSUME "shrink" \notin met PROVE c.f_size <= length'[f]
        <4>1. name[f] = a => event \in {"add", "grow"}
          BY <1>5, <1>10, <2>2, <3>1, <3>4
        <4>2. length[f] <= length'[f] /\ c.f_size <= length[f]
          BY <1>4, <1>6, <1>8, <2>2, <3>1, <3>3, <3>4, <4>1
        <4> QED BY <1>8, <1>9, <4>2
      <3>5. ASSUME Untouched(d) PROVE length'[f] = c.f_size
        <4>1. Untouched(c) /\ met \cap {"drop", "shrink", "grow"} = {}
          BY <1>3, <1>4, <2>2, <3>5 DEF Untouched
        <4>2. name[f] = a => event = "add"
          BY <1>5, <1>10, <2>2, <3>1, <4>1
        <4> QED BY <3>1, <3>3, <4>1, <4>2
      <3> QED BY <3>2, <3>4, <3>5
    <2> QED BY <1>3, <2>1, <2>2 DEF SizeInv
  <1>13. ASSUME SizeInv(c), RoomInv(c) PROVE RoomInv(d)'
    <2>1. c.pc \in Writing => c.path # 0
      BY <1>12, <1>13 DEF SizeInv
    <2>2. growth(d) = growth(c) /\ growth(c) \in Int
      BY <1>3, <1>9, FuseAssumption DEF growth
    <2>3. NoneFreed(d) => NoneFreed(c)
      BY <1>3, <1>4 DEF NoneFreed
    <2>4. ASSUME c.pc = "clip", NoneFreed(d) PROVE growth(c) > FileDataLen - used'
      <3>1. ~ (used' < used)
        BY <1>3, <1>5, <2>4 DEF NoneFreed
      <3>2. used <= used'
        BY <1>8, <3>1
      <3>3. growth(c) > FileDataLen - used
        BY <1>13, <2>3, <2>4 DEF RoomInv
      <3> QED BY <1>8, <2>2, <3>2, <3>3
    <2>5. ASSUME c.pc = "write", Untouched(d)
          PROVE  used' + c.offset + c.count - c.f_size <= FileDataLen
      <3>1. met \cap {"drop", "shrink", "grow"} = {} /\ Untouched(c)
        BY <1>3, <1>4, <2>5 DEF Untouched
      <3>2. event # "grow"
        BY <1>5, <2>5, <3>1 DEF Writing
      <3>3. used' <= used
        BY <1>7, <1>8, <1>10, <3>2
      <3>4. used + c.offset + c.count - c.f_size <= FileDataLen
        BY <1>13, <2>5, <3>1 DEF RoomInv
      <3> QED BY <1>8, <1>9, <3>3, <3>4
    <2>6. c.pc = "write" /\ c.offset + c.length >= c.f_size /\ c.count > c.length => ~ NoneFreed(d)
      BY <1>13, <2>3 DEF RoomInv
    <2> QED BY <1>3, <2>2, <2>4, <2>5, <2>6 DEF RoomInv
  <1> QED BY <1>1, <1>11, <1>12, <1>13

(* A step that leaves the array alone. *)
LEMMA ListStays ==
  ASSUME TypeInv, ArraySame, NEW u \in Thread, NEW met, Goes(u, met),
         met = calls[u].met \/ ("drop" \in met /\ "drop" \in calls[u].met)
  PROVE  ListInv(calls[u]) => ListInv(calls[u])'
  <1>1. /\ calls'[u].pc = calls[u].pc /\ calls'[u].path = calls[u].path
        /\ calls'[u].count = calls[u].count /\ calls'[u].k = calls[u].k
        /\ calls'[u].f = calls[u].f /\ calls'[u].listing = calls[u].listing
        /\ calls'[u].met = met
    BY GoesOn
  <1>2. /\ list' = list /\ size' = size /\ Live' = Live /\ name' = name
        /\ Shifts("rshift")' <=> Shifts("rshift")
        /\ Shifts("lshift")' <=> Shifts("lshift")
    BY DEF ArraySame, ViewSame
  <1>3. "drop" \in met <=> "drop" \in calls[u].met
    OBVIOUS
  <1>4. met = {} <=> calls[u].met = {}
    OBVIOUS
  <1> QED BY <1>1, <1>2, <1>3, <1>4 DEF ListInv, IsName

(* A create: a listing has met it, or has met its beginning. *)
LEMMA ListGrows ==
  ASSUME TypeInv, TypeInv', ArrayGrows, NEW u \in Thread, NEW met, Goes(u, met),
         ListInv(calls[u]), calls[u].pc \in Listing => met # {},
         "drop" \in calls[u].met => "drop" \in met
  PROVE  ListInv(calls[u])'
  <1>1. /\ calls'[u].pc = calls[u].pc /\ calls'[u].path = calls[u].path
        /\ calls'[u].count = calls[u].count /\ calls'[u].k = calls[u].k
        /\ calls'[u].f = calls[u].f /\ calls'[u].listing = calls[u].listing
        /\ calls'[u].met = met
    BY GoesOn
  <1>2. /\ size' >= size /\ ~ Shifts("lshift")'
        /\ \A f \in Live : f \in Live' /\ name'[f] = name[f]
        /\ \A j \in 0 .. IndexLen - 1 : list[j] \in FileT => list'[j] \in FileT
    BY DEF ArrayGrows
  <1>3. calls[u].pc \in {"readdir", "filler"} => calls[u].pc \in Listing
    BY DEF Listing
  <1>4. size \in Nat /\ size' \in Nat /\ calls[u].count \in Nat /\ IndexLen \in Nat
    BY ThreadNames DEF TypeInv, Call
  <1>5. \A n : IsName(n) => IsName(n)'
    BY <1>2 DEF IsName
  <1>6. ASSUME calls[u].pc \in Listing
        PROVE  /\ \A j \in 0 .. calls[u].count - 1 : list'[j] \in FileT
               /\ "drop" \notin met =>
                    /\ ~ Shifts("lshift")' /\ calls[u].count <= size'
                    /\ \A j \in 1 .. calls[u].k : IsName(calls[u].listing[j])'
    BY <1>1, <1>2, <1>4, <1>5, <1>6 DEF ListInv
  <1>7. calls[u].pc = "filler" /\ "drop" \notin met => calls[u].f \in Live'
    BY <1>2 DEF ListInv
  <1> QED BY <1>1, <1>3, <1>6, <1>7 DEF ListInv

(* An unlink or a rename. *)
LEMMA ListDrops ==
  ASSUME TypeInv, ArrayDrops, NEW u \in Thread, NEW met, Goes(u, met),
         ListInv(calls[u]), calls[u].pc \in Listing => "drop" \in met
  PROVE  ListInv(calls[u])'
  <1>1. /\ calls'[u].pc = calls[u].pc /\ calls'[u].path = calls[u].path
        /\ calls'[u].count = calls[u].count /\ calls'[u].k = calls[u].k
        /\ calls'[u].f = calls[u].f /\ calls'[u].listing = calls[u].listing
        /\ calls'[u].met = met
    BY GoesOn
  <1>2. calls[u].pc \in {"readdir", "filler"} => calls[u].pc \in Listing
    BY DEF Listing
  <1>3. calls[u].count \in Nat /\ IndexLen \in Nat
    BY ThreadNames DEF TypeInv, Call
  <1>4. calls[u].pc \in Listing => \A j \in 0 .. calls[u].count - 1 : list'[j] \in FileT
    BY <1>3 DEF ListInv, ArrayDrops
  <1> QED BY <1>1, <1>2, <1>4 DEF ListInv

(* What a step of thread t is for the other threads. *)
OthersStep(t) ==
  \/ Waits(t) /\ ArraySame
  \/ Waits(t) /\ ArrayGrows /\ Shifts("rshift")
  \/ Waits(t) /\ ArrayDrops /\ Shifts("lshift")
  \/ \E a \in Names : \/ Happens(t, "add", a) /\ ArrayGrows
                      \/ Happens(t, "drop", a) /\ ArrayDrops
                      \/ Happens(t, "shrink", a) /\ ArraySame
                      \/ Happens(t, "grow", a) /\ ArraySame

LEMMA OthersKept ==
  ASSUME SharedInv, SharedInv', CallsInv, NEW t \in Thread, OthersStep(t), NEW u \in Thread \ {t}
  PROVE  CallInv(calls[u])'
  <1>1. TypeInv /\ TypeInv' /\ u \in Thread /\ calls[u] \in Call
    BY DEF SharedInv, TypeInv
  <1>2. ReadInv(calls[u]) /\ SizeInv(calls[u]) /\ RoomInv(calls[u]) /\ ListInv(calls[u])
    BY DEF CallsInv, CallInv
  <1>3. ASSUME Waits(t)
        PROVE  /\ ReadInv(calls[u])' /\ SizeInv(calls[u])' /\ RoomInv(calls[u])'
               /\ Goes(u, calls[u].met)
    <2>1. calls'[u] = calls[u]
      BY <1>3 DEF Waits
    <2> QED BY <1>1, <1>2, <1>3, <2>1, WaitsKeep DEF Goes, Call
  <1>4. CASE Waits(t) /\ ArraySame
    BY <1>1, <1>2, <1>3, <1>4, ListStays DEF CallInv
  <1>5. CASE Waits(t) /\ ArrayGrows /\ Shifts("rshift")
    <2>1. calls[u].pc \in Listing => calls[u].met # {}
      BY <1>2, <1>5 DEF ListInv
    <2> QED BY <1>1, <1>2, <1>3, <1>5, <2>1, ListGrows DEF CallInv
  <1>6. CASE Waits(t) /\ ArrayDrops /\ Shifts("lshift")
    <2>1. calls[u].pc \in Listing => "drop" \in calls[u].met
      BY <1>2, <1>6 DEF ListInv
    <2> QED BY <1>1, <1>2, <1>3, <1>6, <2>1, ListDrops DEF CallInv
  <1>7. ASSUME NEW event, NEW a, Happens(t, event, a)
        PROVE  /\ ReadInv(calls[u])' /\ SizeInv(calls[u])' /\ RoomInv(calls[u])'
               /\ event \in Happenings /\ Goes(u, Hears(u, event, a))
    BY <1>1, <1>2, <1>7, HappensKeeps DEF Happens, Changes, Happenings
  <1>8. calls[u].pc \in Listing => calls[u].path = 0
    BY <1>2 DEF ListInv
  <1>9. ASSUME NEW a \in Names, Happens(t, "add", a), ArrayGrows PROVE CallInv(calls[u])'
    <2>1. PICK met : met = Hears(u, "add", a)
      OBVIOUS
    <2>2. /\ calls[u].pc \in Listing => met # {}
          /\ "drop" \in calls[u].met => "drop" \in met
      BY <1>1, <1>7, <1>8, <1>9, <2>1, HearsIn, HearsKeeps
    <2> QED BY <1>1, <1>2, <1>7, <1>9, <2>1, <2>2, ListGrows DEF CallInv
  <1>10. ASSUME NEW a \in Names, Happens(t, "drop", a), ArrayDrops PROVE CallInv(calls[u])'
    <2>1. PICK met : met = Hears(u, "drop", a)
      OBVIOUS
    <2>2. calls[u].pc \in Listing => "drop" \in met
      BY <1>1, <1>7, <1>8, <1>10, <2>1, HearsIn
    <2> QED BY <1>1, <1>2, <1>7, <1>10, <2>1, <2>2, ListDrops DEF CallInv
  <1>11. ASSUME NEW a \in Names, NEW event \in {"shrink", "grow"}, Happens(t, event, a), ArraySame
         PROVE  CallInv(calls[u])'
    <2>1. PICK met : met = Hears(u, event, a)
      OBVIOUS
    <2>2. CASE calls[u].pc \in Listing
      <3>1. met = calls[u].met \/ ("drop" \in met /\ "drop" \in calls[u].met)
        BY <1>1, <1>7, <1>8, <1>11, <2>1, <2>2, HearsIn
      <3> QED BY <1>1, <1>2, <1>7, <1>11, <2>1, <3>1, ListStays DEF CallInv
    <2>3. CASE calls[u].pc \notin Listing
      <3>1. calls'[u].pc = calls[u].pc
        BY <1>1, <1>7, <1>11, <2>1, GoesOn
      <3>2. ListInv(calls[u])'
        BY <2>3, <3>1 DEF ListInv, Listing
      <3> QED BY <1>7, <1>11, <3>2 DEF CallInv
    <2> QED BY <2>2, <2>3
  <1> QED BY <1>4, <1>5, <1>6, <1>9, <1>10, <1>11 DEF OthersStep

----------------------------------------------------------------------------
(* The call of the thread itself *)

LEMMA NoCallInv ==
  ASSUME NEW c, c.pc \in {"idle", "rshift", "lshift"}
  PROVE  CallInv(c)
  BY DEF CallInv, ReadInv, SizeInv, RoomInv, ListInv, Writing, Listing

LEMMA NoCallNext ==
  ASSUME NEW t \in Thread, calls'[t].pc \in {"idle", "rshift", "lshift"}
  PROVE  CallInv(calls[t])'
  BY DEF CallInv, ReadInv, SizeInv, RoomInv, ListInv, Writing, Listing

(* A step of a call that leaves the shared state alone. *)
LEMMA QuietCall ==
  ASSUME SharedInv, NEW t \in Thread, NEW c \in Call, Locals(t, c), Quiet,
         calls[t].pc \notin {"rshift", "lshift"}, c.pc \notin {"rshift", "lshift"},
         lock = Unmounted => c.pc = "idle"
  PROVE  SharedInv' /\ OthersStep(t) /\ calls'[t] = c /\ ArraySame /\ Staying' = Staying
         /\ length' = length /\ used' = used /\ list' = list
  <1>1. SharedInv' /\ ViewSame
    BY QuietStep
  <1>2. calls'[t] = c /\ \A u \in Thread \ {t} : calls'[u] = calls[u]
    BY LocalsCalls DEF SharedInv
  <1>3. /\ name' = name /\ length' = length /\ list' = list /\ size' = size
        /\ used' = used /\ lock' = lock
    BY DEF Quiet, files, array
  <1>4. Waits(t) /\ ArraySame
    BY <1>1, <1>2, <1>3 DEF Waits, FilesStay, ArraySame, ViewSame
  <1> QED BY <1>1, <1>2, <1>3, <1>4 DEF OthersStep, ViewSame

(* ... so that what the call knows now, it knows then. *)
LEMMA QuietKnows ==
  ASSUME NEW t \in Thread, NEW c, calls'[t] = c, ArraySame, Staying' = Staying,
         length' = length, used' = used, CallInv(c)
  PROVE  CallInv(calls[t])'
  <1>1. /\ list' = list /\ size' = size /\ Live' = Live /\ name' = name
        /\ Shifts("rshift")' <=> Shifts("rshift")
        /\ Shifts("lshift")' <=> Shifts("lshift")
    BY DEF ArraySame, ViewSame
  <1>2. ReadInv(calls[t])'
    BY <1>1 DEF ReadInv, CallInv
  <1>3. SizeInv(calls[t])'
    BY <1>1 DEF SizeInv, Untouched, CallInv
  <1>4. RoomInv(calls[t])'
    BY <1>1 DEF RoomInv, growth, Untouched, NoneFreed, CallInv
  <1>5. ListInv(calls[t])'
    BY <1>1 DEF ListInv, IsName, CallInv
  <1> QED BY <1>2, <1>3, <1>4, <1>5 DEF CallInv

(* Every slot that counts holds a file. *)
LEMMA SlotsHold ==
  ASSUME SharedInv, lock # Unmounted
  PROVE  /\ \A j \in 0 .. size - 1 : list[j] \in FileT
         /\ ~ Shifts("lshift") => \A j \in 0 .. size - 1 : list[j] \in Live
  <1>1. ArrayInv /\ TypeInv /\ Linked \subseteq Live /\ Live \subseteq FileT /\ size \in Nat
    BY LiveFiles, ThreadNames DEF SharedInv, Linked, Staying, TypeInv
  <1>2. \A j \in Slots : list[j] \in Live
    BY <1>1 DEF ArrayInv, Filled
  <1>3. CASE Shifts("rshift")
    <2>1. Slots = 0 .. size \ {calls[lock].k + 1}
      BY <1>3 DEF Slots
    <2>2. calls[lock].k + 1 < size => list[calls[lock].k + 1] \in Live
      BY <1>1, <1>3 DEF ArrayInv, ShiftInv
    <2> QED BY <1>1, <1>2, <2>1, <2>2
  <1>4. CASE ~ Shifts("rshift") /\ Shifts("lshift")
    <2>1. Slots = 0 .. size - 1 \ {calls[lock].k - 1}
      BY <1>4 DEF Slots
    <2>2. list[calls[lock].k - 1] \in FileT
      BY <1>1, <1>4 DEF ArrayInv, ShiftInv
    <2> QED BY <1>1, <1>2, <1>4, <2>1, <2>2
  <1>5. CASE ~ Shifts("rshift") /\ ~ Shifts("lshift")
    BY <1>1, <1>2, <1>5 DEF Slots
  <1> QED BY <1>3, <1>4, <1>5

LEMMA LengthBound ==
  ASSUME SharedInv, NEW f \in Staying
  PROVE  length[f] \in Nat /\ length[f] <= FileDataLen
  <1>1. TypeInv /\ SpaceInv /\ f \in FileT
    BY LiveFiles DEF SharedInv, Staying
  <1>2. \A g \in FileT : Sizes[g] \in Nat
    BY <1>1 DEF Sizes, TypeInv
  <1>3. Sizes[f] = length[f]
    BY <1>1 DEF Sizes
  <1>4. PICK sum : sum = SumFunctionOnSet(Sizes, FileT)
    OBVIOUS
  <1>5. sum \in Nat /\ length[f] <= sum
    BY <1>1, <1>2, <1>3, <1>4, ThreadNames, SumChange
  <1> QED BY <1>1, <1>2, <1>3, <1>4, <1>5, ThreadNames DEF SpaceInv

LEMMA ReadCall ==
  ASSUME SharedInv, OrderInv, NEW t \in Thread, NEW a \in Names, NEW offset \in Offsets, NEW n \in Lengths,
         read(t, a, offset, n)
  PROVE  SharedInv' /\ OthersStep(t) /\ CallInv(calls[t])'
  <1>1. PICK f, m : f = file(a) /\ m = IF n > length[f] - offset THEN length[f] - offset ELSE n
    OBVIOUS
  <1> DEFINE c == [Idle EXCEPT !.pc = "read", !.path = a, !.offset = offset, !.count = m]
  <1>2. /\ lock = NoThread /\ calls[t].pc = "idle" /\ Exists(a) /\ offset < length[f]
        /\ Locals(t, c) /\ Quiet
    BY <1>1 DEF read, Free, Quiet
  <1>3. f \in Staying /\ name[f] = a
    BY <1>1, <1>2, FoundFile, ArrayWhole
  <1>4. length[f] \in Nat /\ offset \in Nat /\ n \in Nat
    BY <1>3, LengthBound, ThreadNames
  <1>5. m \in Nat /\ offset + m <= length[f]
    BY <1>1, <1>2, <1>4
  <1>6. c \in Call /\ c.pc = "read" /\ c.path = a /\ c.offset = offset /\ c.count = m
    BY <1>4, <1>5, IdleCall DEF Call
  <1> HIDE DEF c
  <1>7. CallInv(c)
    <2>1. ReadInv(c)
      BY <1>3, <1>5, <1>6, ThreadNames DEF ReadInv
    <2> QED BY <1>6, <2>1 DEF CallInv, SizeInv, RoomInv, ListInv, Writing, Listing
  <1>8. lock # Unmounted
    BY <1>2, ThreadNames
  <1> QED BY <1>2, <1>6, <1>7, <1>8, QuietCall, QuietKnows

LEMMA WriteCall ==
  ASSUME SharedInv, OrderInv, NEW t \in Thread, NEW a \in Names, NEW offset \in Offsets, NEW n \in Lengths,
         write(t, a, offset, n)
  PROVE  SharedInv' /\ OthersStep(t) /\ CallInv(calls[t])'
  <1>1. PICK f : f = file(a)
    OBVIOUS
  <1> DEFINE c == [Idle EXCEPT !.pc = "compare", !.path = a, !.offset = offset, !.length = n,
                               !.f_size = length[f]]
  <1>2. /\ lock = NoThread /\ calls[t].pc = "idle" /\ Exists(a) /\ offset <= length[f]
        /\ Locals(t, c) /\ Quiet
    BY <1>1 DEF write, Free, Quiet
  <1>3. f \in Staying /\ name[f] = a
    BY <1>1, <1>2, FoundFile, ArrayWhole
  <1>4. length[f] \in Nat /\ length[f] <= FileDataLen /\ offset \in Nat /\ n \in Nat
    BY <1>3, LengthBound, ThreadNames
  <1>5. /\ c \in Call /\ c.pc = "compare" /\ c.path = a /\ c.offset = offset /\ c.length = n
        /\ c.f_size = length[f]
    BY <1>4, IdleCall DEF Call, Writing
  <1> HIDE DEF c
  <1>6. CallInv(c)
    <2>1. SizeInv(c)
      BY <1>2, <1>3, <1>4, <1>5, ThreadNames DEF SizeInv
    <2> QED BY <1>5, <2>1 DEF CallInv, ReadInv, RoomInv, ListInv, Listing
  <1>7. lock # Unmounted
    BY <1>2, ThreadNames
  <1> QED BY <1>2, <1>5, <1>6, <1>7, QuietCall, QuietKnows

(* The growth of a write that reaches the end of the file does not wrap
   round, and is at most what the caller asked for. *)
LEMMA GrowthRight ==
  ASSUME NEW c, c \in Call, SizeInv(c), c.pc \in Writing
  PROVE  /\ c.offset \in Nat /\ c.length \in Nat /\ c.f_size \in Nat /\ growth(c) \in Nat
         /\ c.offset <= c.f_size
         /\ c.offset + c.length >= c.f_size =>
              /\ growth(c) + c.f_size = c.offset + c.length
              /\ growth(c) <= c.length
  <1>1. PICK o, l, s : o = c.offset /\ l = c.length /\ s = c.f_size
    OBVIOUS
  <1>2. o \in Nat /\ l \in Nat /\ s \in Nat /\ o <= s /\ l \in Lengths
    BY <1>1 DEF SizeInv, Call
  <1>3. l + FileDataLen < Word /\ Word \in Nat \ {0} /\ FileDataLen \in Nat
    BY <1>2, FuseAssumption
  <1>4. PICK g : g = o + l - s
    OBVIOUS
  <1>5. g \in Int /\ g + s = o + l /\ g <= l
    BY <1>2, <1>4
  <1>6. g >= 0 => g % Word = g
    BY <1>2, <1>3, <1>5
  <1>7. g % Word \in Nat
    BY <1>3, <1>5
  <1>8. growth(c) = g % Word
    BY <1>1, <1>4 DEF growth
  <1>9. o + l >= s => g >= 0
    BY <1>2, <1>5
  <1> QED BY <1>1, <1>2, <1>5, <1>6, <1>7, <1>8, <1>9

LEMMA CompareCall ==
  ASSUME SharedInv, NEW t \in Thread, CallInv(calls[t]), compare_space(t)
  PROVE  SharedInv' /\ OthersStep(t) /\ CallInv(calls[t])'
  <1>1. PICK c : c = calls[t]
    OBVIOUS
  <1> DEFINE clip == [c EXCEPT !.pc = "clip"]
             go == [c EXCEPT !.pc = "write", !.count = c.length]
  <1>2. /\ c.pc = "compare" /\ Quiet
        /\ Locals(t, IF growth(c) > FileDataLen - used THEN clip ELSE go)
    BY <1>1 DEF compare_space, Quiet
  <1>3. c \in Call /\ TypeInv /\ LockInv
    BY <1>1 DEF SharedInv, TypeInv
  <1>4. SizeInv(c) /\ c.pc \in Writing
    BY <1>1, <1>2 DEF CallInv, Writing
  <1>5. lock # Unmounted
    BY <1>1, <1>2, <1>3 DEF LockInv
  <1>6. c.length \in Nat
    BY <1>3 DEF Call
  <1>7. used \in Nat /\ FileDataLen \in Nat /\ used <= FileDataLen
    BY <1>3, ThreadNames DEF TypeInv
  <1>8. CASE growth(c) > FileDataLen - used
    <2>1. /\ clip \in Call /\ clip.pc = "clip" /\ clip.path = c.path /\ clip.offset = c.offset
          /\ clip.length = c.length /\ clip.f_size = c.f_size /\ clip.met = c.met
      BY <1>3 DEF Call, Writing
    <2>2. Locals(t, clip)
      BY <1>2, <1>8
    <2> HIDE DEF clip
    <2>3. SizeInv(clip)
      BY <1>4, <2>1 DEF SizeInv, Untouched, Writing
    <2>4. RoomInv(clip)
      BY <1>8, <2>1 DEF RoomInv, growth
    <2>5. CallInv(clip)
      BY <2>1, <2>3, <2>4 DEF CallInv, ReadInv, ListInv, Listing
    <2> QED BY <1>1, <1>2, <1>5, <2>1, <2>2, <2>5, QuietCall, QuietKnows
  <1>9. CASE ~ (growth(c) > FileDataLen - used)
    <2>1. /\ go \in Call /\ go.pc = "write" /\ go.path = c.path /\ go.offset = c.offset
          /\ go.length = c.length /\ go.f_size = c.f_size /\ go.met = c.met /\ go.count = c.length
      BY <1>3, <1>6 DEF Call, Writing
    <2>2. Locals(t, go)
      BY <1>2, <1>9
    <2> HIDE DEF go
    <2>3. SizeInv(go)
      BY <1>4, <2>1 DEF SizeInv, Untouched, Writing
    <2>4. used + c.offset + c.length - c.f_size <= FileDataLen
      <3>1. PICK g, o, l, s : g = growth(c) /\ o = c.offset /\ l = c.length /\ s = c.f_size
        OBVIOUS
      <3>2. /\ g \in Nat /\ o \in Nat /\ l \in Nat /\ s \in Nat
            /\ o + l >= s => g + s = o + l
        BY <1>3, <1>4, <3>1, GrowthRight
      <3>3. g <= FileDataLen - used
        BY <1>7, <1>9, <3>1, <3>2
      <3>4. used + o + l - s <= FileDataLen
        BY <1>7, <3>2, <3>3
      <3> QED BY <3>1, <3>4
    <2>5. RoomInv(go)
      BY <1>6, <2>1, <2>4 DEF RoomInv
    <2>6. CallInv(go)
      BY <2>1, <2>3, <2>5 DEF CallInv, ReadInv, ListInv, Listing
    <2> QED BY <1>1, <1>2, <1>5, <2>1, <2>2, <2>6, QuietCall, QuietKnows
  <1> QED BY <1>8, <1>9

LEMMA ClipCall ==
  ASSUME SharedInv, NEW t \in Thread, CallInv(calls[t]), clip_length(t)
  PROVE  SharedInv' /\ OthersStep(t) /\ CallInv(calls[t])'
  <1>1. PICK c : c = calls[t]
    OBVIOUS
  <1> DEFINE d == [c EXCEPT !.pc = "write", !.count = FileDataLen - used]
  <1>2. c.pc = "clip" /\ Quiet /\ Locals(t, d)
    BY <1>1 DEF clip_length, Quiet
  <1>3. c \in Call /\ TypeInv /\ LockInv
    BY <1>1 DEF SharedInv, TypeInv
  <1>4. SizeInv(c) /\ c.pc \in Writing /\ RoomInv(c)
    BY <1>1, <1>2 DEF CallInv, Writing
  <1>5. lock # Unmounted
    BY <1>1, <1>2, <1>3 DEF LockInv
  <1>6. used \in Nat /\ FileDataLen \in Nat /\ FileDataLen - used \in Nat
    BY <1>3, ThreadNames DEF TypeInv
  <1>7. /\ d \in Call /\ d.pc = "write" /\ d.path = c.path /\ d.offset = c.offset
        /\ d.length = c.length /\ d.f_size = c.f_size /\ d.met = c.met /\ d.count = FileDataLen - used
    BY <1>3, <1>6 DEF Call, Writing
  <1> HIDE DEF d
  <1>8. SizeInv(d)
    BY <1>4, <1>7 DEF SizeInv, Untouched, Writing
  <1>9. RoomInv(d)
    <2>1. PICK g, o, l, s, n : /\ g = growth(c) /\ o = c.offset /\ l = c.length /\ s = c.f_size
                               /\ n = FileDataLen - used
      OBVIOUS
    <2>2. /\ g \in Nat /\ o \in Nat /\ l \in Nat /\ s \in Nat /\ o <= s
          /\ o + l >= s => g <= l
      BY <1>3, <1>4, <2>1, GrowthRight
    <2>3. used + n = FileDataLen /\ n \in Nat
      BY <1>6, <2>1
    <2>4. used + o + n - s <= FileDataLen
      BY <1>6, <2>2, <2>3
    <2>5. NoneFreed(c) => g > n
      BY <1>2, <1>4, <2>1 DEF RoomInv
    <2>6. o + l >= s /\ n > l => ~ NoneFreed(c)
      BY <2>2, <2>3, <2>5
    <2>7. NoneFreed(d) <=> NoneFreed(c)
      BY <1>7 DEF NoneFreed
    <2> QED BY <1>7, <2>1, <2>4, <2>6, <2>7 DEF RoomInv
  <1>10. CallInv(d)
    BY <1>7, <1>8, <1>9 DEF CallInv, ReadInv, ListInv, Listing
  <1> QED BY <1>1, <1>2, <1>5, <1>7, <1>10, QuietCall, QuietKnows

LEMMA ReaddirCall ==
  ASSUME SharedInv, NEW t \in Thread, readdir(t)
  PROVE  SharedInv' /\ OthersStep(t) /\ CallInv(calls[t])'
  <1>1. PICK pc, met : /\ pc = IF size = 0 THEN "listed" ELSE "readdir"
                       /\ met = (IF Holder = "rshift" THEN {"add"} ELSE {})
                                 \cup (IF Holder = "lshift" THEN {"drop"} ELSE {})
    OBVIOUS
  <1> DEFINE c == [Idle EXCEPT !.pc = pc, !.count = size, !.met = met]
  <1>2. calls[t].pc = "idle" /\ lock # Unmounted /\ Locals(t, c) /\ Quiet
    BY <1>1 DEF readdir, Quiet
  <1>3. size \in Nat /\ size <= IndexLen
    BY ThreadNames DEF SharedInv, TypeInv
  <1>4. met \in SUBSET Happenings /\ pc \in {"listed", "readdir"}
    BY <1>1 DEF Happenings
  <1>5. /\ Shifts("rshift") => met # {}
        /\ Shifts("lshift") => "drop" \in met
    BY <1>1 DEF Shifts, Holder
  <1>6. /\ c \in Call /\ c.pc = pc /\ c.path = 0 /\ c.count = size /\ c.met = met /\ c.k = 0
        /\ c.listing = << >>
    BY <1>3, <1>4, IdleCall DEF Call, Listing, Idle
  <1> HIDE DEF c
  <1>7. Len(c.listing) = 0
    BY <1>6
  <1>8. /\ size = 0 => pc = "listed"
        /\ size # 0 => pc = "readdir"
    BY <1>1
  <1>9. ListInv(c)
    <2>1. \A j \in 0 .. size - 1 : list[j] \in FileT
      BY <1>2, SlotsHold
    <2> QED BY <1>3, <1>4, <1>5, <1>6, <1>7, <1>8, <2>1 DEF ListInv
  <1>10. CallInv(c)
    BY <1>4, <1>6, <1>9 DEF CallInv, ReadInv, SizeInv, RoomInv, Writing
  <1> QED BY <1>2, <1>4, <1>6, <1>10, QuietCall, QuietKnows

LEMMA SlotCall ==
  ASSUME SharedInv, NEW t \in Thread, CallInv(calls[t]), read_slot(t)
  PROVE  SharedInv' /\ OthersStep(t) /\ CallInv(calls[t])'
  <1>1. PICK c : c = calls[t]
    OBVIOUS
  <1> DEFINE d == [c EXCEPT !.pc = "filler", !.f = list[c.k]]
  <1>2. c.pc = "readdir" /\ Locals(t, d) /\ Quiet
    BY <1>1 DEF read_slot, Quiet
  <1>3. c \in Call /\ TypeInv /\ LockInv
    BY <1>1 DEF SharedInv, TypeInv
  <1>4. ListInv(c) /\ c.pc \in Listing
    BY <1>1, <1>2 DEF CallInv, Listing
  <1>5. lock # Unmounted
    BY <1>1, <1>2, <1>3 DEF LockInv
  <1>6. c.k \in 0 .. c.count - 1 /\ list[c.k] \in FileT
    BY <1>2, <1>4 DEF ListInv
  <1>7. /\ d \in Call /\ d.pc = "filler" /\ d.path = c.path /\ d.count = c.count /\ d.k = c.k
        /\ d.f = list[c.k] /\ d.listing = c.listing /\ d.met = c.met
    BY <1>3, <1>6 DEF Call, Listing
  <1> HIDE DEF d
  <1>8. "drop" \notin c.met => list[c.k] \in Live
    <2> SUFFICES ASSUME "drop" \notin c.met PROVE list[c.k] \in Live
      OBVIOUS
    <2>1. ~ Shifts("lshift") /\ c.count <= size /\ c.count \in Nat /\ size \in Nat
      BY <1>3, <1>4, ThreadNames DEF ListInv, TypeInv, Call
    <2>2. c.k \in 0 .. size - 1
      BY <1>6, <2>1
    <2> QED BY <1>5, <2>1, <2>2, SlotsHold
  <1>9. ListInv(d)
    BY <1>4, <1>6, <1>7, <1>8 DEF ListInv, Listing
  <1>10. CallInv(d)
    BY <1>7, <1>9 DEF CallInv, ReadInv, SizeInv, RoomInv, Writing
  <1> QED BY <1>1, <1>2, <1>5, <1>7, <1>10, QuietCall, QuietKnows

LEMMA FillerCall ==
  ASSUME SharedInv, NEW t \in Thread, CallInv(calls[t]), filler(t)
  PROVE  SharedInv' /\ OthersStep(t) /\ CallInv(calls[t])'
  <1>1. PICK c, n, pc : /\ c = calls[t] /\ n = name[c.f]
                        /\ pc = IF c.k + 1 < c.count THEN "readdir" ELSE "listed"
    OBVIOUS
  <1> DEFINE d == [c EXCEPT !.listing = Append(@, n), !.k = c.k + 1, !.f = NoFile, !.pc = pc]
  <1>2. c.pc = "filler" /\ Locals(t, d) /\ Quiet
    BY <1>1 DEF filler, Quiet
  <1>3. c \in Call /\ TypeInv /\ LockInv
    BY <1>1 DEF SharedInv, TypeInv
  <1>4. ListInv(c) /\ c.pc \in Listing
    BY <1>1, <1>2 DEF CallInv, Listing
  <1>5. lock # Unmounted
    BY <1>1, <1>2, <1>3 DEF LockInv
  <1>6. /\ c.k \in 0 .. c.count - 1 /\ c.count \in Nat /\ c.f \in FileT
        /\ c.listing \in Seq(Nat) /\ Len(c.listing) = c.k
    BY <1>2, <1>3, <1>4 DEF ListInv, Call
  <1>7. n \in Nat
    <2>1. name[c.f] \in Names \cup {0}
      BY <1>3, <1>6 DEF TypeInv
    <2>2. n = name[c.f]
      BY <1>1
    <2>3. n \in Names \cup {0}
      BY <2>1, <2>2
    <2>4. Names \subseteq Nat
      BY ThreadNames
    <2> QED BY <2>3, <2>4
  <1>8. PICK s : s = Append(c.listing, n)
    OBVIOUS
  <1>9. /\ s \in Seq(Nat) /\ Len(s) = c.k + 1 /\ s[c.k + 1] = n
        /\ \A j \in 1 .. c.k : s[j] = c.listing[j]
    BY <1>6, <1>7, <1>8
  <1>10. pc \in {"readdir", "listed"}
    BY <1>1
  <1>11. /\ d \in Call /\ d.pc = pc /\ d.path = c.path /\ d.count = c.count /\ d.k = c.k + 1
         /\ d.listing = s /\ d.met = c.met
    <2>1. c.k + 1 \in Int
      BY <1>6
    <2> QED BY <1>3, <1>8, <1>9, <1>10, <2>1 DEF Call, Listing
  <1> HIDE DEF d
  <1>12. "drop" \notin c.met => \A j \in 1 .. c.k + 1 : IsName(s[j])
    <2> SUFFICES ASSUME "drop" \notin c.met, NEW j \in 1 .. c.k + 1 PROVE IsName(s[j])
      OBVIOUS
    <2>1. IsName(n)
      BY <1>1, <1>2, <1>4 DEF ListInv, IsName
    <2>2. j # c.k + 1 => IsName(s[j])
      <3>1. j # c.k + 1 => j \in 1 .. c.k
        BY <1>6
      <3> QED BY <1>4, <1>9, <3>1 DEF ListInv
    <2> QED BY <1>9, <2>1, <2>2
  <1>13. c.met = {} => \A j \in 1 .. c.k + 1 : s[j] = name[list[j - 1]]
    <2> SUFFICES ASSUME c.met = {}, NEW j \in 1 .. c.k + 1 PROVE s[j] = name[list[j - 1]]
      OBVIOUS
    <2>1. n = name[list[c.k]] /\ c.k + 1 - 1 = c.k
      BY <1>1, <1>2, <1>4, <1>6 DEF ListInv
    <2>2. j # c.k + 1 => s[j] = name[list[j - 1]]
      <3>1. j # c.k + 1 => j \in 1 .. c.k
        BY <1>6
      <3> QED BY <1>4, <1>9, <3>1 DEF ListInv
    <2>3. j = c.k + 1 => j - 1 = c.k
      BY <1>6
    <2> QED BY <1>9, <2>1, <2>2, <2>3
  <1>14. /\ pc = "readdir" => c.k + 1 \in 0 .. c.count - 1
         /\ pc = "listed" => c.k + 1 = c.count
    BY <1>1, <1>6
  <1>15. ListInv(d)
    BY <1>4, <1>9, <1>10, <1>11, <1>12, <1>13, <1>14 DEF ListInv
  <1>16. CallInv(d)
    BY <1>10, <1>11, <1>15 DEF CallInv, ReadInv, SizeInv, RoomInv, Writing
  <1> QED BY <1>1, <1>2, <1>5, <1>10, <1>11, <1>16, QuietCall, QuietKnows

(* read_file and the end of a listing *)
LEMMA ReturnCall ==
  ASSUME SharedInv, NEW t \in Thread, read_file(t) \/ myfuse_readdir_return(t)
  PROVE  SharedInv' /\ OthersStep(t) /\ CallInv(calls[t])'
  <1>1. Locals(t, Idle) /\ Quiet /\ calls[t].pc \in {"read", "listed"} /\ Idle.pc = "idle"
    BY DEF read_file, myfuse_readdir_return, Quiet, Idle
  <1>2. SharedInv' /\ OthersStep(t) /\ calls'[t] = Idle
    BY <1>1, IdleCall, QuietCall
  <1> QED BY <1>1, <1>2, NoCallNext

----------------------------------------------------------------------------
(* The order of the array *)

(* Nothing that the order depends on changes. *)
LEMMA OrderStays ==
  ASSUME OrderInv, UNCHANGED <<name, list, size, lock>>,
         lock \in Thread => calls'[lock] = calls[lock]
  PROVE  OrderInv'
  <1>1. /\ Shifts("rshift")' <=> Shifts("rshift")
        /\ Shifts("lshift")' <=> Shifts("lshift")
        /\ Shifts("rshift") => calls'[lock] = calls[lock]
        /\ Shifts("lshift") => calls'[lock] = calls[lock]
    BY DEF Shifts
  <1>2. Slots' = Slots
    BY <1>1 DEF Slots
  <1> QED BY <1>1, <1>2 DEF OrderInv

LEMMA CreateOrder ==
  ASSUME SharedInv, OrderInv, NEW t \in Thread, NEW a \in Names, create(t, a)
  PROVE  OrderInv'
  <1>0. PICK p : p = Place(a)
    OBVIOUS
  <1>1. PICK f \in FileT \ Live :
          /\ name' = [name EXCEPT ![f] = a]
          /\ Continue(t, [Idle EXCEPT !.pc = "rshift", !.path = a, !.f = f, !.k = size - 1,
                                      !.index = p], "add", a)
    BY <1>0 DEF create, Place
  <1> DEFINE c == [Idle EXCEPT !.pc = "rshift", !.path = a, !.f = f, !.k = size - 1, !.index = p]
  <1>2. /\ lock = NoThread /\ lock' = t /\ list' = list /\ size' = size /\ size < IndexLen
        /\ ~ Exists(a)
    BY DEF create, Free, array
  <1>3. TypeInv /\ size \in Nat
    BY ThreadNames DEF SharedInv, TypeInv
  <1>4. /\ calls'[t] = c /\ c.pc = "rshift" /\ c.k = size - 1 /\ c.path = a /\ c.index = p
    BY <1>1, <1>3 DEF Continue, Idle
  <1> HIDE DEF c
  <1>5. lock # Unmounted /\ Slots = 0 .. size - 1 /\ Linked = Live
    BY <1>2, ArrayWhole, ThreadNames
  <1>6. Shifts("rshift")' /\ calls'[lock'] = c
    BY <1>2, <1>4 DEF Shifts
  <1>7. Slots' = 0 .. size - 1
    <2>1. Slots' = 0 .. size \ {c.k + 1}
      BY <1>2, <1>6 DEF Slots
    <2> QED BY <1>3, <1>4, <2>1
  <1>8. \A j \in Slots : name'[list'[j]] = name[list[j]]
    BY <1>1, <1>2, <1>3, <1>5, SlotFiles DEF TypeInv
  <1>9. \A j \in 0 .. size - 1 : (j < p => name[list[j]] < a) /\ (j >= p => name[list[j]] > a)
    BY <1>0, <1>2, FoundPlace
  <1> QED BY <1>4, <1>5, <1>6, <1>7, <1>8, <1>9 DEF OrderInv

LEMMA RshiftOrder ==
  ASSUME SharedInv, OrderInv, NEW t \in Thread, arr_rshift(t)
  PROVE  OrderInv'
  <1>1. PICK k, path, index : k = calls[t].k /\ path = calls[t].path /\ index = calls[t].index
    OBVIOUS
  <1> DEFINE c == [calls[t] EXCEPT !.k = k - 1]
  <1>2. /\ calls[t].pc = "rshift" /\ k >= index
        /\ list' = [list EXCEPT ![k + 1] = list[k]] /\ Locals(t, c)
        /\ name' = name /\ size' = size /\ lock' = lock
    BY <1>1 DEF arr_rshift, files
  <1>3. TypeInv /\ LockInv /\ ArrayInv /\ calls[t] \in Call
    BY DEF SharedInv, TypeInv
  <1>4. lock = t /\ Shifts("rshift") /\ lock # Unmounted
    BY <1>2, <1>3, Shifting
  <1>5. /\ k \in 0 .. size - 1 /\ size < IndexLen /\ size \in Nat /\ IndexLen \in Nat
        /\ index \in 0 .. k
    BY <1>1, <1>2, <1>3, <1>4, ThreadNames DEF ArrayInv, ShiftInv, TypeInv
  <1>6. c \in Call /\ c.pc = "rshift" /\ c.path = path /\ c.k = k - 1 /\ c.index = index
    <2>1. k \in Int /\ k - 1 \in Int
      BY <1>5
    <2> QED BY <1>1, <1>2, <1>3, <2>1, ShiftedCall
  <1> HIDE DEF c
  <1>7. calls'[t] = c
    BY <1>2, <1>3, <1>6, LocalsCalls
  <1>8. Shifts("rshift")' /\ calls'[lock'] = c
    BY <1>2, <1>4, <1>6, <1>7 DEF Shifts
  <1>9. /\ Slots = 0 .. size \ {k + 1} /\ Slots' = 0 .. size \ {k}
    <2>1. Slots' = 0 .. size \ {c.k + 1} /\ c.k + 1 = k
      BY <1>2, <1>5, <1>6, <1>8 DEF Slots
    <2> QED BY <1>1, <1>4, <2>1 DEF Slots
  <1>10. /\ list'[k + 1] = list[k]
         /\ \A j \in Slots : list'[j] = list[j]
    BY <1>2, <1>3, <1>5, <1>9 DEF TypeInv
  <1>11. /\ \A i, j \in Slots : i < j => name[list[i]] < name[list[j]]
         /\ \A j \in Slots : (j < index => name[list[j]] < path) /\ (j >= index => name[list[j]] > path)
         /\ \A j \in Slots : name[list[j]] \in Nat
    BY <1>1, <1>4, SlotFiles DEF OrderInv
  <1>12. ASSUME NEW i \in Slots', NEW j \in Slots', i < j
         PROVE  name'[list'[i]] < name'[list'[j]]
    <2>1. i \in Int /\ j \in Int /\ k \in Slots
      BY <1>5, <1>9
    <2>2. CASE i # k + 1 /\ j # k + 1
      BY <1>2, <1>9, <1>10, <1>11, <1>12, <2>2
    <2>3. CASE i = k + 1
      <3>1. j \in Slots /\ k < j
        BY <1>5, <1>9, <1>12, <2>3
      <3> QED BY <1>2, <1>10, <1>11, <2>1, <2>3, <3>1
    <2>4. CASE j = k + 1
      <3>1. i \in Slots /\ i < k
        BY <1>5, <1>9, <1>12, <2>1, <2>4
      <3> QED BY <1>2, <1>10, <1>11, <2>1, <2>4, <3>1
    <2> QED BY <2>2, <2>3, <2>4
  <1>13. ASSUME NEW j \in Slots'
         PROVE  /\ j < index => name'[list'[j]] < path
                /\ j >= index => name'[list'[j]] > path
    <2>1. j \in Int
      BY <1>5, <1>9
    <2>2. CASE j = k + 1
      <3>1. k \in Slots /\ k >= index /\ ~ (j < index)
        BY <1>5, <1>9, <2>2
      <3> QED BY <1>2, <1>10, <1>11, <2>2, <3>1
    <2>3. CASE j # k + 1
      <3>1. j \in Slots
        BY <1>5, <1>9, <2>1, <2>3
      <3> QED BY <1>2, <1>10, <1>11, <3>1
    <2> QED BY <2>2, <2>3
  <1> QED BY <1>6, <1>8, <1>12, <1>13 DEF OrderInv

LEMMA StoreOrder ==
  ASSUME SharedInv, OrderInv, NEW t \in Thread, arr_store(t)
  PROVE  OrderInv'
  <1>1. PICK k, f, path : k = calls[t].k /\ f = calls[t].f /\ path = calls[t].path
    OBVIOUS
  <1>2. /\ calls[t].pc = "rshift" /\ k < calls[t].index
        /\ list' = [list EXCEPT ![calls[t].index] = f]
        /\ name' = name /\ size' = size + 1 /\ lock' = NoThread
    BY <1>1 DEF arr_store, files
  <1>3. TypeInv /\ LockInv /\ ArrayInv
    BY DEF SharedInv
  <1>4. lock = t /\ Shifts("rshift") /\ lock # Unmounted
    BY <1>2, <1>3, Shifting
  <1>5. /\ k \in -1 .. size - 1 /\ size < IndexLen /\ size \in Nat /\ IndexLen \in Nat
        /\ f \in Live /\ f \in FileT /\ path = name[f] /\ calls[t].index = k + 1
    BY <1>1, <1>2, <1>3, <1>4, ThreadNames, LiveFiles DEF ArrayInv, ShiftInv, TypeInv
  <1>6. Slots = 0 .. size \ {k + 1} /\ Linked = Live \ {f}
    BY <1>1, <1>4 DEF Slots, Linked
  <1>7. ~ Shifts("rshift")' /\ Slots' = 0 .. size
    <2>1. ~ Shifts("rshift")' /\ ~ Shifts("lshift")'
      BY <1>2, ThreadNames DEF Shifts
    <2> QED BY <1>2, <1>5, <2>1 DEF Slots
  <1>8. /\ list'[k + 1] = f
        /\ \A j \in Slots : list'[j] = list[j]
    BY <1>2, <1>3, <1>5, <1>6 DEF TypeInv
  <1>9. /\ \A i, j \in Slots : i < j => name[list[i]] < name[list[j]]
        /\ \A j \in Slots : (j < k + 1 => name[list[j]] < path) /\ (j >= k + 1 => name[list[j]] > path)
    BY <1>1, <1>4, <1>5 DEF OrderInv
  <1>10. ASSUME NEW i \in Slots', NEW j \in Slots', i < j
         PROVE  name'[list'[i]] < name'[list'[j]]
    <2>1. CASE i # k + 1 /\ j # k + 1
      BY <1>2, <1>6, <1>7, <1>8, <1>9, <1>10, <2>1
    <2>2. CASE i = k + 1
      <3>1. j \in Slots /\ j > k + 1
        BY <1>5, <1>6, <1>7, <1>10, <2>2
      <3> QED BY <1>2, <1>5, <1>8, <1>9, <2>2, <3>1
    <2>3. CASE j = k + 1
      <3>1. i \in Slots /\ i < k + 1
        BY <1>5, <1>6, <1>7, <1>10, <2>3
      <3> QED BY <1>2, <1>5, <1>8, <1>9, <2>3, <3>1
    <2> QED BY <2>1, <2>2, <2>3
  <1> QED BY <1>7, <1>10 DEF OrderInv

LEMMA UnlinkOrder ==
  ASSUME SharedInv, OrderInv, NEW t \in Thread, NEW a \in Names, unlink(t, a)
  PROVE  OrderInv'
  <1>1. lock = NoThread /\ lock' = t /\ list' = list /\ size' = size /\ name' = name
    BY DEF unlink, Free, array, files
  <1>2. calls'[t].pc = "lshift"
    BY UnlinkShared
  <1>3. lock # Unmounted /\ Slots = 0 .. size - 1
    BY <1>1, ArrayWhole, ThreadNames
  <1>4. ~ Shifts("rshift")' /\ Shifts("lshift")'
    BY <1>1, <1>2 DEF Shifts
  <1>5. Slots' \subseteq Slots
    BY <1>1, <1>3, <1>4 DEF Slots
  <1> QED BY <1>1, <1>3, <1>4, <1>5 DEF OrderInv

LEMMA LshiftOrder ==
  ASSUME SharedInv, OrderInv, NEW t \in Thread, arr_lshift(t)
  PROVE  OrderInv'
  <1>1. PICK k : k = calls[t].k
    OBVIOUS
  <1> DEFINE c == [calls[t] EXCEPT !.k = k + 1]
  <1>2. /\ calls[t].pc = "lshift" /\ k < size
        /\ list' = [list EXCEPT ![k - 1] = list[k]] /\ Locals(t, c)
        /\ name' = name /\ size' = size /\ lock' = lock
    BY <1>1 DEF arr_lshift, files
  <1>3. TypeInv /\ LockInv /\ ArrayInv /\ calls[t] \in Call
    BY DEF SharedInv, TypeInv
  <1>4. lock = t /\ Shifts("lshift") /\ ~ Shifts("rshift") /\ lock # Unmounted
    BY <1>2, <1>3, Shifting
  <1>5. k \in 1 .. size - 1 /\ size <= IndexLen /\ size \in Nat /\ IndexLen \in Nat
    BY <1>1, <1>2, <1>3, <1>4, ThreadNames DEF ArrayInv, ShiftInv, TypeInv
  <1>6. c \in Call /\ c.pc = "lshift" /\ c.k = k + 1
    <2>1. k \in Int /\ k + 1 \in Int
      BY <1>5
    <2> QED BY <1>1, <1>2, <1>3, <2>1, ShiftedCall
  <1> HIDE DEF c
  <1>7. calls'[t] = c
    BY <1>2, <1>3, <1>6, LocalsCalls
  <1>8. Shifts("lshift")' /\ ~ Shifts("rshift")' /\ calls'[lock'] = c
    BY <1>2, <1>4, <1>6, <1>7 DEF Shifts
  <1>9. Slots = 0 .. size - 1 \ {k - 1} /\ Slots' = 0 .. size - 1 \ {k}
    <2>1. Slots' = 0 .. size - 1 \ {c.k - 1} /\ c.k - 1 = k
      BY <1>2, <1>5, <1>6, <1>8 DEF Slots
    <2> QED BY <1>1, <1>4, <2>1 DEF Slots
  <1>10. /\ list'[k - 1] = list[k]
         /\ \A j \in Slots : list'[j] = list[j]
    BY <1>2, <1>3, <1>5, <1>9 DEF TypeInv
  <1>11. \A i, j \in Slots : i < j => name[list[i]] < name[list[j]]
    BY <1>4 DEF OrderInv
  <1>12. ASSUME NEW i \in Slots', NEW j \in Slots', i < j
         PROVE  name'[list'[i]] < name'[list'[j]]
    <2>1. i \in Int /\ j \in Int /\ k \in Slots
      BY <1>5, <1>9
    <2>2. CASE i # k - 1 /\ j # k - 1
      BY <1>2, <1>9, <1>10, <1>11, <1>12, <2>2
    <2>3. CASE i = k - 1
      <3>1. j \in Slots /\ k < j
        BY <1>5, <1>9, <1>12, <2>1, <2>3
      <3> QED BY <1>2, <1>10, <1>11, <2>1, <2>3, <3>1
    <2>4. CASE j = k - 1
      <3>1. i \in Slots /\ i < k
        BY <1>5, <1>9, <1>12, <2>1, <2>4
      <3> QED BY <1>2, <1>10, <1>11, <2>1, <2>4, <3>1
    <2> QED BY <2>2, <2>3, <2>4
  <1> QED BY <1>8, <1>12 DEF OrderInv

LEMMA FreeOrder ==
  ASSUME SharedInv, OrderInv, NEW t \in Thread, free_file(t)
  PROVE  OrderInv'
  <1>1. PICK f : f = calls[t].f
    OBVIOUS
  <1>2. /\ calls[t].pc = "lshift" /\ calls[t].k >= size
        /\ name' = [name EXCEPT ![f] = 0]
        /\ list' = list /\ size' = size - 1 /\ lock' = NoThread
    BY <1>1 DEF free_file
  <1>3. TypeInv /\ LockInv /\ ArrayInv
    BY DEF SharedInv
  <1>4. lock = t /\ Shifts("lshift") /\ ~ Shifts("rshift") /\ lock # Unmounted
    BY <1>2, <1>3, Shifting
  <1>5. calls[t].k = size /\ size \in 1 .. IndexLen
    BY <1>2, <1>3, <1>4, ThreadNames DEF ArrayInv, ShiftInv, TypeInv
  <1>6. Slots = 0 .. size - 1 \ {size - 1} /\ Linked = Live \ {f}
    BY <1>1, <1>4, <1>5 DEF Slots, Linked, Staying
  <1>7. ~ Shifts("rshift")' /\ Slots' = Slots
    <2>1. ~ Shifts("rshift")' /\ ~ Shifts("lshift")'
      BY <1>2, ThreadNames DEF Shifts
    <2>2. Slots' = 0 .. size - 1 - 1
      BY <1>2, <2>1 DEF Slots
    <2> QED BY <1>5, <1>6, <2>1, <2>2
  <1>8. \A j \in Slots : name'[list'[j]] = name[list[j]]
    BY <1>2, <1>3, <1>4, <1>6, SlotFiles DEF TypeInv
  <1> QED BY <1>4, <1>7, <1>8 DEF OrderInv

LEMMA RenameOrder ==
  ASSUME RenamesKeepOrder, SharedInv, OrderInv, NEW t \in Thread,
         NEW r \in Renames, rename(t, r[1], r[2])
  PROVE  OrderInv'
  <1>1. PICK a \in Names, b \in Names : a = r[1] /\ b = r[2]
    BY FuseAssumption
  <1>2. /\ Exists(a) /\ lock = NoThread /\ Live' = Live
        /\ name' = [name EXCEPT ![file(a)] = b] /\ \A g \in Live : name[g] # b
        /\ list' = list /\ size' = size /\ lock' = lock
        /\ ~ Shifts("rshift")' /\ ~ Shifts("lshift")'
    BY <1>1, RenameShared
  <1>3. lock # Unmounted /\ Slots = 0 .. size - 1 /\ Linked = Live
    BY <1>2, ArrayWhole, ThreadNames
  <1>4. PICK f : f = file(a)
    OBVIOUS
  <1>5. f \in Live /\ f \in FileT /\ name[f] = a /\ \A g \in Live : name[g] = a => g = f
    BY <1>2, <1>4, FoundFile, LiveFiles
  <1>6. TypeInv
    BY DEF SharedInv
  <1>7. name'[f] = b /\ \A g \in FileT \ {f} : name'[g] = name[g]
    BY <1>2, <1>4, <1>5, <1>6 DEF TypeInv
  <1>8. \A g \in Live \ {f} : (name[g] < a <=> name[g] < b) /\ (a < name[g] <=> b < name[g])
    <2> SUFFICES ASSUME NEW g \in Live \ {f}
                 PROVE  (name[g] < a <=> name[g] < b) /\ (a < name[g] <=> b < name[g])
      OBVIOUS
    <2>1. name[g] \in Names /\ name[g] # a /\ name[g] # b
      BY <1>2, <1>5, <1>6, LiveFiles DEF TypeInv
    <2>2. name[g] < a <=> name[g] < b
      BY <1>1, <2>1 DEF RenamesKeepOrder
    <2>3. name[g] \in Nat /\ a \in Nat /\ b \in Nat
      BY <2>1, ThreadNames
    <2> QED BY <2>1, <2>2, <2>3
  <1>9. Slots' = Slots
    BY <1>2, <1>3 DEF Slots
  <1>10. \A j \in Slots : list[j] \in Live /\ list[j] \in FileT
    BY <1>3, SlotFiles
  <1>11. \A i, j \in Slots : i < j => name[list[i]] < name[list[j]] /\ list[i] # list[j]
    <2>1. Filled(list, Slots, Linked)
      BY <1>3 DEF SharedInv, ArrayInv
    <2>2. \A i, j \in Slots : i < j => i # j
      BY <1>3, ThreadNames, <1>6 DEF TypeInv
    <2> QED BY <1>3, <2>1, <2>2 DEF OrderInv, Filled
  <1>12. ASSUME NEW i \in Slots, NEW j \in Slots, i < j
         PROVE  name'[list[i]] < name'[list[j]]
    <2>1. PICK g, h : g = list[i] /\ h = list[j]
      OBVIOUS
    <2>2. /\ g \in Live /\ h \in Live /\ g \in FileT /\ h \in FileT /\ g # h
          /\ name[g] < name[h]
      BY <1>10, <1>11, <1>12, <2>1
    <2>3. name'[g] < name'[h]
      <3>1. CASE g = f
        <4>1. h \in Live \ {f} /\ h \in FileT \ {f}
          BY <2>2, <3>1
        <4>2. name'[h] = name[h]
          BY <1>7, <4>1
        <4>3. a < name[h] <=> b < name[h]
          BY <1>8, <4>1
        <4>4. name'[g] = b /\ name[g] = a
          BY <1>5, <1>7, <3>1
        <4> QED BY <2>2, <4>2, <4>3, <4>4
      <3>2. CASE h = f
        <4>1. g \in Live \ {f} /\ g \in FileT \ {f}
          BY <2>2, <3>2
        <4>2. name'[g] = name[g]
          BY <1>7, <4>1
        <4>3. name[g] < a <=> name[g] < b
          BY <1>8, <4>1
        <4>4. name'[h] = b /\ name[h] = a
          BY <1>5, <1>7, <3>2
        <4> QED BY <2>2, <4>2, <4>3, <4>4
      <3>3. CASE g # f /\ h # f
        BY <1>7, <2>2, <3>3
      <3> QED BY <3>1, <3>2, <3>3
    <2> QED BY <2>1, <2>3
  <1> QED BY <1>2, <1>9, <1>12 DEF OrderInv

LEMMA OrderStep ==
  ASSUME RenamesKeepOrder, SharedInv, OrderInv, [Next]_vars
  PROVE  OrderInv'
  <1>1. LockInv
    BY DEF SharedInv
  <1>2. CASE myfuse_init
    <2>1. /\ ~ Shifts("rshift")' /\ \A i, j \in Slots' : i < j => name'[list'[i]] < name'[list'[j]]
      BY <1>1, <1>2, MountShared
    <2> QED BY <2>1 DEF OrderInv
  <1>3. CASE myfuse_destroy
    <2>1. lock' = Unmounted
      BY <1>1, <1>3, DestroyShared
    <2> QED BY <2>1 DEF OrderInv
  <1>4. CASE UNCHANGED vars
    BY <1>4, OrderStays DEF vars, files, array
  <1>5. ASSUME NEW t \in Thread, Callback(t) PROVE OrderInv'
    <2>1. ASSUME NEW a \in Names, create(t, a) \/ unlink(t, a) PROVE OrderInv'
      BY <1>1, <2>1, CreateOrder, UnlinkOrder
    <2>2. CASE arr_rshift(t) \/ arr_store(t) \/ arr_lshift(t) \/ free_file(t)
      BY <1>1, <2>2, RshiftOrder, StoreOrder, LshiftOrder, FreeOrder
    <2>3. ASSUME NEW r \in Renames, rename(t, r[1], r[2]) PROVE OrderInv'
      BY <1>1, <2>3, RenameOrder
    <2>4. CASE /\ UNCHANGED <<name, list, size, lock>> /\ lock = NoThread
      BY <2>4, OrderStays, ThreadNames
    <2>5. ASSUME NEW a \in Names, NEW n \in TruncateLengths, truncate(t, a, n) PROVE OrderInv'
      BY <2>4, <2>5 DEF truncate, Free, array
    <2>6. CASE write_file(t)
      BY <2>4, <2>6 DEF write_file, array
    <2>7. ASSUME NEW c, Locals(t, c), Quiet, calls[t].pc \notin {"rshift", "lshift"} PROVE OrderInv'
      <3>1. lock # t
        BY <1>1, <2>7 DEF LockInv
      <3>2. lock \in Thread => calls'[lock] = calls[lock]
        BY <1>1, <2>7, <3>1 DEF Locals, SharedInv, TypeInv
      <3> QED BY <2>7, <3>2, OrderStays DEF Quiet, files, array
    <2>8. ASSUME NEW a \in Names, NEW offset \in Offsets, NEW n \in Lengths,
                 read(t, a, offset, n) \/ write(t, a, offset, n)
          PROVE  OrderInv'
      BY <2>7, <2>8 DEF read, write, Free, Quiet
    <2>9. CASE read_file(t) \/ compare_space(t) \/ clip_length(t)
      BY <2>7, <2>9 DEF read_file, compare_space, clip_length, Quiet
    <2>10. CASE readdir(t) \/ read_slot(t) \/ filler(t) \/ myfuse_readdir_return(t)
      BY <2>7, <2>10 DEF readdir, read_slot, filler, myfuse_readdir_return, Quiet
    <2> QED BY <1>5, <2>1, <2>2, <2>3, <2>5, <2>6, <2>8, <2>9, <2>10 DEF Callback
  <1> QED BY <1>2, <1>3, <1>4, <1>5 DEF Next

----------------------------------------------------------------------------
(* The invariance of the three parts *)

LEMMA StepOthers ==
  ASSUME SharedInv, CallsInv, NEW t \in Thread, SharedInv', OthersStep(t), CallInv(calls[t])'
  PROVE  SharedInv' /\ CallsInv'
  <1>1. \A u \in Thread \ {t} : CallInv(calls[u])'
    BY OthersKept
  <1>2. CallsInv'
    BY <1>1 DEF CallsInv
  <1> QED BY <1>2

LEMMA CallbackInv ==
  ASSUME IInv, NEW t \in Thread, Callback(t)
  PROVE  SharedInv' /\ CallsInv'
  <1>1. SharedInv /\ OrderInv /\ CallsInv /\ CallInv(calls[t])
    BY DEF IInv, CallsInv
  <1>2. Idle.pc = "idle"
    BY DEF Idle
  <1>3. ASSUME NEW a \in Names, create(t, a) PROVE SharedInv' /\ CallsInv'
    <2>1. SharedInv' /\ Happens(t, "add", a) /\ ArrayGrows /\ calls'[t].pc = "rshift"
      BY <1>1, <1>3, CreateShared
    <2> QED BY <1>1, <2>1, NoCallNext, StepOthers DEF OthersStep
  <1>4. ASSUME NEW a \in Names, unlink(t, a) PROVE SharedInv' /\ CallsInv'
    <2>1. SharedInv' /\ Happens(t, "drop", a) /\ ArrayDrops /\ calls'[t].pc = "lshift"
      BY <1>1, <1>4, UnlinkShared
    <2> QED BY <1>1, <2>1, NoCallNext, StepOthers DEF OthersStep
  <1>5. CASE arr_rshift(t)
    <2>1. SharedInv' /\ Waits(t) /\ Shifts("rshift") /\ ArrayGrows /\ calls'[t].pc = "rshift"
      BY <1>1, <1>5, RshiftShared
    <2> QED BY <1>1, <2>1, NoCallNext, StepOthers DEF OthersStep
  <1>6. CASE arr_store(t)
    <2>1. SharedInv' /\ Waits(t) /\ Shifts("rshift") /\ ArrayGrows /\ calls'[t] = Idle
      BY <1>1, <1>6, StoreShared
    <2> QED BY <1>1, <1>2, <2>1, NoCallNext, StepOthers DEF OthersStep
  <1>7. CASE arr_lshift(t)
    <2>1. SharedInv' /\ Waits(t) /\ Shifts("lshift") /\ ArrayDrops /\ calls'[t].pc = "lshift"
      BY <1>1, <1>7, LshiftShared
    <2> QED BY <1>1, <2>1, NoCallNext, StepOthers DEF OthersStep
  <1>8. CASE free_file(t)
    <2>1. SharedInv' /\ Waits(t) /\ Shifts("lshift") /\ ArrayDrops /\ calls'[t] = Idle
      BY <1>1, <1>8, FreeShared
    <2> QED BY <1>1, <1>2, <2>1, NoCallNext, StepOthers DEF OthersStep
  <1>9. ASSUME NEW a \in Names, NEW b \in Names, rename(t, a, b) PROVE SharedInv' /\ CallsInv'
    <2>1. SharedInv' /\ Happens(t, "drop", a) /\ ArrayDrops /\ calls'[t] = Idle
      BY <1>1, <1>9, RenameShared
    <2> QED BY <1>1, <1>2, <2>1, NoCallNext, StepOthers DEF OthersStep
  <1>10. ASSUME NEW a \in Names, NEW n \in TruncateLengths, truncate(t, a, n) PROVE SharedInv' /\ CallsInv'
    <2>1. /\ SharedInv' /\ ArraySame /\ calls'[t] = Idle
          /\ Happens(t, "shrink", a) \/ Happens(t, "grow", a)
      BY <1>1, <1>10, TruncateShared
    <2> QED BY <1>1, <1>2, <2>1, NoCallNext, StepOthers DEF OthersStep
  <1>11. ASSUME NEW a \in Names, NEW offset \in Offsets, NEW n \in Lengths,
                read(t, a, offset, n) \/ write(t, a, offset, n)
         PROVE  SharedInv' /\ CallsInv'
    BY <1>1, <1>11, ReadCall, WriteCall, StepOthers
  <1>12. CASE write_file(t)
    <2>1. SizeInv(calls[t]) /\ calls[t].pc = "write"
      BY <1>1, <1>12 DEF CallInv, write_file
    <2>2. /\ SharedInv' /\ calls'[t] = Idle /\ ArraySame
          /\ Waits(t) \/ Happens(t, "grow", calls[t].path)
      BY <1>1, <1>12, <2>1, WriteShared
    <2>3. calls[t].path \in Names
      BY <1>1, <2>1 DEF SizeInv, Writing, SharedInv, TypeInv, Call
    <2> QED BY <1>1, <1>2, <2>2, <2>3, NoCallNext, StepOthers DEF OthersStep
  <1>13. CASE compare_space(t) \/ clip_length(t)
    BY <1>1, <1>13, CompareCall, ClipCall, StepOthers
  <1>14. CASE readdir(t) \/ read_slot(t) \/ filler(t)
    BY <1>1, <1>14, ReaddirCall, SlotCall, FillerCall, StepOthers
  <1>15. CASE read_file(t) \/ myfuse_readdir_return(t)
    BY <1>1, <1>15, ReturnCall, StepOthers
  <1>16. ASSUME NEW r \in Renames, rename(t, r[1], r[2]) PROVE SharedInv' /\ CallsInv'
    <2>1. r[1] \in Names /\ r[2] \in Names
      BY FuseAssumption
    <2> QED BY <1>9, <1>16, <2>1
  <1> QED BY <1>3, <1>4, <1>5, <1>6, <1>7, <1>8, <1>10, <1>11, <1>12, <1>13, <1>14, <1>15, <1>16
             DEF Callback

LEMMA StepInv ==
  ASSUME RenamesKeepOrder, IInv, [Next]_vars
  PROVE  IInv'
  <1>1. SharedInv /\ OrderInv
    BY DEF IInv
  <1>2. CASE myfuse_init \/ myfuse_destroy
    <2>1. SharedInv' /\ \A t \in Thread : calls'[t].pc = "idle"
      BY <1>1, <1>2, MountShared, DestroyShared
    <2>2. CallsInv'
      BY <2>1, NoCallNext DEF CallsInv
    <2> QED BY <1>1, <2>1, <2>2, OrderStep DEF IInv
  <1>3. ASSUME NEW t \in Thread, Callback(t) PROVE IInv'
    BY <1>1, <1>3, CallbackInv, OrderStep DEF IInv
  <1>4. CASE UNCHANGED vars
    <2>1. SharedInv' /\ CallsInv'
      BY <1>4 DEF vars, files, array, IInv, SharedInv, TypeInv, LockInv, ArrayInv, ShiftInv, SpaceInv,
                  Sizes, Linked, Staying, Slots, Shifts, Live, CallsInv, CallInv, ReadInv, SizeInv,
                  RoomInv, ListInv, IsName, growth, Untouched, NoneFreed
    <2> QED BY <1>1, <2>1, OrderStep DEF IInv
  <1> QED BY <1>2, <1>3, <1>4 DEF Next

(* Whatever the callbacks do in whatever order, the array and the free space
   stay right, and a call's knowledge is worth what its events say: provided
   that renames leave the array in order, so that the search finds names. *)
THEOREM Invariance ==
  ASSUME RenamesKeepOrder
  PROVE  Spec => []IInv
  <1>1. Init => IInv
    <2>1. Init => OrderInv
      BY DEF Init, OrderInv
    <2> QED BY <2>1, InitShared, NoCallInv DEF IInv, CallsInv
  <1>2. IInv /\ [Next]_vars => IInv'
    BY StepInv
  <1> QED BY <1>1, <1>2, PTL DEF Spec

----------------------------------------------------------------------------
(* What the callbacks report *)

(* A refused write was interfered with. *)
LEMMA WriteRefused ==
  ASSUME IInv, NEW t \in Thread, calls[t].pc = "write", lock = NoThread
  PROVE  LET code == write_code(calls[t])
         IN  /\ code = 1 => Met(t, {"drop"})
             /\ code = 2 => Met(t, {"drop", "shrink"})
             /\ code = 3 => Met(t, {"drop", "shrink", "grow"})
  <1>1. PICK c : c = calls[t]
    OBVIOUS
  <1>2. /\ SharedInv /\ OrderInv /\ SizeInv(c) /\ RoomInv(c) /\ c.pc = "write"
        /\ c.pc \in Writing /\ c.path \in Names
    <2>1. SharedInv /\ OrderInv /\ SizeInv(c) /\ RoomInv(c) /\ c.pc = "write" /\ c.pc \in Writing
      BY <1>1 DEF IInv, CallsInv, CallInv, Writing
    <2>2. c.path \in Names
      BY <1>1, <2>1 DEF SizeInv, SharedInv, TypeInv, Call
    <2> QED BY <2>1, <2>2
  <1>3. Staying = Live
    BY <1>2, ArrayWhole
  <1>4. "drop" \notin c.met =>
          /\ Exists(c.path)
          /\ "shrink" \notin c.met => c.f_size <= length[file(c.path)]
          /\ Untouched(c) => length[file(c.path)] = c.f_size
    BY <1>2, <1>3, FoundFile DEF SizeInv
  <1>5. write_code(c) = 1 => "drop" \in c.met
    BY <1>4 DEF write_code
  <1>6. write_code(c) = 2 => "drop" \in c.met \/ "shrink" \in c.met
    <2> SUFFICES ASSUME "drop" \notin c.met, "shrink" \notin c.met PROVE write_code(c) # 2
      OBVIOUS
    <2>1. Exists(c.path) /\ c.f_size <= length[file(c.path)] /\ c.offset <= c.f_size
      BY <1>2, <1>4 DEF SizeInv
    <2>2. c.f_size \in Nat /\ c.offset \in Nat /\ length[file(c.path)] \in Nat
      BY <1>1, <1>2, <1>3, <2>1, FoundFile, LengthBound DEF SharedInv, TypeInv, Call
    <2>3. ~ (c.offset > length[file(c.path)])
      BY <2>1, <2>2
    <2> QED BY <2>1, <2>3 DEF write_code
  <1>7. write_code(c) = 3 => ~ Untouched(c)
    <2> SUFFICES ASSUME Untouched(c) PROVE write_code(c) # 3
      OBVIOUS
    <2>1. Exists(c.path) /\ length[file(c.path)] = c.f_size
      BY <1>4 DEF Untouched
    <2>2. used + c.offset + c.count - c.f_size <= FileDataLen
      BY <1>2 DEF RoomInv
    <2>3. PICK sum : sum = used + c.offset + c.count - c.f_size
      OBVIOUS
    <2>4. sum \in Int /\ FileDataLen \in Int
      BY <1>1, <1>2, <2>3, ThreadNames DEF SharedInv, TypeInv, Call
    <2>5. ~ (sum > FileDataLen)
      BY <2>2, <2>3, <2>4
    <2> QED BY <2>1, <2>3, <2>5 DEF write_code
  <1> QED BY <1>1, <1>5, <1>6, <1>7 DEF Met, Untouched

(* myfuse_write ignores the code of write_file: yet what it reports as written
   was, unless another thread removed or resized the file, provided that
   renames leave the array in order. *)
THEOREM RefusalsExplained ==
  ASSUME RenamesKeepOrder
  PROVE  Spec => []RefusedOnlyByInterference
  <1>1. IInv => RefusedOnlyByInterference
    BY WriteRefused DEF RefusedOnlyByInterference
  <1> QED BY <1>1, Invariance, PTL

(* A write that reaches the end of the file transfers at most what its caller
   passed, unless another thread gave bytes back between its two looks at
   the free space, provided that renames leave the array in order. *)
THEOREM AppendsInRequest ==
  ASSUME RenamesKeepOrder
  PROVE  Spec => []AppendInRequest
  <1>1. IInv => AppendInRequest
    <2> SUFFICES ASSUME IInv, NEW t \in Thread, calls[t].pc = "write",
                        calls[t].offset + calls[t].length >= calls[t].f_size,
                        calls[t].count > calls[t].length
                 PROVE  Met(t, {"freed"})
      BY DEF AppendInRequest
    <2>1. ~ NoneFreed(calls[t])
      BY DEF IInv, CallsInv, CallInv, RoomInv
    <2> QED BY <2>1 DEF NoneFreed, Met
  <1> QED BY <1>1, Invariance, PTL

(* myfuse_read reports bytes that were not copied only for a file that another
   thread removed, or made shorter, after the size was looked up, provided that
   renames leave the array in order. *)
THEOREM UnfilledExplained ==
  ASSUME RenamesKeepOrder
  PROVE  Spec => []UnfilledOnlyByInterference
  <1>1. ASSUME IInv, NEW t \in Thread, calls[t].pc = "read", lock = NoThread
        PROVE  LET code == read_code(calls[t])
               IN  /\ code = 1 => Met(t, {"drop"})
                   /\ code = 2 => Met(t, {"drop", "shrink"})
    <2>1. PICK c : c = calls[t]
      OBVIOUS
    <2>2. SharedInv /\ OrderInv /\ ReadInv(c) /\ c.pc = "read" /\ Staying = Live /\ c.path \in Names
      <3>1. SharedInv /\ OrderInv /\ ReadInv(c) /\ c.pc = "read" /\ Staying = Live
        BY <1>1, <2>1, ArrayWhole DEF IInv, CallsInv, CallInv
      <3>2. c.path \in Names
        BY <2>1, <3>1 DEF ReadInv, SharedInv, TypeInv, Call
      <3> QED BY <3>1, <3>2
    <2>3. "drop" \notin c.met =>
            /\ Exists(c.path)
            /\ "shrink" \notin c.met => c.offset + c.count <= length[file(c.path)]
      BY <1>1, <2>2, FoundFile DEF ReadInv
    <2>4. read_code(c) = 1 => "drop" \in c.met
      BY <2>3 DEF read_code
    <2>5. read_code(c) = 2 => "drop" \in c.met \/ "shrink" \in c.met
      <3> SUFFICES ASSUME "drop" \notin c.met, "shrink" \notin c.met PROVE read_code(c) # 2
        OBVIOUS
      <3>1. Exists(c.path) /\ c.offset + c.count <= length[file(c.path)]
        BY <2>3
      <3>2. c.offset + c.count \in Nat /\ length[file(c.path)] \in Nat
        <4>1. c \in Call
          BY <1>1, <2>1 DEF IInv, SharedInv, TypeInv
        <4>2. c.offset \in Nat /\ c.count \in Nat
          BY <4>1 DEF Call
        <4>3. file(c.path) \in Live
          BY <1>1, <2>2, <3>1, FoundFile
        <4>4. length[file(c.path)] \in Nat
          BY <2>2, <4>3, LengthBound
        <4> QED BY <4>2, <4>4
      <3>3. ~ (c.offset + c.count > length[file(c.path)])
        BY <3>1, <3>2
      <3> QED BY <3>1, <3>3 DEF read_code
    <2> QED BY <2>1, <2>4, <2>5 DEF Met
  <1>2. IInv => UnfilledOnlyByInterference
    BY <1>1 DEF UnfilledOnlyByInterference
  <1> QED BY <1>2, Invariance, PTL

----------------------------------------------------------------------------
(* A listing that nothing interferes with holds every file once, in the order
   of names; one that only creates interfere with shows names that exist. *)
LEMMA ListingSeen ==
  ASSUME IInv, NEW t \in Thread, calls[t].pc = "listed"
  PROVE  LET names == calls[t].listing
         IN  /\ calls[t].met = {} =>
                  /\ {names[j] : j \in 1 .. Len(names)} = {name[f] : f \in Live}
                  /\ \A j, k \in 1 .. Len(names) : j < k => names[j] < names[k]
             /\ "drop" \notin calls[t].met =>
                  \A j \in 1 .. Len(names) : \E f \in Live : names[j] = name[f]
  <1>1. PICK c, names : c = calls[t] /\ names = calls[t].listing
    OBVIOUS
  <1>2. SharedInv /\ OrderInv /\ ListInv(c) /\ c.pc \in Listing /\ c.pc = "listed"
    BY <1>1 DEF IInv, CallsInv, CallInv, Listing
  <1>3. Len(names) = c.k /\ c.k = c.count
    BY <1>1, <1>2 DEF ListInv
  <1>4. "drop" \notin c.met => \A j \in 1 .. Len(names) : \E f \in Live : names[j] = name[f]
    BY <1>1, <1>2, <1>3 DEF ListInv, IsName
  <1>5. ASSUME c.met = {}
        PROVE  /\ {names[j] : j \in 1 .. Len(names)} = {name[f] : f \in Live}
               /\ \A j, k \in 1 .. Len(names) : j < k => names[j] < names[k]
    <2>1. /\ ~ Shifts("rshift") /\ ~ Shifts("lshift") /\ Len(names) = size
          /\ \A j \in 1 .. size : names[j] = name[list[j - 1]]
      BY <1>1, <1>2, <1>3, <1>5 DEF ListInv
    <2>2. lock # Unmounted /\ size \in Nat
      BY <1>1, <1>2, ThreadNames DEF SharedInv, LockInv, TypeInv
    <2>3. Slots = 0 .. size - 1 /\ Linked = Live
      BY <2>1 DEF Slots, Linked, Staying
    <2>4. Filled(list, 0 .. size - 1, Live)
      BY <1>2, <2>2, <2>3 DEF SharedInv, ArrayInv
    <2>5. \A j \in 1 .. size : j - 1 \in 0 .. size - 1
      BY <2>2
    <2>6. ASSUME NEW f \in Live PROVE \E j \in 1 .. size : names[j] = name[f]
      <3>1. PICK i \in 0 .. size - 1 : list[i] = f
        BY <2>4 DEF Filled
      <3>2. i + 1 \in 1 .. size /\ i + 1 - 1 = i
        BY <2>2
      <3> QED BY <2>1, <3>1, <3>2
    <2>7. \A j \in 1 .. size : \E f \in Live : names[j] = name[f]
      BY <2>1, <2>4, <2>5 DEF Filled
    <2>8. ASSUME NEW j \in 1 .. size, NEW k \in 1 .. size, j < k PROVE names[j] < names[k]
      <3>1. j - 1 \in Slots /\ k - 1 \in Slots /\ j - 1 < k - 1
        BY <2>2, <2>3, <2>8
      <3> QED BY <1>2, <2>1, <2>2, <3>1 DEF OrderInv
    <2>9. {names[j] : j \in 1 .. size} = {name[f] : f \in Live}
      BY <2>6, <2>7
    <2> QED BY <2>1, <2>8, <2>9
  <1> QED BY <1>1, <1>4, <1>5

(* myfuse_readdir takes no lock: still its listing is right as far as no other
   call interferes, provided that renames leave the array in order. *)
THEOREM ListingsRight ==
  ASSUME RenamesKeepOrder
  PROVE  Spec => []ListingRight
  <1>1. IInv => ListingRight
    BY ListingSeen DEF ListingRight
  <1> QED BY <1>1, Invariance, PTL

----------------------------------------------------------------------------
(* The table of names and lengths *)

DistinctNames == \A f, g \in Live : name[f] = name[g] => f = g

LEMMA TableEntries ==
  ASSUME DistinctNames
  PROVE  /\ DOMAIN SizeOf = {name[f] : f \in Live}
         /\ \A f \in Live : SizeOf[name[f]] = length[f]
  <1>1. ASSUME NEW f \in Live PROVE SizeOf[name[f]] = length[f]
    <2>1. (CHOOSE g \in Live : name[g] = name[f]) = f
      BY DEF DistinctNames
    <2> QED BY <2>1 DEF SizeOf
  <1> QED BY <1>1 DEF SizeOf

(* t is the table of the files. *)
IsTableOf(t) ==
  /\ t = [n \in DOMAIN t |-> t[n]]
  /\ \A n : n \in DOMAIN t <=> \E f \in Live : name[f] = n
  /\ \A f \in Live : t[name[f]] = length[f]

TableIsSizeOf == \A t : IsTableOf(t) <=> t = SizeOf

LEMMA SizeOfIsTable == DistinctNames => TableIsSizeOf
  <1> SUFFICES ASSUME DistinctNames, NEW t PROVE IsTableOf(t) <=> t = SizeOf
    BY DEF TableIsSizeOf
  <1>1. IsTableOf(SizeOf)
    <2>1. SizeOf = [n \in DOMAIN SizeOf |-> SizeOf[n]]
      BY DEF SizeOf
    <2> QED BY <2>1, TableEntries DEF IsTableOf
  <1>2. ASSUME IsTableOf(t) PROVE t = SizeOf
    <2>1. PICK u : u = SizeOf
      OBVIOUS
    <2>2. IsTableOf(u)
      BY <1>1, <2>1
    <2>3. /\ t = [n \in DOMAIN t |-> t[n]] /\ u = [n \in DOMAIN u |-> u[n]]
          /\ \A n : n \in DOMAIN t <=> n \in DOMAIN u
      BY <1>2, <2>2 DEF IsTableOf
    <2>4. DOMAIN t = DOMAIN u
      BY <2>3
    <2>5. \A n \in DOMAIN t : t[n] = u[n]
      BY <1>2, <2>2 DEF IsTableOf
    <2> QED BY <2>1, <2>3, <2>4, <2>5
  <1> QED BY <1>1, <1>2

LEMMA SizeOfNext == DistinctNames' => TableIsSizeOf'
  BY SizeOfIsTable, PTL

(* A file other than f is neither made nor freed, and keeps name and length. *)
OthersSame(f) ==
  \A g : g # f => /\ g \in Live' <=> g \in Live
                  /\ g \in Live => name'[g] = name[g] /\ length'[g] = length[g]

LEMMA TableStays ==
  ASSUME DistinctNames, DistinctNames', Live' = Live,
         \A f \in Live : name'[f] = name[f] /\ length'[f] = length[f]
  PROVE  SizeOf' = SizeOf
  <1>1. PICK t : t = SizeOf
    OBVIOUS
  <1>2. IsTableOf(t)
    BY <1>1, SizeOfIsTable DEF TableIsSizeOf
  <1>3. IsTableOf(t)'
    BY <1>2 DEF IsTableOf
  <1> QED BY <1>1, <1>3, SizeOfNext DEF TableIsSizeOf

(* One file gets the length; it had the name before, or was free. *)
LEMMA TableSets ==
  ASSUME DistinctNames, DistinctNames', NEW f, NEW n, NEW len,
         f \in Live', name'[f] = n, length'[f] = len, f \in Live => name[f] = n, OthersSame(f)
  PROVE  S!SetSize(n, len)
  <1>1. PICK u : u = SizeOf
    OBVIOUS
  <1>2. IsTableOf(u)
    BY <1>1, SizeOfIsTable DEF TableIsSizeOf
  <1> DEFINE t == [m \in DOMAIN u \cup {n} |-> IF m = n THEN len ELSE u[m]]
  <1>3. /\ t = [m \in DOMAIN t |-> t[m]]
        /\ \A m : m \in DOMAIN t <=> m \in DOMAIN u \/ m = n
        /\ t[n] = len /\ \A m \in DOMAIN u : m # n => t[m] = u[m]
    OBVIOUS
  <1>4. SizeOf' = t
    <2> HIDE DEF t
    <2>1. \A g \in Live' : g # f => /\ g \in Live /\ name'[g] = name[g] /\ length'[g] = length[g]
                                    /\ name[g] # n
      BY DEF OthersSame, DistinctNames
    <2>2. \A g \in Live : g # f => g \in Live' /\ name'[g] = name[g]
      BY DEF OthersSame
    <2>3. \A m : m \in DOMAIN t <=> \E g \in Live' : name'[g] = m
      BY <1>2, <1>3, <2>1, <2>2 DEF IsTableOf
    <2>4. \A g \in Live' : t[name'[g]] = length'[g]
      BY <1>2, <1>3, <2>1 DEF IsTableOf
    <2>5. IsTableOf(t)'
      BY <1>3, <2>3, <2>4 DEF IsTableOf
    <2> QED BY <2>5, SizeOfNext DEF TableIsSizeOf
  <1> QED BY <1>1, <1>4 DEF S!SetSize

(* One file is freed. *)
LEMMA TableRemoves ==
  ASSUME DistinctNames, DistinctNames', NEW f \in Live, f \notin Live', OthersSame(f)
  PROVE  SizeOf' = S!Restrict(SizeOf, DOMAIN SizeOf \ {name[f]})
  <1>1. PICK u, old : u = SizeOf /\ old = name[f]
    OBVIOUS
  <1>2. IsTableOf(u)
    BY <1>1, SizeOfIsTable DEF TableIsSizeOf
  <1> DEFINE t == [m \in DOMAIN u \ {old} |-> u[m]]
  <1>3. /\ t = [m \in DOMAIN t |-> t[m]]
        /\ \A m : m \in DOMAIN t <=> m \in DOMAIN u /\ m # old
        /\ \A m \in DOMAIN u : m # old => t[m] = u[m]
    OBVIOUS
  <1>4. SizeOf' = t
    <2> HIDE DEF t
    <2>1. \A g \in Live : g # f => /\ g \in Live' /\ name'[g] = name[g] /\ length'[g] = length[g]
                                   /\ name[g] # old
      BY <1>1 DEF OthersSame, DistinctNames
    <2>2. \A g \in Live' : g # f /\ g \in Live
      BY DEF OthersSame
    <2>3. \A m : m \in DOMAIN t <=> \E g \in Live' : name'[g] = m
      BY <1>1, <1>2, <1>3, <2>1, <2>2 DEF IsTableOf
    <2>4. \A g \in Live' : t[name'[g]] = length'[g]
      BY <1>2, <1>3, <2>1, <2>2 DEF IsTableOf
    <2>5. IsTableOf(t)'
      BY <1>3, <2>3, <2>4 DEF IsTableOf
    <2> QED BY <2>5, SizeOfNext DEF TableIsSizeOf
  <1> QED BY <1>1, <1>4 DEF S!Restrict

(* One file gets a new name. *)
LEMMA TableRenames ==
  ASSUME DistinctNames, DistinctNames', NEW f \in Live, f \in Live', NEW n,
         name'[f] = n, length'[f] = length[f], OthersSame(f)
  PROVE  SizeOf' = [m \in (DOMAIN SizeOf \ {name[f]}) \cup {n} |->
                      IF m = n THEN SizeOf[name[f]] ELSE SizeOf[m]]
  <1>1. PICK u, old : u = SizeOf /\ old = name[f]
    OBVIOUS
  <1>2. IsTableOf(u)
    BY <1>1, SizeOfIsTable DEF TableIsSizeOf
  <1> DEFINE t == [m \in (DOMAIN u \ {old}) \cup {n} |-> IF m = n THEN u[old] ELSE u[m]]
  <1>3. /\ t = [m \in DOMAIN t |-> t[m]]
        /\ \A m : m \in DOMAIN t <=> (m \in DOMAIN u /\ m # old) \/ m = n
        /\ t[n] = u[old]
        /\ \A m \in DOMAIN u : m # n /\ m # old => t[m] = u[m]
    OBVIOUS
  <1>4. SizeOf' = t
    <2> HIDE DEF t
    <2>1. \A g \in Live : g # f => /\ g \in Live' /\ name'[g] = name[g] /\ length'[g] = length[g]
                                   /\ name[g] # old /\ name'[g] # n
      BY <1>1 DEF OthersSame, DistinctNames
    <2>2. \A g \in Live' : g # f => g \in Live
      BY DEF OthersSame
    <2>3. \A m : m \in DOMAIN t <=> \E g \in Live' : name'[g] = m
      BY <1>1, <1>2, <1>3, <2>1, <2>2 DEF IsTableOf
    <2>4. \A g \in Live' : t[name'[g]] = length'[g]
      <3> SUFFICES ASSUME NEW g \in Live' PROVE t[name'[g]] = length'[g]
        OBVIOUS
      <3>1. CASE g = f
        BY <1>1, <1>2, <1>3, <3>1 DEF IsTableOf
      <3>2. CASE g # f
        BY <1>2, <1>3, <2>1, <2>2, <3>2 DEF IsTableOf
      <3> QED BY <3>1, <3>2
    <2>5. IsTableOf(t)'
      BY <1>3, <2>3, <2>4 DEF IsTableOf
    <2> QED BY <2>5, SizeOfNext DEF TableIsSizeOf
  <1> QED BY <1>1, <1>4

(* SizeStore counts and sums with its own instance of the library. *)
LEMMA TableOperators ==
  ASSUME NEW f
  PROVE  /\ S!Cardinality(f) = Cardinality(f)
         /\ S!SumFunction(f) = SumFunction(f)
  <1>1. S!Cardinality(f) = Cardinality(f)
    BY DEF S!Cardinality, Cardinality
  <1>2. S!SumFunctionOnSet(f, DOMAIN f) = PartialSums(f, DOMAIN f)[DOMAIN f]
    BY DEF S!SumFunctionOnSet, S!FoldFunctionOnSet, S!MapThenFoldSet, PartialSums, AddOne, Any
  <1>3. S!SumFunction(f) = SumFunction(f)
    BY <1>2, SumIsFold DEF S!SumFunction, SumFunction
  <1> QED BY <1>1, <1>3

(* With the mutex free the table has as many bytes as "used" counts, and not
   more names than the array has slots. *)
LEMMA TableTotals ==
  ASSUME SharedInv, OrderInv, lock = NoThread
  PROVE  /\ S!Total = used /\ used \in Nat
         /\ Cardinality(DOMAIN SizeOf) <= size /\ Cardinality(DOMAIN SizeOf) \in Nat
         /\ \A a \in Names : S!Exists(a) <=> Exists(a)
         /\ \A a \in Names : Exists(a) => /\ SizeOf[a] = length[file(a)] /\ length[file(a)] \in Nat
                                          /\ length[file(a)] <= used
  <1>1. TypeInv /\ SpaceInv /\ DistinctNames /\ size \in Nat /\ used \in Nat
    BY ThreadNames DEF SharedInv, TypeInv, ArrayInv, DistinctNames
  <1>2. Staying = Live /\ Filled(list, 0 .. size - 1, Live) /\ lock # Unmounted
    BY ArrayWhole, ThreadNames
  <1>3. PICK D : D = DOMAIN SizeOf
    OBVIOUS
  <1>4. D = {name[f] : f \in Live} /\ \A f \in Live : SizeOf[name[f]] = length[f]
    BY <1>1, <1>3, TableEntries
  <1>5. Cardinality(D) <= size /\ Cardinality(D) \in Nat
    <2> DEFINE h == [j \in 0 .. size - 1 |-> name[list[j]]]
    <2>1. \A j \in 0 .. size - 1 : h[j] \in D
      BY <1>2, <1>4 DEF Filled
    <2>2. \A n \in D : \E j \in 0 .. size - 1 : h[j] = n
      BY <1>2, <1>4 DEF Filled
    <2>3. h \in Surjection(0 .. size - 1, D)
      BY <2>1, <2>2 DEF Surjection
    <2>4. IsFiniteSet(0 .. size - 1) /\ Cardinality(0 .. size - 1) = size
      <3>1. IF 0 > size - 1 THEN size = 0 ELSE size - 1 - 0 + 1 = size
        BY <1>1
      <3> QED BY <1>1, <3>1, FS_Interval
    <2> HIDE DEF h
    <2>5. IsFiniteSet(D) /\ Cardinality(D) <= size
      BY <2>3, <2>4, FS_Surjection
    <2> QED BY <2>5, FS_CardinalityType
  <1>6. S!Total = used
    <2> DEFINE h == [f \in Live |-> name[f]]
    <2>1. DOMAIN SizeOf = {h[f] : f \in Live}
      BY <1>3, <1>4
    <2>2. \A f, g \in Live : h[f] = h[g] => f = g
      BY <1>1 DEF DistinctNames
    <2>3. /\ \A f \in FileT : Sizes[f] \in Nat
          /\ \A f \in FileT \ Live : Sizes[f] = 0
          /\ \A f \in Live : Sizes[f] = length[f]
      BY <1>1, <1>2, LiveFiles DEF Sizes, TypeInv
    <2>4. \A f \in Live : Sizes[f] \in Nat /\ SizeOf[h[f]] = Sizes[f]
      BY <1>4, <2>3, LiveFiles
    <2> HIDE DEF h
    <2>5. IsFiniteSet(Live) /\ Live \in SUBSET FileT
      BY LiveFiles, ThreadNames, FS_Subset
    <2>6. SumFunctionOnSet(SizeOf, {h[f] : f \in Live}) = SumFunctionOnSet(Sizes, Live)
      BY <2>2, <2>4, <2>5, SumRenamed
    <2>7. SumFunctionOnSet(Sizes, FileT) = SumFunctionOnSet(Sizes, Live)
      BY <2>3, <2>5, ThreadNames, SumZeros
    <2>8. S!Total = SumFunctionOnSet(SizeOf, DOMAIN SizeOf)
      BY TableOperators DEF S!Total, SumFunction
    <2> QED BY <1>1, <1>2, <2>1, <2>6, <2>7, <2>8 DEF SpaceInv
  <1>7. \A a \in Names : S!Exists(a) <=> Exists(a)
    <2> SUFFICES ASSUME NEW a \in Names PROVE S!Exists(a) <=> Exists(a)
      OBVIOUS
    <2>1. S!Exists(a) <=> a \in DOMAIN SizeOf
      BY DEF S!Exists
    <2> QED BY <1>3, <1>4, <2>1, FoundFile
  <1>8. ASSUME NEW a \in Names, Exists(a)
        PROVE  /\ SizeOf[a] = length[file(a)] /\ length[file(a)] \in Nat
               /\ length[file(a)] <= used
    <2>1. PICK f : f = file(a)
      OBVIOUS
    <2>2. f \in Live /\ f \in FileT /\ name[f] = a
      BY <1>8, <2>1, FoundFile, LiveFiles
    <2>3. \A g \in FileT : Sizes[g] \in Nat
      BY <1>1 DEF Sizes, TypeInv
    <2>4. Sizes[f] <= SumFunctionOnSet(Sizes, FileT)
      BY <2>2, <2>3, ThreadNames, SumChange
    <2>5. Sizes[f] = length[f] /\ length[f] \in Nat
      BY <1>1, <1>2, <2>2 DEF Sizes, TypeInv
    <2> QED BY <1>1, <1>2, <1>4, <2>1, <2>2, <2>4, <2>5 DEF SpaceInv
  <1> QED BY <1>1, <1>3, <1>5, <1>6, <1>7, <1>8

LEMMA TableStep ==
  ASSUME IInv, IInv', [Next]_vars
  PROVE  [S!Next]_SizeOf
  <1>1. SharedInv /\ OrderInv /\ TypeInv /\ DistinctNames /\ DistinctNames'
    BY DEF IInv, SharedInv, ArrayInv, DistinctNames
  <1>2. ASSUME UNCHANGED <<name, length>> PROVE SizeOf' = SizeOf
    <2>1. Live' = Live
      BY <1>2 DEF Live
    <2> QED BY <1>1, <1>2, <2>1, TableStays
  <1>3. CASE myfuse_init \/ myfuse_destroy \/ UNCHANGED vars
    BY <1>2, <1>3 DEF myfuse_init, myfuse_destroy, vars, files
  <1>4. ASSUME NEW t \in Thread, NEW a \in Names, create(t, a) PROVE S!Next
    <2>1. PICK f \in FileT \ Live : name' = [name EXCEPT ![f] = a] /\ length' = [length EXCEPT ![f] = 0]
      BY <1>4 DEF create
    <2>2. lock = NoThread /\ ~ Exists(a) /\ size < IndexLen
      BY <1>4 DEF create, Free
    <2>3. /\ name'[f] = a /\ length'[f] = 0
          /\ \A g \in FileT : g # f => name'[g] = name[g] /\ length'[g] = length[g]
      BY <1>1, <2>1 DEF TypeInv
    <2>4. f \in Live' /\ OthersSame(f)
      BY <2>1, <2>3, ThreadNames DEF OthersSame, Live
    <2>5. S!SetSize(a, 0)
      BY <1>1, <2>1, <2>3, <2>4, TableSets
    <2>6. S!create_code(a, 0) = 0
      <3>1. ~ S!Exists(a) /\ S!Total = used
        BY <1>1, <2>2, TableTotals
      <3>2. used + 0 <= FileDataLen
        BY <1>1, ThreadNames DEF TypeInv
      <3>3. PICK n : n = Cardinality(DOMAIN SizeOf)
        OBVIOUS
      <3>4. n \in Nat /\ n < IndexLen
        <4>1. n \in Nat /\ n <= size
          BY <1>1, <2>2, <3>3, TableTotals
        <4> QED BY <1>1, <2>2, <4>1, ThreadNames DEF TypeInv
      <3>5. ~ (used + 0 > FileDataLen \/ n >= IndexLen)
        BY <1>1, <3>2, <3>4, ThreadNames DEF TypeInv
      <3> QED BY <3>1, <3>3, <3>5, TableOperators DEF S!create_code
    <2>7. S!create_file(a, 0)
      BY <2>5, <2>6 DEF S!create_file
    <2> QED BY <2>7 DEF S!Next
  <1>5. ASSUME NEW t \in Thread, free_file(t) PROVE S!Next
    <2>1. PICK f : f = calls[t].f
      OBVIOUS
    <2>2. f \in Live /\ Live' = Live \ {f} /\ \A g \in Live' : name'[g] = name[g] /\ length'[g] = length[g]
      BY <1>1, <1>5, <2>1, FreeShared
    <2>3. OthersSame(f)
      BY <2>2 DEF OthersSame
    <2>4. SizeOf' = S!Restrict(SizeOf, DOMAIN SizeOf \ {name[f]})
      BY <1>1, <2>2, <2>3, TableRemoves
    <2>5. name[f] \in Names
      BY <1>1, <2>2, LiveFiles DEF TypeInv
    <2>6. S!Exists(name[f])
      <3>1. name[f] \in DOMAIN SizeOf
        BY <1>1, <2>2, TableEntries
      <3> QED BY <2>5, <3>1 DEF S!Exists
    <2>7. S!delete_file(name[f])
      BY <2>4, <2>5, <2>6 DEF S!delete_file, S!delete_code
    <2> QED BY <2>5, <2>7 DEF S!Next
  <1>6. ASSUME NEW t \in Thread, NEW r \in Renames, rename(t, r[1], r[2]) PROVE S!Next
    <2>1. PICK a \in Names, b \in Names : a = r[1] /\ b = r[2] /\ <<a, b>> \in Renames
      <3>1. r \in Names \X Names
        BY FuseAssumption
      <3>2. r[1] \in Names /\ r[2] \in Names /\ r = <<r[1], r[2]>>
        BY <3>1
      <3> QED BY <3>2
    <2>2. /\ Exists(a) /\ lock = NoThread /\ Live' = Live /\ length' = length
          /\ name' = [name EXCEPT ![file(a)] = b] /\ \A g \in Live : name[g] # b
      BY <1>1, <1>6, <2>1, RenameShared
    <2>3. PICK f : f = file(a)
      OBVIOUS
    <2>4. f \in Live /\ f \in FileT /\ name[f] = a
      BY <1>1, <2>2, <2>3, FoundFile, LiveFiles
    <2>5. name'[f] = b /\ \A g \in FileT : g # f => name'[g] = name[g]
      BY <1>1, <2>2, <2>3, <2>4 DEF TypeInv
    <2>6. OthersSame(f)
      BY <2>2, <2>5, LiveFiles DEF OthersSame
    <2>7. SizeOf' = [m \in (DOMAIN SizeOf \ {a}) \cup {b} |-> IF m = b THEN SizeOf[a] ELSE SizeOf[m]]
      BY <1>1, <2>2, <2>4, <2>5, <2>6, TableRenames
    <2>8. a # b /\ ~ Exists(b)
      BY <1>1, <2>2, <2>4, FoundFile
    <2>9. S!Exists(a) /\ ~ S!Exists(b)
      BY <1>1, <2>2, <2>8, TableTotals
    <2>10. S!rename_file(a, b)
      BY <2>7, <2>8, <2>9 DEF S!rename_file, S!rename_code
    <2> QED BY <2>1, <2>10 DEF S!Next
  <1>7. ASSUME NEW a \in Names, Exists(a), lock = NoThread, NEW n,
               name' = name, length' = [length EXCEPT ![file(a)] = n]
        PROVE  S!SetSize(a, n)
    <2>1. PICK f : f = file(a)
      OBVIOUS
    <2>2. f \in Live /\ f \in FileT /\ name[f] = a
      BY <1>1, <1>7, <2>1, FoundFile, LiveFiles
    <2>3. Live' = Live
      BY <1>7 DEF Live
    <2>4. length'[f] = n /\ \A g \in FileT : g # f => length'[g] = length[g]
      BY <1>1, <1>7, <2>1, <2>2 DEF TypeInv
    <2>5. OthersSame(f)
      BY <1>7, <2>3, <2>4, LiveFiles DEF OthersSame
    <2> QED BY <1>1, <1>7, <2>2, <2>3, <2>4, <2>5, TableSets
  <1>8. ASSUME NEW t \in Thread, NEW a \in Names, NEW n \in TruncateLengths, truncate(t, a, n)
        PROVE  S!Next
    <2>1. /\ lock = NoThread /\ Exists(a) /\ used + n - length[file(a)] <= FileDataLen
          /\ length' = [length EXCEPT ![file(a)] = n] /\ name' = name
      BY <1>8 DEF truncate, Free
    <2>2. S!SetSize(a, n)
      BY <1>7, <2>1
    <2>3. PICK len : len = length[file(a)]
      OBVIOUS
    <2>4. /\ S!Exists(a) /\ S!Total = used /\ SizeOf[a] = len /\ len \in Nat /\ used \in Nat
          /\ n \in Nat /\ FileDataLen \in Nat
      BY <1>1, <2>1, <2>3, TableTotals, ThreadNames
    <2>5. ~ (used - len + n > FileDataLen)
      BY <2>1, <2>3, <2>4
    <2>6. S!resize_code(a, n) = 0
      BY <2>4, <2>5 DEF S!resize_code
    <2>7. S!resize_file(a, n)
      BY <2>2, <2>6 DEF S!resize_file
    <2> QED BY <2>7 DEF S!Next
  <1>9. ASSUME NEW t \in Thread, write_file(t) PROVE S!Next \/ SizeOf' = SizeOf
    <2>1. PICK c, a, o, n, len : /\ c = calls[t] /\ a = c.path /\ o = c.offset /\ n = c.count
                                 /\ len = length[file(c.path)]
      OBVIOUS
    <2>2. /\ c.pc = "write" /\ lock = NoThread /\ name' = name
          /\ IF write_code(c) = 0 /\ o + n > len
             THEN length' = [length EXCEPT ![file(a)] = o + n]
             ELSE length' = length
      BY <1>9, <2>1 DEF write_file
    <2>3. CASE ~ (write_code(c) = 0 /\ o + n > len)
      BY <1>2, <2>2, <2>3
    <2>4. CASE write_code(c) = 0 /\ o + n > len
      <3>1. a \in Names /\ o \in Offsets /\ n \in Nat /\ o \in Nat
        BY <1>1, <2>1, <2>2, ThreadNames DEF IInv, CallsInv, CallInv, SizeInv, Writing, TypeInv, Call
      <3>2. Exists(a) /\ ~ (o > len) /\ ~ (used + o + n - len > FileDataLen)
        BY <2>1, <2>4 DEF write_code
      <3>3. S!SetSize(a, o + n)
        BY <1>7, <2>2, <2>4, <3>1, <3>2
      <3>4. /\ S!Exists(a) /\ S!Total = used /\ SizeOf[a] = len /\ len \in Nat /\ used \in Nat
            /\ FileDataLen \in Nat /\ len <= used
        BY <1>1, <2>1, <2>2, <3>1, <3>2, TableTotals, ThreadNames
      <3>5. ~ (used - len + o + n > FileDataLen) /\ n \in 0 .. FileDataLen
        BY <3>1, <3>2, <3>4
      <3>6. S!write_code(a, o, n) = 0
        BY <3>1, <3>2, <3>4, <3>5 DEF S!write_code
      <3>7. S!write_file(a, o, n)
        BY <2>4, <3>1, <3>3, <3>4, <3>6 DEF S!write_file
      <3> QED BY <3>1, <3>5, <3>7 DEF S!Next
    <2> QED BY <2>3, <2>4
  <1>10. ASSUME NEW t \in Thread, Callback(t) PROVE S!Next \/ SizeOf' = SizeOf
    <2>1. ASSUME NEW a \in Names, unlink(t, a) PROVE SizeOf' = SizeOf
      BY <1>2, <2>1 DEF unlink, files
    <2>2. CASE arr_rshift(t) \/ arr_store(t) \/ arr_lshift(t)
      BY <1>2, <2>2 DEF arr_rshift, arr_store, arr_lshift, files
    <2>3. ASSUME NEW a \in Names, NEW offset \in Offsets, NEW n \in Lengths,
                 read(t, a, offset, n) \/ write(t, a, offset, n)
          PROVE  SizeOf' = SizeOf
      BY <1>2, <2>3 DEF read, write, files
    <2>4. CASE read_file(t) \/ compare_space(t) \/ clip_length(t)
      BY <1>2, <2>4 DEF read_file, compare_space, clip_length, files
    <2>5. CASE readdir(t) \/ read_slot(t) \/ filler(t) \/ myfuse_readdir_return(t)
      BY <1>2, <2>5 DEF readdir, read_slot, filler, myfuse_readdir_return, files
    <2> QED BY <1>4, <1>5, <1>6, <1>8, <1>9, <1>10, <2>1, <2>2, <2>3, <2>4, <2>5 DEF Callback
  <1> QED BY <1>3, <1>10 DEF Next

LEMMA TableInit == Init => S!Init
  <1> SUFFICES ASSUME Init PROVE S!Init
    OBVIOUS
  <1>1. Live = {}
    BY InitShared
  <1>2. SizeOf = [n \in {} |-> 0]
    BY <1>1 DEF SizeOf
  <1> QED BY <1>2 DEF S!Init

(* The callbacks of any number of threads change names and lengths as the
   plain table does: a create or a removal at the step that makes or frees the
   file, a rename, a truncation and a write that extends a file in one.  Renames
   must leave the array in order: after others a search misses a file, and a
   second one gets its name. *)
THEOREM CallbacksKeepTable ==
  ASSUME RenamesKeepOrder
  PROVE  Spec => CallbacksImplementSizes
  <1>1. IInv /\ IInv' /\ [Next]_vars => [S!Next]_SizeOf
    BY TableStep
  <1> QED BY <1>1, TableInit, Invariance, PTL DEF Spec, CallbacksImplementSizes, S!Spec
=============================================================================
