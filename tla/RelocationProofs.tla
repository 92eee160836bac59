-------------------------- MODULE RelocationProofs -------------------------
(***************************************************************************)
(* For every number and layout of files and every point of a kill: no file *)
(* of the array but the one being moved loses a byte, and after the loop   *)
(* the caller finds room for its file behind them. Without a kill the loop *)
(* ends where the recursion of Allocator's repack_helper does.             *)
(***************************************************************************)
EXTENDS RelocationProps, DataLemmas

(* What the loop never changes: the layout it starts from. *)
Start ==
  /\ len \in [File -> Nat] /\ before \in [File -> Nat]
  /\ packed \in [0 .. N -> Nat] /\ packed[0] = 0
  /\ \A k \in File : packed[k + 1] = packed[k] + len[k]
  /\ \A j, k \in 0 .. N : j <= k => packed[j] <= packed[k]
  /\ Layout
  /\ old.length \in Nat /\ keep \in Nat /\ length \in Nat
  /\ used = packed[N] + old.length
  /\ call # "repack" => new_offset + length <= FileDataLen

(* The files before i are where the packing puts them, the others where
   they were, behind the place that the packing has for the next one. *)
Progress ==
  /\ i \in 0 .. N
  /\ off = [k \in File |-> IF k < i THEN packed[k] ELSE before[k]]
  /\ dir = [k \in File |-> IF k < i THEN packed[k]
                           ELSE IF fresh(before[k]) THEN 0 ELSE before[k]]
  /\ i < N => packed[i] <= before[i]

(* The bytes of the file that was moved but has its old offset yet. *)
Moved ==
  pc = "moved" =>
    /\ i \in File
    /\ \A q \in Byte :
         q < len[i] => packed[i] + q \in Byte /\ data[packed[i] + q] = Original[before[i] + q]

AfterLoop == {"paste", "name", "offset", "length", "fill", "done"}

(* Files that the loop did not come to are empty. *)
Finished ==
  /\ pc \in {"copy", "loop", "moved", "killed"} \cup AfterLoop
  /\ pc \in AfterLoop => \A k \in File : k >= i => len[k] = 0

IInv == Start /\ Progress /\ Moved /\ Finished /\ OthersSurvive

----------------------------------------------------------------------------
(* The assumption on the constants, in the parts that the steps use. *)
LEMMA Constants ==
  /\ N \in Nat /\ FileDataLen \in Nat /\ MAX_FILE_DATA_LEN \in Nat
  /\ FileDataLen < MAX_FILE_DATA_LEN
  BY RelocationAssumption

(* The place that repack_helper computes is that of the packing. *)
LEMMA TargetPacked ==
  ASSUME Start, Progress, i \in File
  PROVE  target(i) = packed[i] /\ packed[i] \in Nat /\ packed[i] + len[i] = packed[i + 1]
  <1>1. CASE i = 0
    BY <1>1, Constants DEF Start, Progress, target, File
  <1>2. CASE i # 0
    <2>1. i - 1 \in File /\ i - 1 < i
      BY <1>2, Constants DEF File
    <2>2. off[i - 1] = packed[i - 1]
      BY <2>1 DEF Progress
    <2>3. packed[i - 1] + len[i - 1] = packed[i]
      BY <2>1, Constants DEF Start, File
    <2> QED BY <1>2, <2>2, <2>3, Constants DEF Start, target, File
  <1> QED BY <1>1, <1>2

(* Every call begins in a state of the invariant. *)
LEMMA InitIInv == Init => IInv
  <1> SUFFICES ASSUME Init PROVE IInv
    OBVIOUS
  <1>1. len \in [File -> Nat] /\ before \in [File -> Nat] /\ packed \in [0 .. N -> Nat]
    BY Constants DEF Init, File
  <1>2. \A k \in File : packed[k + 1] = packed[k] + len[k]
    BY <1>1, Constants DEF Init, File
  <1>3. old.length \in Nat /\ length \in Nat
    BY RelocationAssumption DEF Init, Empty
  <1>4. keep \in Nat /\ (call # "repack" => new_offset + length <= FileDataLen)
    BY <1>1, <1>3, Constants DEF Init, InitCall, GrowthRepacks, CreationRepacks, new_offset, Empty
  <1>5. Start
    BY <1>1, <1>2, <1>3, <1>4 DEF Start, Init
  <1>6. Progress
    BY <1>1, Constants DEF Init, Progress, File
  <1>7. Moved /\ Finished
    BY DEF Init, Moved, Finished, AfterLoop
  <1>8. OthersSurvive
    <2> SUFFICES ASSUME NEW k \in File, NEW q \in Byte, q < len[k]
                 PROVE  dir[k] + q \in Byte /\ data[dir[k] + q] = Original[before[k] + q]
      BY DEF OthersSurvive
    <2>1. before[k] + len[k] <= FileDataLen /\ ~ fresh(before[k])
      BY <1>1, Constants DEF Init, Layout, Byte, fresh
    <2> QED BY <1>1, <2>1, Constants DEF Init, Byte
  <1> QED BY <1>5, <1>6, <1>7, <1>8 DEF IInv

(* A write to a range in which the file has no byte leaves it alone. *)
LEMMA WriteElsewhere ==
  ASSUME IInv, NEW k \in File, k \notin Moving, UNCHANGED <<rigid, dir>>,
         \A p \in Byte : dir[k] <= p /\ p < dir[k] + len[k] => data'[p] = data[p]
  PROVE  \A q \in Byte :
           q < len[k] => dir'[k] + q \in Byte /\ data'[dir'[k] + q] = Original[before'[k] + q]
  <1> SUFFICES ASSUME NEW q \in Byte, q < len[k]
               PROVE  dir[k] + q \in Byte /\ data'[dir[k] + q] = Original[before[k] + q]
    BY DEF rigid
  <1>1. dir[k] + q \in Byte /\ data[dir[k] + q] = Original[before[k] + q]
    BY DEF IInv, OthersSurvive
  <1>2. dir[k] \in Nat /\ len[k] \in Nat /\ k \in 0 .. N
    BY Constants DEF IInv, Start, Progress, File
  <1>3. dir[k] <= dir[k] + q /\ dir[k] + q < dir[k] + len[k]
    BY <1>2 DEF Byte
  <1> QED BY <1>1, <1>3

(* The place of any other file with data lies below or above that of file
   i in the packing, and the files not yet moved lie above. *)
LEMMA OthersElsewhere ==
  ASSUME IInv, i \in File, NEW k \in File, k # i, NEW p \in Byte,
         packed[i] <= p, p < packed[i] + len[i]
  PROVE  ~ (dir[k] <= p /\ p < dir[k] + len[k])
  <1> USE Constants
  <1>1. len[k] \in Nat /\ len[i] \in Nat /\ before[k] \in Nat /\ before[i] \in Nat
    BY DEF IInv, Start
  <1>2. CASE k < i
    <2>0. k + 1 \in 0 .. N /\ i \in 0 .. N /\ k + 1 <= i
      BY <1>2 DEF File
    <2>1. packed[k] + len[k] = packed[k + 1] /\ packed[k + 1] <= packed[i]
      BY <2>0 DEF IInv, Start
    <2>4. k \in 0 .. N
      BY DEF File
    <2>3. packed[k] \in Nat /\ packed[i] \in Nat
      BY <2>0, <2>4 DEF IInv, Start
    <2>2. dir[k] = packed[k]
      BY <1>2 DEF IInv, Progress
    <2> QED BY <1>1, <2>1, <2>2, <2>3 DEF Byte
  <1>3. CASE k > i
    <2>0. i \in 0 .. N /\ i < N
      BY <1>3 DEF File
    <2>1. packed[i] \in Nat /\ packed[i] <= before[i]
      BY <2>0 DEF IInv, Start, Progress
    <2>4. before[i] + len[i] <= before[k]
      BY <1>3 DEF IInv, Start, Layout
    <2>2. dir[k] = (IF fresh(before[k]) THEN 0 ELSE before[k])
      BY <1>3 DEF IInv, Progress, File
    <2>3. fresh(before[k]) => len[k] = 0
      BY <1>1 DEF IInv, Start, Layout, fresh
    <2> QED BY <1>1, <2>1, <2>2, <2>3, <2>4 DEF Byte
  <1> QED BY <1>2, <1>3 DEF File

(* After the loop every file ends where the file of the caller begins. *)
LEMMA EndsBelow ==
  ASSUME IInv, pc \in AfterLoop, NEW k \in File
  PROVE  /\ new_offset = packed[N] /\ new_offset \in Nat
         /\ len[k] > 0 => /\ dir[k] = packed[k] /\ off[k] = packed[k]
                          /\ packed[k] + len[k] <= new_offset
  <1> USE Constants
  <1>0. packed[N] \in Nat /\ old.length \in Nat /\ used = packed[N] + old.length
    BY DEF IInv, Start
  <1>1. new_offset = packed[N] /\ new_offset \in Nat
    BY <1>0 DEF new_offset
  <1>2. ASSUME len[k] > 0 PROVE k < i
    BY <1>2 DEF IInv, Finished, Progress, File
  <1>3. packed[k] + len[k] = packed[k + 1] /\ packed[k + 1] <= packed[N]
    BY DEF IInv, Start, File
  <1>4. len[k] > 0 => dir[k] = packed[k] /\ off[k] = packed[k]
    BY <1>2 DEF IInv, Progress
  <1> QED BY <1>1, <1>3, <1>4

----------------------------------------------------------------------------
(* No step of the call changes what it started from. *)
LEMMA StartStays == Start /\ UNCHANGED rigid => Start'
  BY DEF Start, rigid, Layout, new_offset, File

(* A step that writes nothing of the files of the array keeps the invariant. *)
LEMMA QuietStep ==
  ASSUME IInv, UNCHANGED <<rigid, off, dir, data, i>>, pc' # "moved",
         pc = "moved" => pc' = "killed",
         pc = "killed" => pc' = "killed",
         pc' \in {"copy", "loop", "killed"} \cup AfterLoop,
         pc' \in AfterLoop => \A k \in File : k >= i => len[k] = 0
  PROVE  IInv'
  <1>1. Start' /\ Progress'
    BY StartStays DEF IInv, Progress, rigid, fresh, File
  <1>2. Moved' /\ Finished'
    BY DEF IInv, Moved, Finished, AfterLoop, rigid, File
  <1>3. Moving \subseteq Moving'
    BY DEF Moving
  <1>4. OthersSurvive'
    BY <1>3 DEF IInv, OthersSurvive, rigid, File, Byte
  <1> QED BY <1>1, <1>2, <1>4 DEF IInv

(* A write behind the files of the array keeps the invariant. *)
LEMMA WriteBehind ==
  ASSUME IInv, UNCHANGED <<rigid, off, dir, i>>, pc \in AfterLoop,
         pc' \in AfterLoop \cup {"killed"},
         \A p \in Byte : p < new_offset => data'[p] = data[p]
  PROVE  IInv'
  <1> USE Constants
  <1>1. Start' /\ Progress'
    BY StartStays DEF IInv, Progress, rigid, fresh, File
  <1>2. Moved' /\ Finished'
    BY DEF IInv, Moved, Finished, AfterLoop, rigid, File
  <1>3. Moving = {}
    BY DEF Moving, AfterLoop
  <1>4. ASSUME NEW k \in File, NEW q \in Byte, q < len[k]
        PROVE  dir[k] + q \in Byte /\ data'[dir[k] + q] = Original[before[k] + q]
    <2>1. dir[k] + q \in Byte /\ data[dir[k] + q] = Original[before[k] + q]
      BY <1>3, <1>4 DEF IInv, OthersSurvive
    <2>2. len[k] \in Nat /\ packed[k] \in Nat
      BY DEF IInv, Start, File
    <2>3. dir[k] = packed[k] /\ packed[k] + len[k] <= new_offset /\ new_offset \in Nat
      BY <1>4, <2>2, EndsBelow DEF Byte
    <2>4. dir[k] + q < new_offset
      BY <1>4, <2>2, <2>3 DEF Byte
    <2> QED BY <2>1, <2>4
  <1>5. OthersSurvive'
    BY <1>4 DEF OthersSurvive, rigid, File, Byte
  <1> QED BY <1>1, <1>2, <1>5 DEF IInv

(* What the loop knows of a file behind a gap. *)
LEMMA BehindGap ==
  ASSUME IInv, pc = "loop", Behind
  PROVE  /\ i \in File /\ off[i] = before[i] /\ before[i] \in Nat /\ len[i] \in Nat
         /\ target(i) = packed[i] /\ packed[i] \in Nat /\ packed[i] <= before[i]
         /\ \A q \in Byte : q < len[i] =>
              /\ before[i] + q \in Byte /\ packed[i] + q \in Byte
              /\ data[before[i] + q] = Original[before[i] + q]
  <1> USE Constants
  <1>1. i \in File /\ i \in 0 .. N /\ i < N
    BY DEF IInv, Progress, Behind, AtEnd, File
  <1>2. off[i] = before[i] /\ before[i] \in Nat /\ len[i] \in Nat
    BY <1>1 DEF IInv, Start, Progress
  <1>3. target(i) = packed[i] /\ packed[i] \in Nat
    BY <1>1, TargetPacked DEF IInv
  <1>4. packed[i] <= before[i]
    BY <1>1 DEF IInv, Progress
  <1>5. ASSUME NEW q \in Byte, q < len[i]
        PROVE  /\ before[i] + q \in Byte /\ packed[i] + q \in Byte
               /\ data[before[i] + q] = Original[before[i] + q]
    <2>1. before[i] + len[i] <= FileDataLen
      BY <1>1, <1>2, <1>5 DEF IInv, Start, Layout, Byte
    <2>2. dir[i] = before[i]
      BY <1>1, <1>2, <2>1 DEF IInv, Progress, fresh
    <2>3. i \notin Moving
      BY DEF Moving
    <2>4. data[before[i] + q] = Original[before[i] + q]
      BY <1>1, <1>5, <2>2, <2>3 DEF IInv, OthersSurvive
    <2> QED BY <1>2, <1>3, <1>4, <1>5, <2>1, <2>4 DEF Byte
  <1> QED BY <1>1, <1>2, <1>3, <1>4, <1>5

(* A write to the place of file i, done or torn, leaves the others alone. *)
LEMMA MoveKeepsOthers ==
  ASSUME IInv, pc = "loop", Behind, UNCHANGED <<rigid, off, dir, i>>,
         pc' \in {"moved", "killed"},
         \A p \in Byte : ~ (packed[i] <= p /\ p < packed[i] + len[i]) => data'[p] = data[p]
  PROVE  OthersSurvive'
  <1>1. i \in File /\ Moving = {} /\ Moving' = {i}
    BY BehindGap DEF Moving
  <1>2. ASSUME NEW k \in File, k # i
        PROVE  \A q \in Byte :
           q < len[k] => dir'[k] + q \in Byte /\ data'[dir'[k] + q] = Original[before'[k] + q]
    <2>1. \A p \in Byte : dir[k] <= p /\ p < dir[k] + len[k] => data'[p] = data[p]
      BY <1>1, <1>2, OthersElsewhere
    <2> QED BY <1>1, <2>1, WriteElsewhere
  <1> QED BY <1>1, <1>2 DEF OthersSurvive, rigid, File, Byte

(* The move puts the bytes of file i at their new place. *)
LEMMA MoveStep == IInv /\ repack_move => IInv'
  <1> SUFFICES ASSUME IInv, repack_move PROVE IInv'
    OBVIOUS
  <1> USE Constants
  <1>1. pc = "loop" /\ Behind /\ pc' = "moved" /\ UNCHANGED <<rigid, off, dir, i>>
    BY DEF repack_move
  <1>2. /\ i \in File /\ off[i] = before[i] /\ before[i] \in Nat /\ len[i] \in Nat
        /\ target(i) = packed[i] /\ packed[i] \in Nat
    BY <1>1, BehindGap
  <1>3. \A p \in Byte : data'[p] = IF packed[i] <= p /\ p < packed[i] + len[i]
                                   THEN data[before[i] + (p - packed[i])] ELSE data[p]
    <2> SUFFICES ASSUME NEW p \in Byte
                 PROVE  data'[p] = IF packed[i] <= p /\ p < packed[i] + len[i]
                                   THEN data[before[i] + (p - packed[i])] ELSE data[p]
      OBVIOUS
    <2>1. data'[p] = IF p \in packed[i] .. packed[i] + len[i] - 1
                     THEN bytes_at(before[i], len[i])[p - packed[i]] ELSE data[p]
      BY <1>2 DEF repack_move, copied
    <2>2. p \in packed[i] .. packed[i] + len[i] - 1 <=> packed[i] <= p /\ p < packed[i] + len[i]
      BY <1>2 DEF Byte
    <2>3. p \in packed[i] .. packed[i] + len[i] - 1 => p - packed[i] \in 0 .. len[i] - 1
      BY <1>2 DEF Byte
    <2> QED BY <2>1, <2>2, <2>3 DEF bytes_at
  <1>4. Start' /\ Progress' /\ Finished'
    BY <1>1, StartStays DEF IInv, Progress, Finished, AfterLoop, rigid, fresh, File
  <1>5. ASSUME NEW q \in Byte, q < len[i]
        PROVE  packed[i] + q \in Byte /\ data'[packed[i] + q] = Original[before[i] + q]
    <2>1. packed[i] + q \in Byte /\ data[before[i] + q] = Original[before[i] + q]
      BY <1>1, <1>5, BehindGap
    <2>2. packed[i] <= packed[i] + q /\ packed[i] + q < packed[i] + len[i]
      BY <1>2, <1>5 DEF Byte
    <2>3. ASSUME NEW p \in Byte, p = packed[i] + q
          PROVE  data'[p] = data[before[i] + q]
      <3>1. data'[p] = data[before[i] + (p - packed[i])]
        BY <1>3, <2>2, <2>3
      <3>2. p - packed[i] = q
        BY <1>2, <2>3 DEF Byte
      <3> QED BY <3>1, <3>2
    <2> QED BY <2>1, <2>3
  <1>6. Moved'
    BY <1>1, <1>2, <1>5 DEF Moved, rigid, File, Byte
  <1>7. OthersSurvive'
    BY <1>1, <1>3, MoveKeepsOthers
  <1> QED BY <1>4, <1>6, <1>7 DEF IInv

(* The write of the offset completes the move of file i. *)
LEMMA OffsetStep == IInv /\ repack_offset => IInv'
  <1> SUFFICES ASSUME IInv, repack_offset PROVE IInv'
    OBVIOUS
  <1> USE Constants
  <1>1. pc = "moved" /\ pc' = "loop" /\ i' = i + 1 /\ UNCHANGED <<rigid, data>>
    BY DEF repack_offset
  <1>2. i \in File /\ i + 1 \in 0 .. N /\ i \in 0 .. N
    BY <1>1 DEF IInv, Moved, File
  <1>3. target(i) = packed[i] /\ packed[i] \in Nat /\ packed[i] + len[i] = packed[i + 1]
    BY <1>2, TargetPacked DEF IInv
  <1>4. /\ off' = [off EXCEPT ![i] = packed[i]]
        /\ dir' = [dir EXCEPT ![i] = packed[i]]
    BY <1>3 DEF repack_offset
  <1>5. i + 1 < N => packed[i + 1] <= before[i + 1]
    <2> SUFFICES ASSUME i + 1 < N PROVE packed[i + 1] <= before[i + 1]
      OBVIOUS
    <2>1. i + 1 \in File /\ i < N
      BY <1>2 DEF File
    <2>2. before[i] + len[i] <= before[i + 1] /\ packed[i] <= before[i]
      BY <1>2, <2>1 DEF IInv, Start, Layout, Progress
    <2>3. before[i] \in Nat /\ before[i + 1] \in Nat /\ len[i] \in Nat
      BY <1>2, <2>1 DEF IInv, Start
    <2> QED BY <1>3, <2>2, <2>3
  <1>6. Progress'
    <2>0. \A k \in File : k < i + 1 <=> k < i \/ k = i
      BY <1>2 DEF File
    <2>1. off' = [k \in File |-> IF k < i + 1 THEN packed[k] ELSE before[k]]
      <3>1. off' = [k \in File |-> IF k = i THEN packed[i] ELSE off[k]]
        BY <1>4 DEF IInv, Progress
      <3> QED BY <2>0, <3>1 DEF IInv, Progress
    <2>2. dir' = [k \in File |-> IF k < i + 1 THEN packed[k]
                                 ELSE IF fresh(before[k]) THEN 0 ELSE before[k]]
      <3>1. dir' = [k \in File |-> IF k = i THEN packed[i] ELSE dir[k]]
        BY <1>4 DEF IInv, Progress
      <3> QED BY <2>0, <3>1 DEF IInv, Progress
    <2> QED BY <1>1, <1>2, <1>5, <2>1, <2>2 DEF Progress, rigid, fresh, File
  <1>7. Start' /\ Moved' /\ Finished'
    BY <1>1, StartStays DEF IInv, Moved, Finished, AfterLoop
  <1>8. ASSUME NEW k \in File, NEW q \in Byte, q < len[k]
        PROVE  dir'[k] + q \in Byte /\ data[dir'[k] + q] = Original[before[k] + q]
    <2>1. CASE k = i
      <3>1. dir'[k] = packed[i]
        BY <1>2, <1>4, <2>1 DEF IInv, Progress
      <3>2. packed[i] + q \in Byte /\ data[packed[i] + q] = Original[before[i] + q]
        BY <1>1, <1>8, <2>1 DEF IInv, Moved
      <3> QED BY <2>1, <3>1, <3>2
    <2>2. CASE k # i
      <3>1. dir'[k] = dir[k]
        BY <1>4, <2>2 DEF IInv, Progress
      <3>2. k \notin Moving
        BY <1>1, <2>2 DEF Moving
      <3> QED BY <1>8, <3>1, <3>2 DEF IInv, OthersSurvive
    <2> QED BY <2>1, <2>2
  <1>9. OthersSurvive'
    BY <1>1, <1>8 DEF OthersSurvive, rigid, File, Byte
  <1> QED BY <1>6, <1>7, <1>9 DEF IInv

(* A file with no gap before it is where the packing has it. *)
LEMMA StayStep == IInv /\ repack_stay => IInv'
  <1> SUFFICES ASSUME IInv, repack_stay PROVE IInv'
    OBVIOUS
  <1> USE Constants
  <1>1. /\ pc = "loop" /\ pc' = "loop" /\ i' = i + 1 /\ UNCHANGED <<rigid, off, dir, data>>
        /\ ~ AtEnd /\ off[i] <= target(i)
    <2>1. ~ AtEnd /\ ~ Behind /\ i \in File
      BY DEF repack_stay, IInv, Progress, AtEnd, File
    <2>2. off[i] \in Nat /\ target(i) \in Nat
      <3>1. off[i] = before[i] /\ before[i] \in Nat
        BY <2>1 DEF IInv, Progress, Start
      <3> QED BY <2>1, <3>1, TargetPacked DEF IInv
    <2> QED BY <2>1, <2>2 DEF repack_stay, Behind
  <1>2. i \in File /\ i + 1 \in 0 .. N /\ i \in 0 .. N /\ i < N
    BY <1>1 DEF IInv, Progress, AtEnd, File
  <1>3. target(i) = packed[i] /\ packed[i] \in Nat /\ packed[i] + len[i] = packed[i + 1]
    BY <1>2, TargetPacked DEF IInv
  <1>4. off[i] = before[i] /\ before[i] \in Nat /\ len[i] \in Nat /\ packed[i] <= before[i]
    BY <1>2 DEF IInv, Start, Progress
  <1>5. before[i] = packed[i]
    BY <1>1, <1>3, <1>4
  <1>6. ~ fresh(before[i])
    <2>1. CASE i = 0
      <3>1. packed[0] = 0
        BY DEF IInv, Start
      <3> QED BY <1>5, <2>1, <3>1 DEF fresh
    <2>2. CASE i # 0
      BY <1>1, <1>2, <1>4, <2>2 DEF AtEnd, File
    <2> QED BY <2>1, <2>2
  <1>7. i + 1 < N => packed[i + 1] <= before[i + 1]
    <2> SUFFICES ASSUME i + 1 < N PROVE packed[i + 1] <= before[i + 1]
      OBVIOUS
    <2>1. i + 1 \in File
      BY <1>2 DEF File
    <2>2. before[i] + len[i] <= before[i + 1]
      BY <1>2, <2>1 DEF IInv, Start, Layout
    <2> QED BY <1>3, <1>5, <2>2
  <1>8. Progress'
    <2>1. off = [k \in File |-> IF k < i + 1 THEN packed[k] ELSE before[k]]
      BY <1>2, <1>5 DEF IInv, Progress, File
    <2>2. dir = [k \in File |-> IF k < i + 1 THEN packed[k]
                                ELSE IF fresh(before[k]) THEN 0 ELSE before[k]]
      BY <1>2, <1>5, <1>6 DEF IInv, Progress, File
    <2> QED BY <1>1, <1>2, <1>7, <2>1, <2>2 DEF Progress, rigid, fresh, File
  <1>9. Start' /\ Moved' /\ Finished'
    BY <1>1, StartStays DEF IInv, Moved, Finished, AfterLoop
  <1>10. OthersSurvive'
    BY <1>1 DEF IInv, OthersSurvive, Moving, rigid, File, Byte
  <1> QED BY <1>8, <1>9, <1>10 DEF IInv

(* The files that the loop does not come to are empty. *)
LEMMA RestEmpty ==
  ASSUME IInv, AtEnd, NEW k \in File, k >= i
  PROVE  len[k] = 0
  <1> USE Constants
  <1>1. len[k] \in Nat /\ before[k] \in Nat /\ k \in 0 .. N /\ k + 1 \in 0 .. N
    BY DEF IInv, Start, File
  <1>2. CASE used <= 0
    <2>1. packed[k] \in Nat /\ packed[k + 1] \in Nat /\ packed[N] \in Nat /\ old.length \in Nat
      BY <1>1 DEF IInv, Start
    <2>2. packed[k + 1] = packed[k] + len[k] /\ packed[k + 1] <= packed[N]
            /\ used = packed[N] + old.length
      BY <1>1 DEF IInv, Start
    <2> QED BY <1>1, <1>2, <2>1, <2>2
  <1>3. CASE i = N
    BY <1>3 DEF File
  <1>4. CASE i \in 1 .. N - 1 /\ fresh(off[i])
    <2>1. i \in File /\ off[i] = before[i] /\ before[i] \in Nat /\ len[i] \in Nat
      BY <1>4 DEF IInv, Start, Progress, File
    <2>2. i # k => before[i] + len[i] <= before[k]
      BY <2>1 DEF IInv, Start, Layout, File
    <2>3. before[k] >= MAX_FILE_DATA_LEN
      BY <1>1, <1>4, <2>1, <2>2 DEF fresh
    <2> QED BY <1>1, <2>3 DEF IInv, Start, Layout
  <1> QED BY <1>2, <1>3, <1>4 DEF AtEnd

(* A kill in a write of the caller leaves what is below new_offset. *)
LEMMA KillStep == IInv /\ kill => IInv'
  <1> SUFFICES ASSUME IInv, kill PROVE IInv'
    OBVIOUS
  <1> USE Constants
  <1>1. pc # "killed" /\ pc' = "killed" /\ UNCHANGED <<rigid, off, dir, i>>
    BY DEF kill
  <1>2. PICK torn \in SUBSET Byte :
          \/ torn = {} /\ data' = data
          \/ /\ pc = "loop" /\ Behind
             /\ torn \subseteq target(i) .. target(i) + len[i] - 1
             /\ data' = [p \in Byte |-> IF p \in torn THEN data[off[i] + p - target(i)] ELSE data[p]]
          \/ /\ pc = "paste" /\ torn \subseteq new_offset .. new_offset + keep - 1
             /\ data' = [p \in Byte |-> IF p \in torn THEN temp[p - new_offset] ELSE data[p]]
          \/ /\ pc = "fill" /\ torn \subseteq new_offset + keep .. new_offset + length - 1
             /\ data' = [p \in Byte |-> IF p \in torn THEN added[p - new_offset - keep] ELSE data[p]]
    BY DEF kill
  <1>3. CASE data' = data
    <2>1. UNCHANGED <<rigid, off, dir, data, i>>
      BY <1>1, <1>3
    <2>2. pc' # "moved" /\ pc' \in {"copy", "loop", "killed"} /\ pc' \notin AfterLoop
      BY <1>1 DEF AfterLoop
    <2> QED BY <1>1, <2>1, <2>2, QuietStep
  <1>4. CASE /\ pc = "loop" /\ Behind
             /\ torn \subseteq target(i) .. target(i) + len[i] - 1
             /\ data' = [p \in Byte |-> IF p \in torn THEN data[off[i] + p - target(i)] ELSE data[p]]
    <2>1. /\ target(i) = packed[i] /\ packed[i] \in Nat /\ len[i] \in Nat
      BY <1>4, BehindGap
    <2>2. ASSUME NEW p \in Byte, ~ (packed[i] <= p /\ p < packed[i] + len[i])
          PROVE  data'[p] = data[p]
      <3>1. p \notin torn
        BY <1>4, <2>1, <2>2 DEF Byte
      <3> QED BY <1>4, <3>1
    <2>3. OthersSurvive'
      BY <1>1, <1>4, <2>2, MoveKeepsOthers
    <2>4. Start' /\ Progress' /\ Moved' /\ Finished'
      BY <1>1, StartStays DEF IInv, Progress, Moved, Finished, AfterLoop, rigid, fresh, File
    <2> QED BY <2>3, <2>4 DEF IInv
  <1>5. new_offset \in Int /\ keep \in Nat
    BY DEF IInv, Start, new_offset
  <1>6. CASE /\ pc = "paste" /\ torn \subseteq new_offset .. new_offset + keep - 1
             /\ data' = [p \in Byte |-> IF p \in torn THEN temp[p - new_offset] ELSE data[p]]
    <2>1. \A p \in Byte : p < new_offset => data'[p] = data[p]
      BY <1>5, <1>6 DEF Byte
    <2> QED BY <1>1, <1>6, <2>1, WriteBehind DEF AfterLoop
  <1>7. CASE /\ pc = "fill" /\ torn \subseteq new_offset + keep .. new_offset + length - 1
             /\ data' = [p \in Byte |-> IF p \in torn THEN added[p - new_offset - keep] ELSE data[p]]
    <2>1. \A p \in Byte : p < new_offset => data'[p] = data[p]
      BY <1>5, <1>7 DEF Byte
    <2> QED BY <1>1, <1>7, <2>1, WriteBehind DEF AfterLoop
  <1> QED BY <1>2, <1>3, <1>4, <1>6, <1>7

(* The steps of the caller before and after the loop. *)
LEMMA CallerStep ==
  IInv /\ (copy \/ repack_return \/ paste \/ write_name \/ update_dir_offset
             \/ update_dir_length \/ fill) => IInv'
  <1> SUFFICES ASSUME IInv PROVE (copy \/ repack_return \/ paste \/ write_name
                \/ update_dir_offset \/ update_dir_length \/ fill) => IInv'
    OBVIOUS
  <1> USE Constants
  <1>0. new_offset \in Nat /\ keep \in Nat /\ length \in Nat
    <2>1. packed[N] \in Nat /\ old.length \in Nat /\ used = packed[N] + old.length
      BY DEF IInv, Start
    <2> QED BY <2>1 DEF IInv, Start, new_offset
  <1>1. ASSUME copy PROVE IInv'
    <2>1. pc = "copy" /\ pc' = "loop" /\ UNCHANGED <<rigid, off, dir, data, i>>
      BY <1>1 DEF copy
    <2>2. /\ pc' # "moved" /\ pc # "moved" /\ pc # "killed"
          /\ pc' \in {"copy", "loop", "killed"} /\ pc' \notin AfterLoop
      BY <2>1 DEF AfterLoop
    <2> QED BY <2>1, <2>2, QuietStep
  <1>2. ASSUME repack_return PROVE IInv'
    <2>1. \A k \in File : k >= i => len[k] = 0
      BY <1>2, RestEmpty DEF repack_return
    <2>2. pc' \in AfterLoop
      BY <1>2 DEF repack_return, AfterLoop
    <2> QED BY <1>2, <2>1, <2>2, QuietStep DEF repack_return, AfterLoop
  <1>3. ASSUME paste PROVE IInv'
    <2>1. pc \in AfterLoop /\ pc' \in AfterLoop /\ UNCHANGED <<rigid, off, dir, i>>
      BY <1>3 DEF paste, AfterLoop
    <2>2. \A p \in Byte : p < new_offset => data'[p] = data[p]
      BY <1>0, <1>3, <2>1 DEF paste, copied, Byte
    <2> QED BY <2>1, <2>2, WriteBehind
  <1>4. ASSUME write_name \/ update_dir_offset \/ update_dir_length PROVE IInv'
    <2>1. pc \in AfterLoop /\ pc' \in AfterLoop /\ UNCHANGED <<rigid, off, dir, data, i>>
      BY <1>4 DEF write_name, update_dir_offset, update_dir_length, AfterLoop
    <2> QED BY <2>1, WriteBehind
  <1>5. ASSUME fill PROVE IInv'
    <2>1. pc \in AfterLoop /\ pc' \in AfterLoop /\ UNCHANGED <<rigid, off, dir, i>>
      BY <1>5 DEF fill, AfterLoop
    <2>2. \A p \in Byte : p < new_offset => data'[p] = data[p]
      BY <1>0, <1>5, <2>1 DEF fill, copied, Byte
    <2> QED BY <2>1, <2>2, WriteBehind
  <1> QED BY <1>1, <1>2, <1>3, <1>4, <1>5

(* Every step of the call keeps the invariant. *)
LEMMA NextIInv == IInv /\ [Next]_vars => IInv'
  <1> SUFFICES ASSUME IInv, [Next]_vars PROVE IInv'
    OBVIOUS
  <1>1. CASE UNCHANGED vars
    <2>1. UNCHANGED <<rigid, off, dir, data, i, pc>>
      BY <1>1 DEF vars
    <2>2. Start' /\ Progress'
      BY <2>1, StartStays DEF IInv, Progress, rigid, fresh, File
    <2>3. Moved' /\ Finished'
      BY <2>1 DEF IInv, Moved, Finished, AfterLoop, rigid, File
    <2>4. OthersSurvive'
      BY <2>1 DEF IInv, OthersSurvive, Moving, rigid, File, Byte
    <2> QED BY <2>2, <2>3, <2>4 DEF IInv
  <1> QED
    BY <1>1, MoveStep, OffsetStep, StayStep, CallerStep, KillStep DEF Next

----------------------------------------------------------------------------
(* The invariant of a call that repacks, at every step and every kill. *)
THEOREM RelocationInv == Spec => []IInv
  BY InitIInv, NextIInv, PTL DEF Spec

(* Whenever the process is killed in a call that repacks
   (myfilesystem.c:448), each file of the array but the one being moved has
   all its bytes at the offset that dir_table gives. *)
THEOREM OthersAlwaysSurvive == Spec => []OthersSurvive
  <1>1. IInv => OthersSurvive
    BY DEF IInv
  <1> QED BY <1>1, RelocationInv, PTL

(* The caller writes its file behind all others, and within file_data
   (myfilesystem.c:370, :237). *)
THEOREM RoomAlwaysBehind == Spec => []RoomBehind
  <1>1. ASSUME IInv, pc \notin {"copy", "loop", "moved", "killed"}, call # "repack"
        PROVE  /\ \A k \in File : len[k] > 0 => off[k] + len[k] <= new_offset
               /\ new_offset + length <= FileDataLen
    <2>1. pc \in AfterLoop
      BY <1>1 DEF IInv, Finished
    <2>2. \A k \in File : len[k] > 0 => off[k] + len[k] <= new_offset
      BY <1>1, <2>1, EndsBelow
    <2> QED BY <1>1, <2>2 DEF IInv, Start
  <1>2. IInv => RoomBehind
    BY <1>1 DEF RoomBehind
  <1> QED BY <1>2, RelocationInv, PTL

----------------------------------------------------------------------------
(* What the loop returns for the hashes *)

(* A file that the loop has passed is behind the first byte modified, or
   has not moved; nothing before the next place is modified. *)
HashInv ==
  /\ hash_offset = -1 \/ (hash_offset \in Nat /\ hash_offset <= packed[i])
  /\ \A k \in File : k < i /\ len[k] > 0 =>
       \/ hash_offset >= 0 /\ packed[k] >= hash_offset
       \/ packed[k] = before[k]

(* Only the write of an offset says that bytes were modified. *)
LEMMA HashOffsetStep == IInv /\ HashInv /\ repack_offset => HashInv'
  <1> SUFFICES ASSUME IInv, HashInv, repack_offset PROVE HashInv'
    OBVIOUS
  <1> USE Constants
  <1>1. /\ pc = "moved" /\ i' = i + 1 /\ UNCHANGED rigid
        /\ hash_offset' = IF hash_offset < 0 /\ len[i] > 0 THEN target(i) ELSE hash_offset
    BY DEF repack_offset
  <1>2. i \in File /\ i \in 0 .. N /\ i + 1 \in 0 .. N
    BY <1>1 DEF IInv, Moved, File
  <1>3. target(i) = packed[i] /\ packed[i] + len[i] = packed[i + 1]
    BY <1>2, TargetPacked DEF IInv
  <1>4. /\ \A k \in 0 .. N : packed[k] \in Nat
        /\ \A k \in File : len[k] \in Nat /\ before[k] \in Nat /\ k \in 0 .. N
    BY DEF IInv, Start, File
  <1>5. packed[i] \in Nat /\ len[i] \in Nat /\ packed[i + 1] \in Nat
    BY <1>2, <1>4
  <1>6. hash_offset' = -1 \/ (hash_offset' \in Nat /\ hash_offset' <= packed[i + 1])
    BY <1>1, <1>3, <1>5 DEF HashInv
  <1>7. ASSUME NEW k \in File, k < i + 1, len[k] > 0
        PROVE  \/ hash_offset' >= 0 /\ packed[k] >= hash_offset'
               \/ packed[k] = before[k]
    <2>1. CASE k = i
      BY <1>1, <1>3, <1>5, <1>7, <2>1 DEF HashInv
    <2>2. CASE k # i
      <3>1. k < i /\ packed[k] \in Nat
        BY <1>2, <1>4, <1>7, <2>2 DEF File
      <3>2. \/ hash_offset >= 0 /\ packed[k] >= hash_offset
            \/ packed[k] = before[k]
        BY <1>7, <3>1 DEF HashInv
      <3>3. hash_offset >= 0 => hash_offset' = hash_offset
        BY <1>1 DEF HashInv
      <3> QED BY <3>2, <3>3
    <2> QED BY <2>1, <2>2
  <1> QED BY <1>1, <1>6, <1>7 DEF HashInv, rigid, File

(* A file that stays is where the packing has it. *)
LEMMA HashStayStep == IInv /\ HashInv /\ repack_stay => HashInv'
  <1> SUFFICES ASSUME IInv, HashInv, repack_stay PROVE HashInv'
    OBVIOUS
  <1> USE Constants
  <1>1. /\ i' = i + 1 /\ UNCHANGED <<rigid, hash_offset>> /\ ~ AtEnd /\ ~ Behind
    BY DEF repack_stay
  <1>2. i \in File /\ i \in 0 .. N /\ i + 1 \in 0 .. N /\ i < N
    BY <1>1 DEF IInv, Progress, AtEnd, File
  <1>3. target(i) = packed[i] /\ packed[i] + len[i] = packed[i + 1]
    BY <1>2, TargetPacked DEF IInv
  <1>4. /\ packed[i] \in Nat /\ len[i] \in Nat /\ packed[i + 1] \in Nat /\ before[i] \in Nat
        /\ off[i] = before[i] /\ packed[i] <= before[i]
    BY <1>2 DEF IInv, Start, Progress
  <1>5. packed[i] = before[i]
    BY <1>1, <1>3, <1>4 DEF Behind
  <1>6. hash_offset = -1 \/ (hash_offset \in Nat /\ hash_offset <= packed[i + 1])
    BY <1>3, <1>4 DEF HashInv
  <1>7. \A k \in File : k < i + 1 => k < i \/ k = i
    BY <1>2 DEF File
  <1> QED BY <1>1, <1>5, <1>6, <1>7 DEF HashInv, rigid, File

(* No other step moves a file or says so. *)
LEMMA HashInvStep == IInv /\ HashInv /\ [Next]_vars => HashInv'
  <1> SUFFICES ASSUME IInv, HashInv, [Next]_vars PROVE HashInv'
    OBVIOUS
  <1>1. UNCHANGED <<rigid, hash_offset, i>> => HashInv'
    BY DEF HashInv, rigid, File
  <1>2. repack_offset \/ repack_stay \/ UNCHANGED <<rigid, hash_offset, i>>
    BY DEF Next, vars, copy, repack_move, repack_return, paste, write_name,
         update_dir_offset, update_dir_length, fill, kill
  <1> QED BY <1>1, <1>2, HashOffsetStep, HashStayStep

(* The first byte to rehash that repack_helper returns is before every byte
   of a file that is not where it was: a rehash from there on misses none. *)
THEOREM RehashAlwaysCovers == Spec => []RehashCovers
  <1> USE Constants
  <1>1. Init => HashInv
    <2> SUFFICES ASSUME Init PROVE HashInv
      OBVIOUS
    <2>1. hash_offset = -1 /\ i = 0
      BY DEF Init
    <2> QED BY <2>1 DEF HashInv, File
  <1>2. ASSUME IInv, HashInv, pc = "done", NEW k \in File, NEW q \in Byte, q < len[k]
        PROVE  \/ hash_offset >= 0 /\ off[k] + q >= hash_offset
               \/ off[k] = before[k] /\ data[off[k] + q] = Original[off[k] + q]
    <2>0. k \in 0 .. N /\ k \in Int
      BY DEF File
    <2>1. len[k] \in Nat /\ packed[k] \in Nat /\ k \in 0 .. N /\ i \in Int
      BY <1>2, <2>0 DEF IInv, Start, Progress
    <2>2. len[k] > 0
      BY <1>2, <2>1 DEF Byte
    <2>3. k < i
      BY <1>2, <2>0, <2>1, <2>2 DEF IInv, Finished, AfterLoop
    <2>4. dir[k] = packed[k] /\ off[k] = packed[k]
      BY <1>2, <2>3 DEF IInv, Progress
    <2>5. k \notin Moving
      BY <1>2 DEF Moving
    <2>6. data[dir[k] + q] = Original[before[k] + q]
      BY <1>2, <2>5 DEF IInv, OthersSurvive
    <2>7. \/ hash_offset >= 0 /\ packed[k] >= hash_offset
          \/ packed[k] = before[k]
      BY <1>2, <2>2, <2>3 DEF HashInv
    <2>8. hash_offset >= 0 => hash_offset \in Nat
      BY <1>2 DEF HashInv
    <2> QED BY <2>1, <2>4, <2>6, <2>7, <2>8 DEF Byte
  <1>3. IInv /\ HashInv => RehashCovers
    BY <1>2 DEF RehashCovers
  <1> QED BY <1>1, <1>3, HashInvStep, RelocationInv, PTL DEF Spec

----------------------------------------------------------------------------
(* What the caller writes *)

(* The bytes of the file of the call that were to keep. *)
Saved(buf, from) == \A q \in 0 .. keep - 1 : buf[from + q] = Original[old.offset + q]

CallKind ==
  /\ call \in {"repack", "resize", "write", "create"}
  /\ call # "repack" => keep <= length
  /\ fresh(old.offset) => keep = 0
  /\ call = "create" => fresh(old.offset)
  /\ pc \in {"copy", "paste"} => ~ fresh(old.offset)
  /\ pc = "name" => call = "create"
  /\ pc \in {"paste", "offset", "length", "fill"} => call # "repack"

(* They are in the file, then in the buffer, then in their new place. *)
SavedInv ==
  /\ pc = "copy" => Saved(data, old.offset)
  /\ pc \in {"loop", "moved", "paste"} => Saved(temp, 0)
  /\ pc \in {"offset", "length", "fill", "done"} /\ call # "repack" => Saved(data, new_offset)

(* What dir_table says of the file follows. *)
OwnInv ==
  /\ own = [named |-> own.named, offset |-> own.offset, length |-> own.length]
  /\ call \in {"resize", "write"} => own.named = TRUE
  /\ call = "create" /\ pc \in {"offset", "length", "fill", "done"} => own.named = TRUE
  /\ pc \in {"length", "fill", "done"} /\ call # "repack" => own.offset = new_offset
  /\ pc \in {"fill", "done"} /\ call # "repack" => own.length = length

FilledInv ==
  pc = "done" /\ call # "repack" =>
    \A q \in keep .. length - 1 : data[new_offset + q] = added[q - keep]

CallerInv == CallKind /\ SavedInv /\ OwnInv /\ FilledInv

(* A call that grows a file with data finds this data in file_data. *)
LEMMA CallerInit == Init => CallerInv
  <1> SUFFICES ASSUME Init PROVE CallerInv
    OBVIOUS
  <1> USE Constants
  <1>1. /\ pc = IF fresh(old.offset) THEN "loop" ELSE "copy"
        /\ data = Original /\ length \in Nat
        /\ old \in [offset : 0 .. FileDataLen, length : 0 .. FileDataLen] \cup {Empty}
        /\ own = [named |-> call \in {"resize", "write"}, length |-> old.length,
                  offset |-> IF fresh(old.offset) THEN 0 ELSE old.offset]
    BY RelocationAssumption DEF Init
  <1>2. old.length \in Nat /\ (old = Empty <=> fresh(old.offset)) /\ fresh(MAX_FILE_DATA_LEN)
    BY <1>1 DEF Empty, fresh
  <1>3. old = Empty => old.length = 0
    BY DEF Empty
  <1>4. CallKind
    <2>1. CASE call = "repack" /\ old = Empty /\ length = 0 /\ keep = 0
      BY <1>1, <1>2, <2>1 DEF CallKind
    <2>2. CASE call = "create" /\ CreationRepacks /\ keep = 0
      BY <1>1, <1>2, <2>2 DEF CallKind, CreationRepacks
    <2>3. CASE call = "resize" /\ GrowthRepacks /\ keep = old.length
      BY <1>1, <1>2, <1>3, <2>3 DEF CallKind, GrowthRepacks
    <2>4. CASE call = "write" /\ GrowthRepacks /\ keep \in 0 .. old.length
      BY <1>1, <1>2, <1>3, <2>4 DEF CallKind, GrowthRepacks
    <2> QED BY <2>1, <2>2, <2>3, <2>4 DEF Init, InitCall
  <1>5. SavedInv
    <2>1. CASE fresh(old.offset)
      BY <1>1, <1>4, <2>1 DEF SavedInv, CallKind, Saved
    <2>2. CASE ~ fresh(old.offset)
      BY <1>1, <2>2 DEF SavedInv, Saved
    <2> QED BY <2>1, <2>2
  <1>6. OwnInv /\ FilledInv
    BY <1>1 DEF OwnInv, FilledInv
  <1> QED BY <1>4, <1>5, <1>6 DEF CallerInv

(* The sizes that the caller's writes rely on. *)
LEMMA CallerSizes ==
  ASSUME IInv, CallKind, call # "repack"
  PROVE  /\ new_offset \in Nat /\ keep \in Nat /\ length \in Nat /\ keep <= length
         /\ \A q \in 0 .. length - 1 : new_offset + q \in Byte
  <1> USE Constants
  <1>1. packed[N] \in Nat /\ old.length \in Nat /\ used = packed[N] + old.length
    BY DEF IInv, Start
  <1>2. new_offset \in Nat
    BY <1>1 DEF new_offset
  <1>3. new_offset + length <= FileDataLen /\ keep \in Nat /\ length \in Nat /\ keep <= length
    BY DEF IInv, Start, CallKind
  <1> QED BY <1>2, <1>3 DEF Byte

(* The bytes to keep go through the buffer to the new place. *)
LEMMA PasteSaves == IInv /\ CallerInv /\ paste => CallerInv'
  <1> SUFFICES ASSUME IInv, CallerInv, paste PROVE CallerInv'
    OBVIOUS
  <1>1. /\ pc = "paste" /\ pc' = "offset" /\ data' = copied(new_offset, temp, keep)
        /\ UNCHANGED <<rigid, own>>
    BY DEF paste
  <1>2. call # "repack" /\ CallKind
    BY <1>1 DEF CallerInv, CallKind
  <1>3. /\ new_offset \in Nat /\ keep \in Nat /\ length \in Nat /\ keep <= length
        /\ \A q \in 0 .. length - 1 : new_offset + q \in Byte
    BY <1>2, CallerSizes
  <1>4. ASSUME NEW q \in 0 .. keep - 1 PROVE data'[new_offset + q] = Original[old.offset + q]
    <2>1. new_offset + q \in Byte /\ new_offset + q \in new_offset .. new_offset + keep - 1
          /\ (new_offset + q) - new_offset = q /\ 0 + q = q
      BY <1>3
    <2>2. ASSUME NEW p \in Byte, p = new_offset + q PROVE data'[p] = temp[q]
      BY <1>1, <2>1, <2>2 DEF copied
    <2>3. temp[q] = Original[old.offset + q]
      BY <1>1, <2>1 DEF CallerInv, SavedInv, Saved
    <2> QED BY <2>1, <2>2, <2>3
  <1>5. new_offset' = new_offset
    BY <1>1 DEF rigid, new_offset
  <1>6. SavedInv'
    BY <1>1, <1>4, <1>5 DEF SavedInv, Saved, rigid
  <1>7. CallKind' /\ OwnInv' /\ FilledInv'
    BY <1>1, <1>5 DEF CallerInv, CallKind, OwnInv, FilledInv, rigid, fresh
  <1> QED BY <1>6, <1>7 DEF CallerInv

(* The bytes added go behind those kept. *)
LEMMA FillAdds == IInv /\ CallerInv /\ fill => CallerInv'
  <1> SUFFICES ASSUME IInv, CallerInv, fill PROVE CallerInv'
    OBVIOUS
  <1>1. /\ pc = "fill" /\ pc' = "done"
        /\ data' = copied(new_offset + keep, added, length - keep)
        /\ UNCHANGED <<rigid, own>>
    BY DEF fill
  <1>2. call # "repack" /\ CallKind
    BY <1>1 DEF CallerInv, CallKind
  <1>3. /\ new_offset \in Nat /\ keep \in Nat /\ length \in Nat /\ keep <= length
        /\ \A q \in 0 .. length - 1 : new_offset + q \in Byte
    BY <1>2, CallerSizes
  <1>4. new_offset' = new_offset /\ added' = added
    BY <1>1 DEF rigid, new_offset, added
  <1>5. ASSUME NEW q \in 0 .. keep - 1 PROVE data'[new_offset + q] = Original[old.offset + q]
    <2>1. /\ new_offset + q \in Byte
          /\ new_offset + q \notin new_offset + keep .. new_offset + keep + (length - keep) - 1
      BY <1>3
    <2>2. ASSUME NEW p \in Byte, p = new_offset + q PROVE data'[p] = data[p]
      BY <1>1, <2>1, <2>2 DEF copied
    <2>3. data[new_offset + q] = Original[old.offset + q]
      BY <1>1, <1>2 DEF CallerInv, SavedInv, Saved
    <2> QED BY <2>1, <2>2, <2>3
  <1>6. ASSUME NEW q \in keep .. length - 1 PROVE data'[new_offset + q] = added[q - keep]
    <2>1. /\ new_offset + q \in Byte
          /\ new_offset + q \in new_offset + keep .. new_offset + keep + (length - keep) - 1
          /\ (new_offset + q) - (new_offset + keep) = q - keep
      BY <1>3
    <2>2. ASSUME NEW p \in Byte, p = new_offset + q PROVE data'[p] = added[q - keep]
      BY <1>1, <2>1, <2>2 DEF copied
    <2> QED BY <2>1, <2>2
  <1>7. SavedInv'
    BY <1>1, <1>4, <1>5 DEF SavedInv, Saved, rigid
  <1>8. FilledInv'
    BY <1>1, <1>4, <1>6 DEF FilledInv, rigid
  <1>9. CallKind' /\ OwnInv'
    BY <1>1, <1>4 DEF CallerInv, CallKind, OwnInv, rigid, fresh
  <1> QED BY <1>7, <1>8, <1>9 DEF CallerInv

(* Every step of the call keeps what the caller relies on. *)
LEMMA CallerInvStep == IInv /\ CallerInv /\ [Next]_vars => CallerInv'
  <1> SUFFICES ASSUME IInv, CallerInv, [Next]_vars PROVE CallerInv'
    OBVIOUS
  <1>1. CASE copy
    <2>1. /\ pc = "copy" /\ pc' = "loop" /\ temp' = bytes_at(old.offset, keep)
          /\ UNCHANGED <<rigid, own>>
      BY <1>1 DEF copy
    <2>2. ASSUME NEW q \in 0 .. keep - 1 PROVE temp'[0 + q] = Original[old.offset + q]
      <3>1. 0 + q = q
        OBVIOUS
      <3> QED BY <2>1, <3>1 DEF bytes_at, CallerInv, SavedInv, Saved
    <2>3. SavedInv'
      BY <2>1, <2>2 DEF SavedInv, Saved, rigid
    <2> QED BY <2>1, <2>3 DEF CallerInv, CallKind, OwnInv, FilledInv, rigid, fresh
  <1>2. CASE repack_move \/ repack_offset \/ repack_stay
    <2>1. /\ pc \in {"loop", "moved"} /\ pc' \in {"loop", "moved"} /\ UNCHANGED <<rigid, own, temp>>
      BY <1>2 DEF repack_move, repack_offset, repack_stay
    <2> QED BY <2>1 DEF CallerInv, CallKind, SavedInv, Saved, OwnInv, FilledInv, rigid, fresh
  <1>3. CASE repack_return
    <2>1. /\ pc = "loop" /\ UNCHANGED <<rigid, own, temp, data>>
          /\ \/ call = "repack" /\ pc' = "done"
             \/ call = "create" /\ pc' = "name"
             \/ call \in {"resize", "write"} /\ fresh(old.offset) /\ pc' = "offset"
             \/ call \in {"resize", "write"} /\ ~ fresh(old.offset) /\ pc' = "paste"
      BY <1>3 DEF repack_return, CallerInv, CallKind
    <2>2. CallKind' /\ OwnInv' /\ FilledInv'
      BY <2>1 DEF CallerInv, CallKind, OwnInv, FilledInv, rigid, fresh
    <2>3. SavedInv'
      BY <2>1 DEF CallerInv, CallKind, SavedInv, Saved, rigid
    <2> QED BY <2>2, <2>3 DEF CallerInv
  <1>4. CASE write_name
    <2>1. /\ pc = "name" /\ pc' = "offset" /\ UNCHANGED <<rigid, data>> /\ call = "create" /\ keep = 0
          /\ own' = [named |-> TRUE, offset |-> own.offset, length |-> own.length]
      BY <1>4 DEF write_name, CallerInv, CallKind, OwnInv
    <2>2. SavedInv'
      BY <2>1 DEF SavedInv, Saved, rigid
    <2> QED BY <2>1, <2>2 DEF CallerInv, CallKind, OwnInv, FilledInv, rigid, fresh
  <1>5. CASE update_dir_offset
    <2>1. /\ pc = "offset" /\ pc' = "length" /\ UNCHANGED <<rigid, data>>
          /\ own' = [named |-> own.named, offset |-> new_offset, length |-> own.length]
      BY <1>5 DEF update_dir_offset, CallerInv, OwnInv
    <2>2. new_offset' = new_offset
      BY <2>1 DEF rigid, new_offset
    <2> QED BY <2>1, <2>2 DEF CallerInv, CallKind, SavedInv, Saved, OwnInv, FilledInv, rigid, fresh
  <1>6. CASE update_dir_length
    <2>1. /\ pc = "length" /\ pc' = "fill" /\ UNCHANGED <<rigid, data>>
          /\ own' = [named |-> own.named, offset |-> own.offset, length |-> length]
      BY <1>6 DEF update_dir_length, CallerInv, OwnInv
    <2>2. new_offset' = new_offset
      BY <2>1 DEF rigid, new_offset
    <2> QED BY <2>1, <2>2 DEF CallerInv, CallKind, SavedInv, Saved, OwnInv, FilledInv, rigid, fresh
  <1>7. CASE kill
    <2>1. pc' = "killed" /\ UNCHANGED <<rigid, own>>
      BY <1>7 DEF kill
    <2> QED BY <2>1 DEF CallerInv, CallKind, SavedInv, OwnInv, FilledInv, rigid, fresh
  <1>8. CASE UNCHANGED vars
    <2>1. new_offset' = new_offset /\ added' = added
      BY <1>8 DEF vars, rigid, new_offset, added
    <2> QED BY <1>8, <2>1 DEF CallerInv, CallKind, SavedInv, Saved, OwnInv, FilledInv, vars, rigid, fresh
  <1> QED
    BY <1>1, <1>2, <1>3, <1>4, <1>5, <1>6, <1>7, <1>8, PasteSaves, FillAdds DEF Next

(* A call that grows or creates a file by repacking leaves in dir_table its
   new offset and length, and in file_data the bytes it had to keep and
   those it added (resize_file_helper, write_file). *)
THEOREM GrownAlwaysComplete == Spec => []GrownComplete
  <1>1. ASSUME IInv, CallerInv, pc = "done", call # "repack"
        PROVE  /\ own = [named |-> TRUE, offset |-> new_offset, length |-> length]
               /\ \A q \in 0 .. length - 1 :
                    data[own.offset + q] = IF q < keep THEN Original[old.offset + q]
                                           ELSE added[q - keep]
    <2>1. own = [named |-> TRUE, offset |-> new_offset, length |-> length]
      BY <1>1 DEF CallerInv, CallKind, OwnInv
    <2>2. keep \in Nat /\ length \in Nat
      BY <1>1, CallerSizes DEF CallerInv
    <2>3. ASSUME NEW q \in 0 .. length - 1
          PROVE  data[new_offset + q] = IF q < keep THEN Original[old.offset + q]
                                        ELSE added[q - keep]
      <3>1. CASE q < keep
        <4>1. q \in 0 .. keep - 1
          BY <2>2, <3>1
        <4>2. data[new_offset + q] = Original[old.offset + q]
          BY <1>1, <4>1 DEF CallerInv, SavedInv, Saved
        <4> QED BY <3>1, <4>2
      <3>2. CASE ~ (q < keep)
        <4>1. q \in keep .. length - 1
          BY <2>2, <3>2
        <4>2. data[new_offset + q] = added[q - keep]
          BY <1>1, <4>1 DEF CallerInv, FilledInv
        <4> QED BY <3>2, <4>2
      <3> QED BY <3>1, <3>2
    <2> QED BY <2>1, <2>3
  <1>2. IInv /\ CallerInv => GrownComplete
    BY <1>1 DEF GrownComplete
  <1> QED BY <1>2, CallerInit, CallerInvStep, RelocationInv, PTL DEF Spec

----------------------------------------------------------------------------
(* The loop and the operator of Allocator *)

(* The files of the array as they were before the call. *)
Listed == Entries(before)

(* Where the loop stops: at the end of the array or at the first newly
   created empty file behind another file. *)
Stop == A!Min({N} \cup {k \in 1 .. N - 1 : before[k] >= MAX_FILE_DATA_LEN})

(* One value of the recursion in RepackedOffsets, from the one before it. *)
OffsetBody(new, k, o, files, stop) ==
  IF k = 0 THEN 0
  ELSE IF k >= stop THEN A!OffsetAt(k, o, files)
  ELSE A!Min({A!OffsetAt(k, o, files), new[k - 1] + A!LengthAt(k - 1, o, files)})

LEMMA OffsetsUnfold ==
  ASSUME NEW o, NEW files
  PROVE  A!RepackedOffsets(o, files) =
           CHOOSE new : new = [k \in 0 .. o.size - 1 |->
             OffsetBody(new, k, o, files,
               A!Min({o.size} \cup
                 {m \in 1 .. o.size - 1 : A!OffsetAt(m, o, files) >= MAX_FILE_DATA_LEN}))]
  BY DEF A!RepackedOffsets, OffsetBody

LEMMA LeastIsMin ==
  ASSUME NEW S \in SUBSET Nat, S # {}
  PROVE  A!Min(S) \in S /\ \A x \in S : A!Min(S) <= x
  <1>1. \E x \in S : \A y \in S : x <= y
    BY LeastNatural
  <1> QED BY <1>1 DEF A!Min

LEMMA MinIs ==
  ASSUME NEW S \in SUBSET Nat, NEW x \in S, \A y \in S : x <= y
  PROVE  A!Min(S) = x
  <1>1. PICK m : m = A!Min(S)
    OBVIOUS
  <1>2. m \in S /\ \A y \in S : m <= y
    BY <1>1, LeastIsMin
  <1>3. m \in Nat /\ x \in Nat /\ m <= x /\ x <= m
    BY <1>2
  <1> QED BY <1>1, <1>3

(* The array lists the files in order. *)
LEMMA ListedFiles ==
  /\ Array.size = N
  /\ \A k \in File : /\ Array.list[k] = k /\ Array.pos[k] = k
                     /\ A!OffsetAt(k, Array, Listed) = before[k]
                     /\ A!LengthAt(k, Array, Listed) = len[k]
  BY DEF Array, Listed, Entries, A!OffsetAt, A!LengthAt

(* The packing moves no file up. *)
LEMMA PackedBelow ==
  ASSUME Start
  PROVE  \A k \in File : /\ packed[k] \in Nat /\ before[k] \in Nat /\ len[k] \in Nat
                         /\ packed[k] <= before[k]
  <1> USE Constants
  <1>1. \A k \in File : k \in 0 .. N /\ packed[k] \in Nat /\ before[k] \in Nat /\ len[k] \in Nat
    BY DEF Start, File
  <1> DEFINE Good == {k \in File : packed[k] <= before[k]}
  <1>2. CASE N = 0
    BY <1>2 DEF File
  <1>3. CASE N # 0
    <2>1. 0 \in Good
      BY <1>1, <1>3 DEF File, Start
    <2>2. ASSUME NEW m \in 0 .. (N - 1) - 1, m \in Good PROVE m + 1 \in Good
      <3>1. m \in File /\ m + 1 \in File /\ m < m + 1
        BY DEF File
      <3>2. packed[m + 1] = packed[m] + len[m] /\ before[m] + len[m] <= before[m + 1]
        BY <3>1 DEF Start, Layout
      <3>3. packed[m] <= before[m]
        BY <2>2
      <3>4. packed[m + 1] <= before[m + 1]
        BY <3>1, <3>2, <3>3, <1>1
      <3> QED BY <3>1, <3>4
    <2>3. N - 1 \in Nat
      BY <1>3
    <2> HIDE DEF Good
    <2>4. 0 .. N - 1 \subseteq Good
      BY <2>1, <2>2, <2>3, BoundedInduction
    <2> QED BY <2>4, <1>1 DEF Good, File
  <1> QED BY <1>2, <1>3

LEMMA StopPlace ==
  ASSUME Start
  PROVE  /\ Stop \in 0 .. N /\ (N # 0 => Stop # 0)
         /\ Stop = N \/ (Stop \in File /\ Stop # 0 /\ fresh(before[Stop]))
         /\ \A k \in File : k < Stop => k = 0 \/ ~ fresh(before[k])
  <1> USE Constants
  <1> DEFINE S == {N} \cup {k \in 1 .. N - 1 : before[k] >= MAX_FILE_DATA_LEN}
  <1>1. S \in SUBSET Nat /\ S # {} /\ Stop = A!Min(S)
    BY DEF Stop
  <1>2. Stop \in S /\ \A x \in S : Stop <= x
    <2> HIDE DEF S
    <2> QED BY <1>1, LeastIsMin
  <1>3. /\ Stop \in 0 .. N /\ (N # 0 => Stop # 0)
        /\ Stop = N \/ (Stop \in File /\ Stop # 0 /\ fresh(before[Stop]))
    BY <1>2 DEF File, fresh
  <1>4. ASSUME NEW k \in File, k < Stop, k # 0 PROVE ~ fresh(before[k])
    <2>1. k \notin S /\ k \in 1 .. N - 1
      BY <1>2, <1>3, <1>4 DEF File
    <2> QED BY <2>1 DEF fresh
  <1> QED BY <1>3, <1>4

(* RepackedOffsets: the packing up to there. *)
LEMMA OffsetsPacked ==
  ASSUME Start
  PROVE  \A k \in File : A!RepackedOffsets(Array, Listed)[k] =
                           IF k < Stop THEN packed[k] ELSE before[k]
  <1> USE Constants
  <1>1. PICK stop : stop = Stop
    OBVIOUS
  <1>2. /\ stop \in 0 .. N /\ (N # 0 => stop # 0)
    BY <1>1, StopPlace
  <1>3. A!Min({Array.size} \cup
              {m \in 1 .. Array.size - 1 : A!OffsetAt(m, Array, Listed) >= MAX_FILE_DATA_LEN})
          = stop
    <2>1. Array.size = N /\ \A m \in 1 .. N - 1 : A!OffsetAt(m, Array, Listed) = before[m]
      BY ListedFiles DEF File
    <2>2. {m \in 1 .. N - 1 : A!OffsetAt(m, Array, Listed) >= MAX_FILE_DATA_LEN} =
          {m \in 1 .. N - 1 : before[m] >= MAX_FILE_DATA_LEN}
      BY <2>1
    <2> QED BY <1>1, <2>1, <2>2 DEF Stop
  <1>4. PICK new : new = A!RepackedOffsets(Array, Listed)
    OBVIOUS
  <1>5. new = CHOOSE f : f = [k \in File |-> OffsetBody(f, k, Array, Listed, stop)]
    BY <1>3, <1>4, OffsetsUnfold, ListedFiles DEF File
  <1>6. PICK w : w = [k \in File |-> IF k < stop THEN packed[k] ELSE before[k]]
    OBVIOUS
  <1>7. ASSUME NEW f, NEW k \in File, k # 0 => f[k - 1] = w[k - 1]
        PROVE  OffsetBody(f, k, Array, Listed, stop) = w[k]
    <2>1. /\ A!OffsetAt(k, Array, Listed) = before[k] /\ w[k] = IF k < stop THEN packed[k] ELSE before[k]
          /\ packed[k] \in Nat /\ before[k] \in Nat /\ packed[k] <= before[k]
      BY <1>6, ListedFiles, PackedBelow
    <2>2. CASE k = 0
      BY <2>1, <2>2, <1>2 DEF OffsetBody, Start, File
    <2>3. CASE k # 0 /\ k >= stop
      BY <2>1, <2>3, <1>2 DEF OffsetBody, File
    <2>4. CASE k # 0 /\ k < stop
      <3>1. k - 1 \in File /\ k - 1 < stop /\ (k - 1) + 1 = k /\ ~ (k >= stop)
        BY <2>4, <1>2 DEF File
      <3>2. w[k - 1] = packed[k - 1] /\ A!LengthAt(k - 1, Array, Listed) = len[k - 1]
        BY <3>1, <1>6, ListedFiles
      <3>3. packed[k - 1] + len[k - 1] = packed[k]
        BY <3>1 DEF Start
      <3>4. OffsetBody(f, k, Array, Listed, stop) = A!Min({before[k], packed[k]})
        BY <1>7, <2>1, <2>4, <3>1, <3>2, <3>3 DEF OffsetBody
      <3>5. A!Min({before[k], packed[k]}) = packed[k]
        <4>1. {before[k], packed[k]} \in SUBSET Nat /\ packed[k] \in {before[k], packed[k]}
              /\ \A y \in {before[k], packed[k]} : packed[k] <= y
          BY <2>1
        <4> QED BY <4>1, MinIs
      <3> QED BY <2>1, <2>4, <3>4, <3>5
    <2> QED BY <2>2, <2>3, <2>4, <1>2 DEF File
  <1>8. w = [k \in File |-> OffsetBody(w, k, Array, Listed, stop)]
    <2>1. \A k \in File : OffsetBody(w, k, Array, Listed, stop) = w[k]
      BY <1>7
    <2> QED BY <1>6, <2>1
  <1>9. new = [k \in File |-> OffsetBody(new, k, Array, Listed, stop)]
    BY <1>5, <1>8
  <1>10. \A k \in File : new[k] = w[k]
    <2> DEFINE Good == {k \in File : new[k] = w[k]}
    <2>1. CASE N = 0
      BY <2>1 DEF File
    <2>2. CASE N # 0
      <3>1. 0 \in Good
        BY <2>2, <1>7, <1>9 DEF File
      <3>2. ASSUME NEW m \in 0 .. (N - 1) - 1, m \in Good PROVE m + 1 \in Good
        <4>1. m \in File /\ m + 1 \in File /\ (m + 1) - 1 = m
          BY DEF File
        <4>2. new[(m + 1) - 1] = w[(m + 1) - 1]
          BY <3>2, <4>1
        <4>3. OffsetBody(new, m + 1, Array, Listed, stop) = w[m + 1]
          BY <4>1, <4>2, <1>7
        <4> QED BY <4>1, <4>3, <1>9
      <3>3. N - 1 \in Nat
        BY <2>2
      <3> HIDE DEF Good
      <3>4. 0 .. N - 1 \subseteq Good
        BY <3>1, <3>2, <3>3, BoundedInduction
      <3> QED BY <3>4 DEF Good, File
    <2> QED BY <2>1, <2>2
  <1> QED BY <1>1, <1>4, <1>6, <1>10

(* One move of the loop of the operator: the bytes after file k. *)
MoveBody(b, k, o, files, bytes) ==
  IF k = -1 THEN bytes
  ELSE IF k \in {m \in 0 .. o.size - 1 : A!RepackedOffsets(o, files)[m] # A!OffsetAt(m, o, files)}
  THEN A!move_bytes(b[k - 1], A!RepackedOffsets(o, files)[k], A!OffsetAt(k, o, files),
                    A!LengthAt(k, o, files))
  ELSE b[k - 1]

(* The files that the loop moves. *)
MovedFiles == {k \in File : k < Stop /\ packed[k] # before[k]}

(* Bytes[k]: file_data after the loop has passed file k. *)
Bytes == CHOOSE b : b = [k \in -1 .. N - 1 |-> MoveBody(b, k, Array, Listed, Original)]

LEMMA MoveStepIs ==
  ASSUME Start, NEW b, NEW k \in File
  PROVE  MoveBody(b, k, Array, Listed, Original) =
           IF k \in MovedFiles THEN A!move_bytes(b[k - 1], packed[k], before[k], len[k])
           ELSE b[k - 1]
  <1>1. /\ Array.size = N /\ k \in 0 .. N - 1 /\ k # -1
        /\ A!OffsetAt(k, Array, Listed) = before[k]
        /\ A!LengthAt(k, Array, Listed) = len[k]
    BY ListedFiles, Constants DEF File
  <1>2. A!RepackedOffsets(Array, Listed)[k] = IF k < Stop THEN packed[k] ELSE before[k]
    BY OffsetsPacked
  <1> QED BY <1>1, <1>2 DEF MoveBody, MovedFiles

LEMMA BytesUnfold ==
  ASSUME Start
  PROVE  /\ Bytes[-1] = Original
         /\ \A k \in File :
              Bytes[k] = IF k \in MovedFiles
                         THEN A!move_bytes(Bytes[k - 1], packed[k], before[k], len[k])
                         ELSE Bytes[k - 1]
  <1> USE Constants
  <1> DEFINE Body(b, k) == MoveBody(b, k, Array, Listed, Original)
  <1>1. \A b : Body(b, -1) = Original
    BY DEF MoveBody
  <1>2. ASSUME NEW b, NEW c, NEW k \in 0 .. N - 1, b[k - 1] = c[k - 1]
        PROVE  Body(b, k) = Body(c, k)
    BY <1>2, MoveStepIs DEF File
  <1> HIDE DEF Body
  <1> DEFINE Good == {m \in 0 .. N : \E b : b = [k \in -1 .. m - 1 |-> Body(b, k)]}
  <1>3. 0 \in Good
    <2>1. PICK b : b = [k \in -1 .. 0 - 1 |-> Original]
      OBVIOUS
    <2>2. b = [k \in -1 .. 0 - 1 |-> Body(b, k)]
      BY <2>1, <1>1
    <2> QED BY <2>2
  <1>4. ASSUME NEW m \in 0 .. N - 1, m \in Good PROVE m + 1 \in Good
    <2>1. PICK b : b = [k \in -1 .. m - 1 |-> Body(b, k)]
      BY <1>4
    <2>2. PICK c : c = [k \in -1 .. (m + 1) - 1 |-> IF k = m THEN Body(b, m) ELSE b[k]]
      OBVIOUS
    <2>3. ASSUME NEW k \in -1 .. (m + 1) - 1 PROVE c[k] = Body(c, k)
      <3>1. CASE k = -1
        BY <3>1, <1>1, <2>1, <2>2
      <3>2. CASE k # -1
        <4>1. /\ k \in 0 .. N - 1 /\ k - 1 \in -1 .. m - 1 /\ k - 1 # m
              /\ k - 1 \in -1 .. (m + 1) - 1
          BY <3>2
        <4>2. c[k - 1] = b[k - 1]
          BY <4>1, <2>2
        <4>3. Body(c, k) = Body(b, k)
          BY <4>1, <4>2, <1>2
        <4>4. k # m => k \in -1 .. m - 1
          BY <3>2
        <4> QED BY <4>3, <4>4, <2>1, <2>2
      <3> QED BY <3>1, <3>2
    <2>4. c = [k \in -1 .. (m + 1) - 1 |-> Body(c, k)]
      BY <2>2, <2>3
    <2>5. m + 1 \in 0 .. N
      OBVIOUS
    <2> QED BY <2>4, <2>5
  <1>5. N \in Good
    <2> HIDE DEF Good
    <2>1. 0 .. N \subseteq Good
      BY <1>3, <1>4, BoundedInduction
    <2> QED BY <2>1
  <1>6. Bytes = [k \in -1 .. N - 1 |-> Body(Bytes, k)]
    BY <1>5 DEF Bytes, Body
  <1>7. \A k \in -1 .. N - 1 : Bytes[k] = Body(Bytes, k)
    BY <1>6
  <1>8. Bytes[-1] = Original
    BY <1>1, <1>7
  <1>9. ASSUME NEW k \in File
        PROVE  Bytes[k] = IF k \in MovedFiles
                         THEN A!move_bytes(Bytes[k - 1], packed[k], before[k], len[k])
                         ELSE Bytes[k - 1]
    <2>1. k \in -1 .. N - 1
      BY DEF File
    <2>2. Bytes[k] = MoveBody(Bytes, k, Array, Listed, Original)
      BY <2>1, <1>7 DEF Body
    <2> QED BY <2>2, MoveStepIs
  <1> QED BY <1>8, <1>9

(* What repack_helper returns after file k - 1: the new offset of the first
   file with data that moved. *)
FirstMoved(k) ==
  LET S == {m \in MovedFiles : m < k /\ len[m] > 0}
  IN  IF S = {} THEN -1 ELSE packed[A!Min(S)]

(* Offsets are in Progress.  The data of the loop is that of the recursion, file by
   file, and afterwards the caller writes only behind the files. *)
AgreeInv ==
  /\ data = [p \in Byte |-> data[p]]
  /\ i <= Stop /\ (used > 0 \/ i = 0)
  /\ pc \in AfterLoop => used <= 0 \/ i = Stop
  /\ hash_offset = FirstMoved(i)
  /\ pc \in {"copy", "loop"} => data = Bytes[i - 1]
  /\ pc = "moved" => data = Bytes[i] /\ i \in MovedFiles /\ used > 0
  /\ pc \in AfterLoop =>
       \A p \in Byte : call = "repack" \/ p < new_offset => data[p] = Bytes[i - 1][p]

LEMMA SameRecursion ==
  ASSUME UNCHANGED rigid
  PROVE  /\ Stop' = Stop /\ MovedFiles' = MovedFiles /\ Bytes' = Bytes
         /\ new_offset' = new_offset
         /\ \A k : FirstMoved(k)' = FirstMoved(k)
  <1>1. UNCHANGED <<before, len, packed, used, old>>
    BY DEF rigid
  <1>2. Stop' = Stop
    BY <1>1 DEF Stop
  <1>3. MovedFiles' = MovedFiles
    BY <1>1, <1>2 DEF MovedFiles, File
  <1>4. Listed' = Listed
    BY <1>1 DEF Listed, Entries, File
  <1>5. Bytes' = Bytes
    BY <1>4 DEF Bytes, MoveBody, Array, File
  <1>6. \A k : FirstMoved(k)' = FirstMoved(k)
    BY <1>1, <1>3 DEF FirstMoved
  <1> QED BY <1>1, <1>2, <1>3, <1>5, <1>6 DEF new_offset

LEMMA AgreeInit == Init => AgreeInv
  <1> SUFFICES ASSUME Init PROVE AgreeInv
    OBVIOUS
  <1> USE Constants
  <1>1. IInv /\ Start
    BY InitIInv DEF IInv
  <1>2. /\ i = 0 /\ hash_offset = -1 /\ data = Original /\ pc \in {"loop", "copy"}
    BY DEF Init
  <1>3. data = [p \in Byte |-> data[p]]
    BY <1>2, RelocationAssumption DEF Byte
  <1>4. FirstMoved(0) = -1
    <2>1. {m \in MovedFiles : m < 0 /\ len[m] > 0} = {}
      BY DEF MovedFiles, File
    <2> QED BY <2>1 DEF FirstMoved
  <1>5. i <= Stop /\ 0 - 1 = -1
    BY <1>1, <1>2, StopPlace
  <1>6. data = Bytes[i - 1]
    BY <1>1, <1>2, <1>5, BytesUnfold
  <1> QED BY <1>2, <1>3, <1>4, <1>5, <1>6 DEF AgreeInv, AfterLoop

(* The loop goes on exactly before the place where the operator stops. *)
LEMMA StopReached ==
  ASSUME IInv, i <= Stop
  PROVE  /\ AtEnd <=> used <= 0 \/ i = Stop
         /\ ~ AtEnd => i \in File /\ i < Stop /\ used > 0
  <1> USE Constants
  <1>1. /\ i \in 0 .. N /\ used \in Int
        /\ \A k \in File : k >= i => off[k] = before[k]
    <2>1. packed[N] \in Nat /\ old.length \in Nat /\ used = packed[N] + old.length
      BY DEF IInv, Start
    <2> QED BY <2>1 DEF IInv, Start, Progress, File
  <1>2. /\ Stop \in 0 .. N /\ (N # 0 => Stop # 0)
        /\ Stop = N \/ (Stop \in File /\ Stop # 0 /\ fresh(before[Stop]))
        /\ \A k \in File : k < Stop => k = 0 \/ ~ fresh(before[k])
    BY StopPlace DEF IInv
  <1>3. i = Stop => AtEnd
    BY <1>1, <1>2 DEF AtEnd, File
  <1>4. i # Stop => i \in File /\ i < Stop
    BY <1>1, <1>2 DEF File
  <1>5. i # Stop /\ used > 0 => ~ AtEnd
    BY <1>1, <1>2, <1>4 DEF AtEnd, File
  <1> QED BY <1>1, <1>3, <1>4, <1>5 DEF AtEnd

LEMMA AgreeMove == IInv /\ AgreeInv /\ repack_move => AgreeInv'
  <1> SUFFICES ASSUME IInv, AgreeInv, repack_move PROVE AgreeInv'
    OBVIOUS
  <1> USE Constants
  <1>1. /\ pc = "loop" /\ Behind /\ ~ AtEnd /\ off[i] > target(i) /\ pc' = "moved"
        /\ UNCHANGED <<rigid, hash_offset, i>>
        /\ data' = copied(target(i), bytes_at(off[i], len[i]), len[i])
    BY DEF repack_move, Behind
  <1>2. /\ i \in File /\ off[i] = before[i] /\ before[i] \in Nat /\ len[i] \in Nat
        /\ target(i) = packed[i] /\ packed[i] \in Nat
    BY <1>1, BehindGap
  <1>3. i \in MovedFiles /\ used > 0
    BY <1>1, <1>2, StopReached DEF AgreeInv, MovedFiles
  <1>4. data' = A!move_bytes(data, packed[i], before[i], len[i])
    <2>1. DOMAIN data = Byte
      BY DEF AgreeInv
    <2>2. ASSUME NEW p \in Byte, p \in packed[i] .. packed[i] + len[i] - 1
          PROVE  bytes_at(before[i], len[i])[p - packed[i]] = data[p - packed[i] + before[i]]
      <3>1. PICK q : q = p - packed[i]
        OBVIOUS
      <3>2. q \in 0 .. len[i] - 1 /\ before[i] + q = p - packed[i] + before[i]
        BY <1>2, <2>2, <3>1
      <3> QED BY <3>1, <3>2 DEF bytes_at
    <2>3. copied(packed[i], bytes_at(before[i], len[i]), len[i]) =
          [p \in Byte |-> IF p \in packed[i] .. packed[i] + len[i] - 1
                          THEN data[p - packed[i] + before[i]] ELSE data[p]]
      BY <2>2 DEF copied
    <2> QED BY <1>1, <1>2, <2>1, <2>3 DEF A!move_bytes
  <1>5. data' = Bytes[i]
    BY <1>1, <1>2, <1>3, <1>4, BytesUnfold DEF AgreeInv, IInv
  <1>6. data' = [p \in Byte |-> data'[p]]
    BY <1>1 DEF copied
  <1>7. /\ Stop' = Stop /\ MovedFiles' = MovedFiles /\ Bytes' = Bytes
        /\ FirstMoved(i)' = FirstMoved(i) /\ Byte' = Byte /\ used' = used
    BY <1>1, SameRecursion DEF rigid, Byte
  <1> QED BY <1>1, <1>3, <1>5, <1>6, <1>7 DEF AgreeInv, AfterLoop

(* One more file in what repack_helper returns. *)
LEMMA FirstMovedNext ==
  ASSUME Start, NEW k \in File
  PROVE  FirstMoved(k + 1) =
           IF k \in MovedFiles /\ FirstMoved(k) < 0 /\ len[k] > 0 THEN packed[k]
           ELSE FirstMoved(k)
  <1> USE Constants
  <1> DEFINE S(n) == {m \in MovedFiles : m < n /\ len[m] > 0}
  <1>1. S(k) \in SUBSET Nat /\ S(k + 1) \in SUBSET Nat
    BY DEF MovedFiles, File
  <1>2. \A T : T \in SUBSET File /\ T # {} => A!Min(T) \in T /\ packed[A!Min(T)] \in Nat
    <2>1. File \subseteq Nat /\ \A m \in File : packed[m] \in Nat
      BY PackedBelow DEF File
    <2> QED BY <2>1, LeastIsMin
  <1>3. FirstMoved(k) < 0 <=> S(k) = {}
    <2>1. S(k) \in SUBSET File
      BY DEF MovedFiles
    <2> QED BY <1>2, <2>1 DEF FirstMoved
  <1>4. CASE k \notin MovedFiles \/ ~ (len[k] > 0)
    <2>1. S(k + 1) = S(k)
      BY <1>4 DEF MovedFiles, File
    <2> QED BY <1>4, <2>1 DEF FirstMoved
  <1>5. CASE k \in MovedFiles /\ len[k] > 0
    <2>1. S(k + 1) = S(k) \cup {k}
      BY <1>5 DEF MovedFiles, File
    <2>2. CASE S(k) = {}
      <3>1. A!Min({k}) = k
        BY MinIs DEF File
      <3> QED BY <1>3, <1>5, <2>1, <2>2, <3>1 DEF FirstMoved
    <2>3. CASE S(k) # {}
      <3>1. PICK x : x = A!Min(S(k))
        OBVIOUS
      <3> HIDE DEF S
      <3>2. x \in S(k) /\ \A y \in S(k) : x <= y
        BY <1>1, <2>3, <3>1, LeastIsMin
      <3>3. x < k
        BY <3>2 DEF S
      <3>4. x \in S(k + 1) /\ \A y \in S(k + 1) : x <= y
        BY <1>1, <2>1, <3>2, <3>3
      <3>5. A!Min(S(k + 1)) = x
        BY <1>1, <3>4, MinIs
      <3>6. FirstMoved(k + 1) = packed[x] /\ FirstMoved(k) = packed[x]
        BY <2>1, <2>3, <3>1, <3>5 DEF FirstMoved, S
      <3> QED BY <1>3, <2>3, <3>6
    <2> QED BY <2>2, <2>3
  <1> QED BY <1>4, <1>5

LEMMA AgreeOffset == IInv /\ AgreeInv /\ repack_offset => AgreeInv'
  <1> SUFFICES ASSUME IInv, AgreeInv, repack_offset PROVE AgreeInv'
    OBVIOUS
  <1> USE Constants
  <1>1. /\ pc = "moved" /\ pc' = "loop" /\ i' = i + 1 /\ UNCHANGED <<rigid, data>>
        /\ hash_offset' = IF hash_offset < 0 /\ len[i] > 0 THEN target(i) ELSE hash_offset
    BY DEF repack_offset
  <1>2. i \in File /\ i \in MovedFiles /\ i < Stop
    BY <1>1 DEF AgreeInv, MovedFiles
  <1>3. target(i) = packed[i]
    BY <1>2, TargetPacked DEF IInv
  <1>4. hash_offset' = FirstMoved(i + 1)
    <2>1. hash_offset = FirstMoved(i)
      BY DEF AgreeInv
    <2> QED BY <1>1, <1>2, <1>3, <2>1, FirstMovedNext DEF IInv
  <1>5. used > 0 /\ i + 1 <= Stop /\ (i + 1) - 1 = i
    <2>1. Stop \in 0 .. N /\ i \in 0 .. N - 1
      BY <1>2, StopPlace DEF IInv, File
    <2>2. used > 0
      BY <1>1 DEF AgreeInv
    <2> QED BY <1>2, <2>1, <2>2
  <1>6. data' = Bytes[i] /\ data' = [p \in Byte |-> data'[p]]
    BY <1>1 DEF AgreeInv
  <1>7. /\ Stop' = Stop /\ Bytes' = Bytes /\ MovedFiles' = MovedFiles
        /\ used' = used /\ Byte' = Byte
    BY <1>1, SameRecursion DEF rigid, Byte
  <1>8. FirstMoved(i)' = FirstMoved(i + 1)
    BY <1>1, SameRecursion
  <1> QED BY <1>1, <1>4, <1>5, <1>6, <1>7, <1>8 DEF AgreeInv, AfterLoop

LEMMA AgreeStay == IInv /\ AgreeInv /\ repack_stay => AgreeInv'
  <1> SUFFICES ASSUME IInv, AgreeInv, repack_stay PROVE AgreeInv'
    OBVIOUS
  <1> USE Constants
  <1>1. /\ pc = "loop" /\ pc' = "loop" /\ i' = i + 1 /\ ~ AtEnd /\ ~ Behind
        /\ UNCHANGED <<rigid, data, hash_offset>>
    BY DEF repack_stay
  <1>2. i \in File /\ i < Stop /\ used > 0
    BY <1>1, StopReached DEF AgreeInv
  <1>3. /\ off[i] = before[i] /\ target(i) = packed[i] /\ packed[i] \in Nat /\ before[i] \in Nat
        /\ packed[i] <= before[i]
    BY <1>2, TargetPacked, PackedBelow DEF IInv, Progress, File
  <1>4. i \notin MovedFiles
    BY <1>1, <1>3 DEF Behind, MovedFiles
  <1>5. hash_offset' = FirstMoved(i + 1)
    BY <1>1, <1>2, <1>4, FirstMovedNext DEF IInv, AgreeInv
  <1>6. data' = Bytes[i] /\ data' = [p \in Byte |-> data'[p]]
    BY <1>1, <1>2, <1>4, BytesUnfold DEF IInv, AgreeInv
  <1>7. i + 1 <= Stop /\ (i + 1) - 1 = i
    BY <1>2, StopPlace DEF IInv, File
  <1>8. /\ Stop' = Stop /\ Bytes' = Bytes /\ FirstMoved(i)' = FirstMoved(i + 1)
        /\ used' = used /\ Byte' = Byte
    BY <1>1, SameRecursion DEF rigid, Byte
  <1> QED BY <1>1, <1>2, <1>5, <1>6, <1>7, <1>8 DEF AgreeInv, AfterLoop

(* Of the other steps, the return of the loop changes nothing that counts
   here, and the caller writes behind the files. *)
LEMMA AgreeRest ==
  ASSUME IInv, AgreeInv, UNCHANGED <<rigid, i, hash_offset>>,
         data' = [p \in Byte |-> data'[p]],
         pc' \in {"copy", "loop"} => data' = data /\ pc \in {"copy", "loop"},
         pc' \in AfterLoop =>
           \/ pc \in AfterLoop /\ \A p \in Byte : call = "repack" \/ p < new_offset => data'[p] = data[p]
           \/ pc = "loop" /\ data' = data /\ AtEnd,
         pc' # "moved"
  PROVE  AgreeInv'
  <1>1. /\ Stop' = Stop /\ Bytes' = Bytes /\ FirstMoved(i)' = FirstMoved(i)
        /\ used' = used /\ Byte' = Byte /\ new_offset' = new_offset /\ call' = call
    BY SameRecursion DEF rigid, Byte
  <1>2. pc' \in AfterLoop =>
          /\ used <= 0 \/ i = Stop
          /\ \A p \in Byte : call = "repack" \/ p < new_offset => data'[p] = Bytes[i - 1][p]
    BY StopReached DEF AgreeInv
  <1> QED BY <1>1, <1>2 DEF AgreeInv, AfterLoop

LEMMA AgreeStep == IInv /\ CallKind /\ AgreeInv /\ [Next]_vars => AgreeInv'
  <1> SUFFICES ASSUME IInv, CallKind, AgreeInv, [Next]_vars PROVE AgreeInv'
    OBVIOUS
  <1> USE Constants
  <1>0. /\ data = [p \in Byte |-> data[p]] /\ keep \in Nat /\ length \in Nat
    BY DEF AgreeInv, IInv, Start
  <1>1. ASSUME UNCHANGED <<rigid, i, hash_offset, data>>,
               pc' # "moved", pc' \in {"copy", "loop"} => pc \in {"copy", "loop"},
               pc' \in AfterLoop => pc \in AfterLoop \/ (pc = "loop" /\ AtEnd)
        PROVE  AgreeInv'
    BY <1>0, <1>1, AgreeRest
  <1>2. CASE copy \/ repack_return \/ write_name \/ update_dir_offset \/ update_dir_length
    BY <1>1, <1>2 DEF copy, repack_return, write_name, update_dir_offset, update_dir_length, AfterLoop
  <1>3. CASE paste
    <2>1. /\ pc = "paste" /\ pc' = "offset" /\ data' = copied(new_offset, temp, keep)
          /\ UNCHANGED <<rigid, i, hash_offset>>
      BY <1>3 DEF paste
    <2>2. call # "repack" /\ new_offset \in Nat
      BY <2>1, CallerSizes DEF CallKind
    <2>3. \A p \in Byte : p < new_offset => data'[p] = data[p]
      BY <1>0, <2>1, <2>2 DEF copied, Byte
    <2>4. data' = [p \in Byte |-> data'[p]]
      BY <2>1 DEF copied
    <2> QED BY <2>1, <2>2, <2>3, <2>4, AgreeRest DEF AfterLoop
  <1>4. CASE fill
    <2>1. /\ pc = "fill" /\ pc' = "done"
          /\ data' = copied(new_offset + keep, added, length - keep)
          /\ UNCHANGED <<rigid, i, hash_offset>>
      BY <1>4 DEF fill
    <2>2. call # "repack" /\ new_offset \in Nat
      BY <2>1, CallerSizes DEF CallKind
    <2>3. \A p \in Byte : p < new_offset => data'[p] = data[p]
      BY <1>0, <2>1, <2>2 DEF copied, Byte
    <2>4. data' = [p \in Byte |-> data'[p]]
      BY <2>1 DEF copied
    <2> QED BY <2>1, <2>2, <2>3, <2>4, AgreeRest DEF AfterLoop
  <1>5. CASE kill
    <2>1. pc' = "killed" /\ UNCHANGED <<rigid, i, hash_offset>>
      BY <1>5 DEF kill
    <2>2. data' = [p \in Byte |-> data'[p]]
      BY <1>0, <1>5 DEF kill
    <2> QED BY <2>1, <2>2, AgreeRest DEF AfterLoop
  <1>6. CASE UNCHANGED vars
    <2>1. UNCHANGED <<rigid, i, hash_offset, data, pc>>
      BY <1>6 DEF vars
    <2>2. CASE pc = "moved"
      <3>1. /\ Stop' = Stop /\ Bytes' = Bytes /\ FirstMoved(i)' = FirstMoved(i)
            /\ MovedFiles' = MovedFiles /\ used' = used /\ Byte' = Byte
        BY <2>1, SameRecursion DEF rigid, Byte
      <3> QED BY <2>1, <2>2, <3>1 DEF AgreeInv, AfterLoop
    <2> QED BY <1>1, <2>1, <2>2
  <1> QED
    BY <1>2, <1>3, <1>4, <1>5, <1>6, AgreeMove, AgreeOffset, AgreeStay DEF Next

(* repack_helper in terms of the recursions above: what it returns when
   there is nothing to do, and otherwise. *)
Unmoved(r, files, entries, bytes) ==
  r = [file |-> files, dir |-> entries, data |-> bytes, hash_offset |-> -1]

MovedAt(o, files) ==
  {k \in 0 .. o.size - 1 : A!RepackedOffsets(o, files)[k] # A!OffsetAt(k, o, files)}

Repacked(r, o, files, entries) ==
  LET new   == A!RepackedOffsets(o, files)
      moved == MovedAt(o, files)
  IN  /\ r.file = [f \in DOMAIN files |->
                     IF f \in {o.list[k] : k \in moved}
                     THEN A!update_offset(files[f], new[o.pos[f]]) ELSE files[f]]
      /\ r.dir = [f \in DOMAIN entries |->
                     IF f \in {o.list[k] : k \in moved}
                     THEN A!update_offset(entries[f], A!dir_offset(new[o.pos[f]])) ELSE entries[f]]
      /\ r.hash_offset = LET S == {k \in moved : A!LengthAt(k, o, files) > 0}
                         IN  IF S = {} THEN -1 ELSE new[A!Min(S)]

LastBytes(o, files, bytes) ==
  (CHOOSE b : b = [k \in -1 .. o.size - 1 |-> MoveBody(b, k, o, files, bytes)])[o.size - 1]

Helped(r, o, files, entries, bytes, u) ==
  IF u <= 0 \/ o.size <= 0 THEN Unmoved(r, files, entries, bytes)
  ELSE Repacked(r, o, files, entries) /\ r.data = LastBytes(o, files, bytes)

LEMMA HelperParts ==
  ASSUME NEW o, NEW files, NEW entries, NEW bytes, NEW u
  PROVE  Helped(A!repack_helper(o, files, entries, bytes, u), o, files, entries, bytes, u)
  BY DEF A!repack_helper, MoveBody, Helped, Unmoved, Repacked, MovedAt, LastBytes

(* Behind the place where the loop stops nothing moves. *)
LEMMA BytesStop ==
  ASSUME Start, N # 0
  PROVE  Bytes[N - 1] = Bytes[Stop - 1]
  <1> USE Constants
  <1>1. Stop \in 1 .. N
    BY StopPlace
  <1> DEFINE Good == {m \in 0 .. N - Stop : Bytes[Stop - 1 + m] = Bytes[Stop - 1]}
  <1>2. 0 \in Good
    BY <1>1
  <1>3. ASSUME NEW m \in 0 .. (N - Stop) - 1, m \in Good PROVE m + 1 \in Good
    <2>1. PICK k : k = Stop + m
      OBVIOUS
    <2>2. k \in File /\ ~ (k < Stop) /\ k - 1 = Stop - 1 + m /\ Stop - 1 + (m + 1) = k
      BY <2>1, <1>1 DEF File
    <2>3. Bytes[k] = Bytes[k - 1]
      BY <2>2, BytesUnfold DEF MovedFiles
    <2>4. Bytes[Stop - 1 + m] = Bytes[Stop - 1]
      BY <1>3
    <2>5. m + 1 \in 0 .. N - Stop
      BY <1>1
    <2> QED BY <2>2, <2>3, <2>4, <2>5
  <1>4. N - Stop \in Nat /\ N - Stop \in 0 .. N - Stop /\ Stop - 1 + (N - Stop) = N - 1
    BY <1>1
  <1> HIDE DEF Good
  <1>5. 0 .. N - Stop \subseteq Good
    BY <1>2, <1>3, <1>4, BoundedInduction
  <1> QED BY <1>4, <1>5 DEF Good

(* For every caller, every number of files and every layout, the loop of
   repack_helper leaves offsets, dir_table, the bytes of the files and the
   first byte to rehash as the operator says on which Vfs relies
   (myfilesystem.c:448). *)
THEOREM RepackAlwaysAgrees == Spec => []RepackAgrees
  <1> USE Constants
  <1>1. ASSUME IInv, AgreeInv, pc \notin {"copy", "loop", "moved", "killed"},
               NEW start, start = [k \in File |-> IF fresh(before[k]) THEN 0 ELSE before[k]],
               NEW entries, entries = Entries(start),
               NEW r, r = A!repack_helper(Array, Entries(before), entries, Original, used)
        PROVE  /\ \A k \in File : r.file[k].offset = off[k] /\ r.dir[k].offset = dir[k]
               /\ \A p \in Byte : call = "repack" \/ p < new_offset => r.data[p] = data[p]
               /\ r.hash_offset = hash_offset
    <2>1. Start /\ Progress /\ pc \in AfterLoop /\ (used <= 0 \/ i = Stop) /\ i <= Stop
      BY <1>1 DEF IInv, Finished, AgreeInv
    <2>2. PICK new : new = A!RepackedOffsets(Array, Listed)
      OBVIOUS
    <2>3. \A k \in File : new[k] = IF k < Stop THEN packed[k] ELSE before[k]
      BY <2>1, <2>2, OffsetsPacked
    <2>4. MovedFiles = MovedAt(Array, Listed)
      BY <2>2, <2>3, ListedFiles DEF MovedAt, MovedFiles, File
    <2>5. /\ used <= 0 \/ N <= 0 => Unmoved(r, Listed, entries, Original)
          /\ ~ (used <= 0 \/ N <= 0) =>
               Repacked(r, Array, Listed, entries) /\ r.data = Bytes[N - 1]
      <3>1. Array.size = N /\ r = A!repack_helper(Array, Listed, entries, Original, used)
        BY <1>1, ListedFiles DEF Listed
      <3>2. LastBytes(Array, Listed, Original) = Bytes[N - 1]
        BY <3>1 DEF Bytes, LastBytes
      <3>3. Helped(r, Array, Listed, entries, Original, used)
        BY <3>1, HelperParts
      <3> QED BY <3>1, <3>2, <3>3 DEF Helped
    <2>6. i \in 0 .. N /\ Stop \in 0 .. N /\ used \in Int
      <3>1. packed[N] \in Nat /\ old.length \in Nat /\ used = packed[N] + old.length
        BY <2>1 DEF Start
      <3> QED BY <2>1, <3>1, StopPlace DEF Progress
    <2>7. CASE used <= 0 \/ N <= 0
      <3>1. r = [file |-> Listed, dir |-> entries, data |-> Original, hash_offset |-> -1]
        BY <2>5, <2>7 DEF Unmoved
      <3>2. i = 0 /\ 0 - 1 = -1
        BY <1>1, <2>6, <2>7 DEF AgreeInv
      <3>3. \A k \in File : off[k] = before[k] /\ dir[k] = start[k]
        BY <1>1, <2>1, <3>2 DEF Progress, File
      <3>4. hash_offset = -1
        <4>1. {m \in MovedFiles : m < 0 /\ len[m] > 0} = {}
          BY DEF MovedFiles, File
        <4> QED BY <1>1, <3>2, <4>1 DEF AgreeInv, FirstMoved
      <3>5. \A p \in Byte : call = "repack" \/ p < new_offset => data[p] = Original[p]
        BY <1>1, <2>1, <3>2, BytesUnfold DEF AgreeInv
      <3>6. ASSUME NEW k \in File PROVE r.file[k].offset = off[k] /\ r.dir[k].offset = dir[k]
        <4>1. Listed[k].offset = before[k] /\ entries[k].offset = start[k]
          BY <1>1 DEF Listed, Entries
        <4> QED BY <3>1, <3>3, <4>1
      <3> QED BY <3>1, <3>4, <3>5, <3>6
    <2>8. CASE ~ (used <= 0 \/ N <= 0)
      <3>1. i = Stop /\ N # 0
        BY <2>1, <2>6, <2>8
      <3>2. {Array.list[k] : k \in MovedFiles} = MovedFiles
        BY ListedFiles DEF MovedFiles
      <3>3. /\ r.file = [f \in File |->
                             IF f \in MovedFiles
                             THEN A!update_offset(Listed[f], new[Array.pos[f]]) ELSE Listed[f]]
            /\ r.dir = [f \in File |->
                             IF f \in MovedFiles
                             THEN A!update_offset(entries[f], A!dir_offset(new[Array.pos[f]]))
                             ELSE entries[f]]
            /\ r.data = Bytes[N - 1]
            /\ r.hash_offset = LET S == {k \in MovedFiles : A!LengthAt(k, Array, Listed) > 0}
                               IN  IF S = {} THEN -1 ELSE new[A!Min(S)]
        <4>1. DOMAIN Listed = File /\ DOMAIN entries = File
          BY <1>1 DEF Listed, Entries
        <4> QED BY <2>2, <2>4, <2>5, <2>8, <3>2, <4>1 DEF Repacked
      <3>4. ASSUME NEW k \in File
            PROVE  r.file[k].offset = off[k] /\ r.dir[k].offset = dir[k]
        <4>1. /\ Array.pos[k] = k /\ Listed[k].offset = before[k] /\ entries[k].offset = start[k]
              /\ packed[k] \in Nat /\ before[k] \in Nat /\ len[k] \in Nat
          BY <1>1, <2>1, ListedFiles, PackedBelow DEF Listed, Entries
        <4>2. /\ off[k] = IF k < i THEN packed[k] ELSE before[k]
              /\ dir[k] = IF k < i THEN packed[k] ELSE start[k]
          BY <1>1, <2>1 DEF Progress
        <4>3. k < Stop => packed[k] < MAX_FILE_DATA_LEN
          <5>1. k = 0 => packed[k] = 0
            BY <2>1 DEF Start
          <5>2. k < Stop => k = 0 \/ ~ fresh(before[k])
            BY <2>1, StopPlace
          <5> QED BY <2>1, <4>1, <5>1, <5>2, PackedBelow DEF fresh
        <4>4. CASE k \in MovedFiles
          BY <3>1, <3>3, <2>3, <4>1, <4>2, <4>3, <4>4 DEF MovedFiles, A!update_offset, A!dir_offset
        <4>5. CASE k \notin MovedFiles
          BY <1>1, <3>1, <3>3, <4>1, <4>2, <4>3, <4>5 DEF MovedFiles, fresh
        <4> QED BY <4>4, <4>5
      <3>5. r.hash_offset = hash_offset
        <4>1. {k \in MovedFiles : A!LengthAt(k, Array, Listed) > 0} =
              {m \in MovedFiles : m < i /\ len[m] > 0}
          BY <3>1, ListedFiles DEF MovedFiles
        <4>2. PICK S : S = {m \in MovedFiles : m < i /\ len[m] > 0}
          OBVIOUS
        <4>3. S # {} => A!Min(S) \in File /\ A!Min(S) < Stop
          <5>1. S \in SUBSET Nat /\ S \subseteq MovedFiles
            BY <4>2 DEF MovedFiles, File
          <5> QED BY <5>1, LeastIsMin DEF MovedFiles
        <4>4. r.hash_offset = IF S = {} THEN -1 ELSE packed[A!Min(S)]
          BY <2>3, <3>3, <4>1, <4>2, <4>3
        <4> QED BY <1>1, <4>2, <4>4 DEF AgreeInv, FirstMoved
      <3>6. \A p \in Byte : call = "repack" \/ p < new_offset => r.data[p] = data[p]
        BY <1>1, <2>1, <3>1, <3>3, BytesStop DEF AgreeInv
      <3> QED BY <3>4, <3>5, <3>6
    <2> QED BY <2>7, <2>8
  <1>2. IInv /\ AgreeInv => RepackAgrees
    BY <1>1 DEF RepackAgrees
  <1>3. CallerInv => CallKind
    BY DEF CallerInv
  <1> QED
    BY <1>2, <1>3, AgreeInit, AgreeStep, CallerInit, CallerInvStep, RelocationInv, PTL DEF Spec
=============================================================================
