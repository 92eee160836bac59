--------------------------- MODULE VfsStoreProofs ---------------------------
(***************************************************************************)
(* What happens in Vfs to the bytes of the files and to the leaf hashes,   *)
(* and that Vfs keeps the tables that SizeStore and FlatStore promise.     *)
(*                                                                         *)
(* Every step keeps the bytes of the files that it is not about, and       *)
(* rehashes what it changes: but for a file that grows and moves no leaf   *)
(* hash becomes stale (StaleOnlyByRelocation), and the files that a repack *)
(* moved can be read (RepackedFilesReadable).  The name array is sorted    *)
(* (NamesSorted), so that every call returns the code of the table         *)
(* (CodesAgree) and changes dir_table (ImplementsSizes) and file_data      *)
(* (ImplementsContents) as the table changes; no assertion fails           *)
(* (NoAssertionFails); and read_file returns the bytes of the table, or    *)
(* refuses (ReadsBack).                                                    *)
(*                                                                         *)
(* Two more hypotheses keep out what the program gets wrong: where the     *)
(* hashes are concerned, file_data has at most 2^31 bytes, since write_file*)
(* keeps the offset that a repack returns in an int32_t (HalfFits); and no *)
(* rename moves a name past another one, since rename_file leaves the file *)
(* where it is in the name array (RenamesKeepOrder).                       *)
(***************************************************************************)
EXTENDS VfsProofs

----------------------------------------------------------------------------
(* The bytes that a repack moves *)

(* The mapping of file_data. *)
IsData(bytes) == bytes = [p \in 0 .. FileDataLen - 1 |-> bytes[p]]

(* One iteration of the loop: the file at position k moves, if it has to. *)
MoveBody(b, k, o, files, bytes) ==
  IF k = -1 THEN bytes
  ELSE IF k \in {m \in 0 .. o.size - 1 : RepackedOffsets(o, files)[m] # OffsetAt(m, o, files)}
  THEN move_bytes(b[k - 1], RepackedOffsets(o, files)[k], OffsetAt(k, o, files),
                  LengthAt(k, o, files))
  ELSE b[k - 1]

LEMMA MoveUnfold ==
  ASSUME NEW o, NEW files, NEW entries, NEW bytes, NEW u \in Nat,
         NEW r, r = repack_helper(o, files, entries, bytes, u)
  PROVE  /\ u <= 0 \/ o.size <= 0 => r.data = bytes
         /\ ~ (u <= 0 \/ o.size <= 0) =>
              r.data = (CHOOSE b : b = [k \in -1 .. o.size - 1 |->
                                          MoveBody(b, k, o, files, bytes)])[o.size - 1]
  BY DEF repack_helper, MoveBody

LEMMA BytesGrow ==
  ASSUME NEW o, NEW files, Arranged(o, files)
  PROVE  \A j \in 0 .. o.size - 1, k \in 0 .. o.size : j < k =>
           BytesBefore(j, o, files) + LengthAt(j, o, files) <= BytesBefore(k, o, files)
  <1>1. /\ o.size \in Nat
        /\ \A k \in 0 .. o.size - 1 : LengthAt(k, o, files) \in Nat
    BY ArrangedPositions
  <1>2. /\ \A k \in 0 .. o.size : BytesBefore(k, o, files) \in Nat
        /\ \A k \in 0 .. o.size - 1 :
             BytesBefore(k + 1, o, files) = BytesBefore(k, o, files) + LengthAt(k, o, files)
    BY BytesAdd
  <1> DEFINE Good == {k \in 0 .. o.size : \A j \in 0 .. o.size - 1 : j < k =>
                 BytesBefore(j, o, files) + LengthAt(j, o, files) <= BytesBefore(k, o, files)}
  <1>3. 0 \in Good
    BY <1>1
  <1>4. ASSUME NEW m \in 0 .. o.size - 1, m \in Good PROVE m + 1 \in Good
    <2>1. m + 1 \in 0 .. o.size /\ m \in 0 .. o.size
      BY <1>1
    <2>2. ASSUME NEW j \in 0 .. o.size - 1, j < m + 1
          PROVE  BytesBefore(j, o, files) + LengthAt(j, o, files) <= BytesBefore(m + 1, o, files)
      <3>1. /\ BytesBefore(m + 1, o, files) = BytesBefore(m, o, files) + LengthAt(m, o, files)
            /\ BytesBefore(m, o, files) \in Nat /\ LengthAt(m, o, files) \in Nat
            /\ BytesBefore(j, o, files) \in Nat /\ LengthAt(j, o, files) \in Nat
        BY <1>1, <1>2, <2>1
      <3>2. CASE j = m
        BY <3>1, <3>2
      <3>3. CASE j < m
        <4>1. BytesBefore(j, o, files) + LengthAt(j, o, files) <= BytesBefore(m, o, files)
          BY <3>3, <1>4
        <4> QED BY <4>1, <3>1
      <3> QED BY <3>2, <3>3, <2>2, <1>1
    <2> QED BY <2>1, <2>2
  <1> HIDE DEF Good
  <1>5. 0 .. o.size \subseteq Good
    BY <1>1, <1>3, <1>4, BoundedInduction
  <1> QED BY <1>5 DEF Good

(* Byte p belongs to the new place of the file at position j. *)
Lands(p, j, o, files) ==
  BytesBefore(j, o, files) <= p /\ p < BytesBefore(j, o, files) + LengthAt(j, o, files)

(* Where that byte was. *)
Source(p, j, o, files) == p - BytesBefore(j, o, files) + OffsetAt(j, o, files)

(* What file_data holds after the iteration for position k. *)
MovedBytes(k, o, files, bytes) ==
  [p \in DOMAIN bytes |->
     IF \E j \in 0 .. k : Lands(p, j, o, files)
     THEN LET j == CHOOSE m \in 0 .. k : Lands(p, m, o, files)
          IN  bytes[Source(p, j, o, files)]
     ELSE bytes[p]]

LEMMA LandsOnce ==
  ASSUME NEW o, NEW files, Arranged(o, files), NEW j \in 0 .. o.size - 1,
         NEW k \in 0 .. o.size - 1, NEW p \in Int, Lands(p, j, o, files), Lands(p, k, o, files)
  PROVE  j = k
  <1>1. /\ o.size \in Nat /\ BytesBefore(j, o, files) \in Nat /\ BytesBefore(k, o, files) \in Nat
        /\ LengthAt(j, o, files) \in Nat /\ LengthAt(k, o, files) \in Nat
        /\ j \in 0 .. o.size /\ k \in 0 .. o.size
    BY ArrangedPositions, BytesAdd
  <1>2. /\ j < k => BytesBefore(j, o, files) + LengthAt(j, o, files) <= BytesBefore(k, o, files)
        /\ k < j => BytesBefore(k, o, files) + LengthAt(k, o, files) <= BytesBefore(j, o, files)
    BY <1>1, BytesGrow
  <1>3. j < k \/ j = k \/ k < j
    BY <1>1
  <1> QED BY <1>1, <1>2, <1>3 DEF Lands

(* A byte in the new place of a file that the loop has passed is the byte
   that the file had there. *)
LEMMA MovedInto ==
  ASSUME NEW o, NEW files, Arranged(o, files), NEW bytes, IsData(bytes),
         NEW k \in -1 .. o.size - 1, NEW p \in 0 .. FileDataLen - 1,
         NEW now, now = MovedBytes(k, o, files, bytes)
  PROVE  /\ \A j \in 0 .. k : Lands(p, j, o, files) =>
              now[p] =
                bytes[Source(p, j, o, files)]
         /\ (~ \E j \in 0 .. k : Lands(p, j, o, files)) =>
              now[p] = bytes[p]
  <1>1. o.size \in Nat /\ p \in Int /\ FileDataLen \in Nat
    BY ArrangedPositions, LengthAssumption
  <1>2. ASSUME NEW j \in 0 .. k, Lands(p, j, o, files)
        PROVE  (CHOOSE m \in 0 .. k : Lands(p, m, o, files)) = j
    <2>1. PICK c : c = CHOOSE m \in 0 .. k : Lands(p, m, o, files)
      OBVIOUS
    <2>2. c \in 0 .. k /\ Lands(p, c, o, files)
      BY <1>2, <2>1
    <2>3. c \in 0 .. o.size - 1 /\ j \in 0 .. o.size - 1
      BY <1>1, <2>2
    <2> QED BY <1>1, <1>2, <2>1, <2>2, <2>3, LandsOnce
  <1>3. ASSUME NEW j \in 0 .. k, Lands(p, j, o, files)
        PROVE  now[p] =
                 bytes[Source(p, j, o, files)]
    BY <1>2, <1>3 DEF MovedBytes, IsData
  <1> QED BY <1>3 DEF MovedBytes, IsData

(* The iteration for position k moves the file that is there: none of the
   moves before it has touched its bytes. *)
LEMMA MoveIteration ==
  ASSUME NEW o, NEW files, Arranged(o, files), NEW bytes, IsData(bytes),
         NEW k \in 0 .. o.size - 1, NEW b, b[k - 1] = MovedBytes(k - 1, o, files, bytes)
  PROVE  MoveBody(b, k, o, files, bytes) = MovedBytes(k, o, files, bytes)
  <1>1. /\ o.size \in Nat /\ k \in Nat /\ FileDataLen \in Nat
        /\ OffsetAt(k, o, files) \in Nat /\ LengthAt(k, o, files) \in Nat
        /\ OffsetAt(k, o, files) + LengthAt(k, o, files) <= FileDataLen
        /\ \A j \in 0 .. o.size - 1 : LengthAt(j, o, files) \in Nat
    BY ArrangedPositions, LengthAssumption
  <1>2. /\ RepackedOffsets(o, files)[k] = BytesBefore(k, o, files)
        /\ BytesBefore(k, o, files) \in Nat
        /\ BytesBefore(k, o, files) <= OffsetAt(k, o, files)
        /\ \A j \in 0 .. o.size - 1 : BytesBefore(j, o, files) \in Nat
    BY <1>1, RepackedRight, BytesAdd, BytesBelow
  <1>3. PICK new, old, len, before, after :
          /\ new = BytesBefore(k, o, files) /\ old = OffsetAt(k, o, files)
          /\ len = LengthAt(k, o, files)
          /\ before = MovedBytes(k - 1, o, files, bytes)
          /\ after = MovedBytes(k, o, files, bytes)
    OBVIOUS
  <1>4. /\ after = [p \in 0 .. FileDataLen - 1 |-> after[p]] /\ before = [p \in 0 .. FileDataLen - 1 |-> before[p]]
        /\ DOMAIN before = 0 .. FileDataLen - 1
    BY <1>3 DEF MovedBytes, IsData
  <1>5. k \in -1 .. o.size - 1 /\ k - 1 \in -1 .. o.size - 1 /\ k \in 0 .. o.size
        /\ k \in 0 .. k /\ \A j : j \in 0 .. k <=> j \in 0 .. k - 1 \/ j = k
    BY <1>1
  <1>6. ASSUME NEW p \in 0 .. FileDataLen - 1
         PROVE  /\ \A j \in 0 .. k : Lands(p, j, o, files) =>
                     after[p] = bytes[Source(p, j, o, files)]
                /\ (~ \E j \in 0 .. k : Lands(p, j, o, files)) => after[p] = bytes[p]
    <2>1. k \in -1 .. o.size - 1
      BY <1>5
    <2> QED BY <2>1, <1>3, MovedInto
  <1>7. ASSUME NEW p \in 0 .. FileDataLen - 1
         PROVE  /\ \A j \in 0 .. k - 1 : Lands(p, j, o, files) =>
                     before[p] = bytes[Source(p, j, o, files)]
                /\ (~ \E j \in 0 .. k - 1 : Lands(p, j, o, files)) => before[p] = bytes[p]
    <2>1. PICK m \in -1 .. o.size - 1 : m = k - 1
      BY <1>5
    <2>2. before = MovedBytes(m, o, files, bytes)
      BY <2>1, <1>3
    <2>3. /\ \A j \in 0 .. m : Lands(p, j, o, files) =>
                 before[p] = bytes[Source(p, j, o, files)]
          /\ (~ \E j \in 0 .. m : Lands(p, j, o, files)) => before[p] = bytes[p]
      BY <2>2, MovedInto
    <2> QED BY <2>1, <2>3
  <1>8. ASSUME NEW p \in 0 .. FileDataLen - 1, ~ Lands(p, k, o, files) PROVE after[p] = before[p]
    <2>1. CASE \E j \in 0 .. k - 1 : Lands(p, j, o, files)
      <3>1. PICK j \in 0 .. k - 1 : Lands(p, j, o, files)
        BY <2>1
      <3>2. j \in 0 .. k
        BY <3>1, <1>5
      <3> QED BY <3>1, <3>2, <1>6, <1>7
    <2>2. CASE ~ \E j \in 0 .. k - 1 : Lands(p, j, o, files)
      <3>1. ~ \E j \in 0 .. k : Lands(p, j, o, files)
        BY <2>2, <1>5, <1>8
      <3> QED BY <3>1, <2>2, <1>6, <1>7
    <2> QED BY <2>1, <2>2
  <1>9. ASSUME NEW p \in 0 .. FileDataLen - 1, Lands(p, k, o, files)
        PROVE  /\ after[p] = bytes[p - new + old]
               /\ p - new + old \in 0 .. FileDataLen - 1
               /\ before[p - new + old] = bytes[p - new + old]
    <2>1. after[p] = bytes[p - new + old]
      <3>1. after[p] = bytes[Source(p, k, o, files)]
        BY <1>5, <1>9, <1>6
      <3> QED BY <3>1, <1>3 DEF Source
    <2>2. PICK s : s = p - new + old
      OBVIOUS
    <2>3. p \in Int /\ new <= p /\ p < new + len /\ new \in Nat /\ old \in Nat /\ len \in Nat
          /\ old + len <= FileDataLen /\ new <= old
      BY <1>1, <1>2, <1>3, <1>9 DEF Lands
    <2>4. s \in 0 .. FileDataLen - 1 /\ new <= s
      BY <1>1, <2>2, <2>3
    <2>5. \A j \in 0 .. k - 1 : ~ Lands(s, j, o, files)
      <3> SUFFICES ASSUME NEW j \in 0 .. k - 1 PROVE ~ Lands(s, j, o, files)
        OBVIOUS
      <3>1. j \in 0 .. o.size - 1 /\ j < k
        BY <1>1
      <3>2. BytesBefore(j, o, files) + LengthAt(j, o, files) <= new
        BY <3>1, <1>3, <1>5, BytesGrow
      <3>3. BytesBefore(j, o, files) \in Nat /\ LengthAt(j, o, files) \in Nat
        BY <3>1, <1>1, <1>2
      <3> QED BY <3>2, <3>3, <2>3, <2>4 DEF Lands
    <2>6. before[s] = bytes[s]
      <3>1. s \in 0 .. FileDataLen - 1 /\ ~ \E j \in 0 .. k - 1 : Lands(s, j, o, files)
        BY <2>4, <2>5
      <3> QED BY <3>1, <1>7
    <2> QED BY <2>1, <2>2, <2>4, <2>6
  <1>10. \A p \in 0 .. FileDataLen - 1 : Lands(p, k, o, files) <=> p \in new .. new + len - 1
    BY <1>1, <1>2, <1>3 DEF Lands
  <1>11. CASE new # old
    <2>1. MoveBody(b, k, o, files, bytes) = move_bytes(before, new, old, len)
      BY <1>1, <1>2, <1>3, <1>11 DEF MoveBody
    <2>2. \A p \in 0 .. FileDataLen - 1 :
            (IF p \in new .. new + len - 1 THEN before[p - new + old] ELSE before[p]) = after[p]
      BY <1>8, <1>9, <1>10
    <2>3. move_bytes(before, new, old, len) = [p \in 0 .. FileDataLen - 1 |-> after[p]]
      BY <1>4, <2>2 DEF move_bytes
    <2> QED BY <1>3, <1>4, <2>1, <2>3
  <1>12. CASE new = old
    <2>1. MoveBody(b, k, o, files, bytes) = before
      BY <1>1, <1>2, <1>3, <1>12 DEF MoveBody
    <2>2. ASSUME NEW p \in 0 .. FileDataLen - 1 PROVE before[p] = after[p]
      <3>1. CASE Lands(p, k, o, files)
        <4>1. p - new + old = p
          BY <1>1, <1>3, <1>12
        <4> QED BY <3>1, <4>1, <1>9
      <3> QED BY <3>1, <1>8
    <2>3. before = after
      BY <1>4, <2>2
    <2> QED BY <1>3, <2>1, <2>3
  <1> QED BY <1>11, <1>12

(* The loop ends with every file in its new place. *)
LEMMA MovedAll ==
  ASSUME NEW o, NEW files, Arranged(o, files), NEW bytes, IsData(bytes), o.size # 0,
         NEW last, last = (CHOOSE b : b = [k \in -1 .. o.size - 1 |->
                                        MoveBody(b, k, o, files, bytes)])[o.size - 1]
  PROVE  last = MovedBytes(o.size - 1, o, files, bytes)
  <1>1. o.size \in Nat /\ o.size - 1 \in 0 .. o.size - 1 /\ o.size - 1 \in -1 .. o.size - 1
    BY ArrangedPositions
  <1>2. PICK w : w = [k \in -1 .. o.size - 1 |-> MovedBytes(k, o, files, bytes)]
    OBVIOUS
  <1>3. MovedBytes(-1, o, files, bytes) = bytes
    <2>1. \A p : ~ \E j \in 0 .. -1 : Lands(p, j, o, files)
      OBVIOUS
    <2> QED BY <2>1 DEF MovedBytes, IsData
  <1>4. ASSUME NEW k \in -1 .. o.size - 1, NEW b, k # -1 => b[k - 1] = MovedBytes(k - 1, o, files, bytes)
        PROVE  MoveBody(b, k, o, files, bytes) = MovedBytes(k, o, files, bytes)
    <2>1. CASE k = -1
      BY <2>1, <1>3 DEF MoveBody
    <2>2. CASE k # -1
      <3>1. k \in 0 .. o.size - 1
        BY <2>2, <1>1
      <3> QED BY <3>1, <2>2, <1>4, MoveIteration
    <2> QED BY <2>1, <2>2
  <1>5. PICK m : m = CHOOSE b : b = [k \in -1 .. o.size - 1 |-> MoveBody(b, k, o, files, bytes)]
    OBVIOUS
  <1>6. m = [k \in -1 .. o.size - 1 |-> MoveBody(m, k, o, files, bytes)]
    <2>1. \A k \in -1 .. o.size - 1 : MoveBody(w, k, o, files, bytes) = MovedBytes(k, o, files, bytes)
      <3> SUFFICES ASSUME NEW k \in -1 .. o.size - 1
                   PROVE  MoveBody(w, k, o, files, bytes) = MovedBytes(k, o, files, bytes)
        OBVIOUS
      <3>1. k # -1 => k - 1 \in -1 .. o.size - 1
        BY <1>1
      <3>2. k # -1 => w[k - 1] = MovedBytes(k - 1, o, files, bytes)
        BY <1>2, <3>1
      <3> QED BY <3>2, <1>4
    <2>2. w = [k \in -1 .. o.size - 1 |-> MoveBody(w, k, o, files, bytes)]
      BY <1>2, <2>1
    <2> QED BY <1>5, <2>2
  <1> DEFINE Good == {k \in 0 .. o.size - 1 : m[k] = MovedBytes(k, o, files, bytes)}
  <1>7. \A k \in -1 .. o.size - 1 : m[k] = MoveBody(m, k, o, files, bytes)
    BY <1>6
  <1>8. 0 \in Good
    <2>1. -1 \in -1 .. o.size - 1 /\ 0 \in -1 .. o.size - 1 /\ 0 \in 0 .. o.size - 1 /\ 0 - 1 = -1
      BY <1>1
    <2>2. m[-1] = MovedBytes(-1, o, files, bytes)
      BY <2>1, <1>4, <1>7
    <2>3. m[0 - 1] = MovedBytes(0 - 1, o, files, bytes)
      BY <2>1, <2>2
    <2> QED BY <2>1, <2>3, <1>4, <1>7
  <1>9. ASSUME NEW k \in 0 .. (o.size - 1) - 1, k \in Good PROVE k + 1 \in Good
    <2>1. k + 1 \in -1 .. o.size - 1 /\ k + 1 \in 0 .. o.size - 1 /\ (k + 1) - 1 = k
      BY <1>1
    <2>2. m[(k + 1) - 1] = MovedBytes((k + 1) - 1, o, files, bytes)
      BY <2>1, <1>9
    <2> QED BY <2>1, <2>2, <1>4, <1>7
  <1>10. o.size - 1 \in Nat
    BY <1>1
  <1> HIDE DEF Good
  <1>11. 0 .. o.size - 1 \subseteq Good
    BY <1>8, <1>9, <1>10, BoundedInduction
  <1> QED BY <1>1, <1>5, <1>11 DEF Good

(* The byte q of the file: the same in both. *)
SameByte(q, f, bytes, g, later) == later[g.offset + q] = bytes[f.offset + q]

(* The file has the same bytes before and after. *)
SameBytes(f, bytes, g, later) ==
  g.length = f.length /\ \A q \in 0 .. f.length - 1 : SameByte(q, f, bytes, g, later)

LEMMA RepackedData ==
  ASSUME NEW o, NEW files, Arranged(o, files), NEW entries, NEW bytes, IsData(bytes),
         NEW u \in Nat, u > 0, o.size # 0,
         NEW r, r = repack_helper(o, files, entries, bytes, u)
  PROVE  r.data = MovedBytes(o.size - 1, o, files, bytes)
  <1>1. ~ (u <= 0 \/ o.size <= 0)
    BY ArrangedPositions
  <1>2. PICK end : end = (CHOOSE b : b = [k \in -1 .. o.size - 1 |->
                               MoveBody(b, k, o, files, bytes)])[o.size - 1]
    OBVIOUS
  <1>3. end = MovedBytes(o.size - 1, o, files, bytes)
    BY <1>2, MovedAll
  <1> QED BY <1>1, <1>2, <1>3, MoveUnfold

(* A repack moves the files with their bytes. *)
LEMMA RepackMoves ==
  ASSUME NEW o, NEW files, Arranged(o, files), IsTable(files),
         NEW entries, NEW bytes, IsData(bytes), NEW u \in Nat, u > 0 \/ o.size = 0,
         NEW r, r = repack_helper(o, files, entries, bytes, u)
  PROVE  /\ IsData(r.data)
         /\ \A f \in Held(o) : SameBytes(files[f], bytes, r.file[f], r.data)
  <1>1. /\ o.size \in Nat /\ FileDataLen \in Nat
        /\ \A f \in Held(o) : o.pos[f] \in 0 .. o.size - 1 /\ o.list[o.pos[f]] = f
    BY ArrangedPositions, LengthAssumption
  <1>2. CASE o.size = 0
    <2>1. r.data = bytes
      <3>1. u <= 0 \/ o.size <= 0
        BY <1>2
      <3> QED BY <3>1, MoveUnfold
    <2>2. Held(o) = {}
      BY <1>1, <1>2
    <2> QED BY <2>1, <2>2
  <1>3. CASE o.size # 0
    <2>1. PICK last : last = MovedBytes(o.size - 1, o, files, bytes)
      OBVIOUS
    <2>2. r.data = last
      BY <1>3, <2>1, RepackedData
    <2>3. IsData(last)
      BY <2>1 DEF MovedBytes, IsData
    <2>4. ASSUME NEW f \in Held(o), NEW q \in 0 .. files[f].length - 1
          PROVE  SameByte(q, files[f], bytes, r.file[f], r.data)
      <3>1. PICK k, p : k = o.pos[f] /\ p = BytesBefore(o.pos[f], o, files) + q
        OBVIOUS
      <3>2. /\ k \in 0 .. o.size - 1 /\ k \in -1 .. o.size - 1 /\ o.list[k] = f
            /\ k \in 0 .. o.size - 1
        BY <1>1, <3>1
      <3>3. /\ OffsetAt(k, o, files) = files[f].offset /\ LengthAt(k, o, files) = files[f].length
            /\ OffsetAt(k, o, files) \in Nat /\ LengthAt(k, o, files) \in Nat
            /\ OffsetAt(k, o, files) + LengthAt(k, o, files) <= FileDataLen
            /\ BytesBefore(k, o, files) \in Nat
            /\ BytesBefore(k, o, files) <= OffsetAt(k, o, files)
        <4>1. BytesBefore(k, o, files) \in Nat /\ BytesBefore(k, o, files) <= OffsetAt(k, o, files)
          BY <1>1, <3>2, BytesAdd, BytesBelow
        <4> QED BY <4>1, <3>2, ArrangedPositions DEF OffsetAt, LengthAt
      <3>4. /\ p \in 0 .. FileDataLen - 1 /\ Lands(p, k, o, files)
            /\ Source(p, k, o, files) = files[f].offset + q
        BY <1>1, <3>1, <3>3 DEF Lands, Source
      <3>5. o.size - 1 \in -1 .. o.size - 1
        BY <1>1
      <3>6. last[p] = bytes[Source(p, k, o, files)]
        BY <2>1, <3>2, <3>4, <3>5, MovedInto
      <3>7. r.file[f].offset = BytesBefore(k, o, files)
        BY <3>1, RepackArranged
      <3> QED BY <2>2, <3>1, <3>4, <3>6, <3>7 DEF SameByte
    <2>5. \A f \in Held(o) : r.file[f].length = files[f].length
      BY RepackArranged
    <2> QED BY <2>2, <2>3, <2>4, <2>5 DEF SameBytes
  <1> QED BY <1>2, <1>3

----------------------------------------------------------------------------
(* The bytes of the files through a step *)

(* The bytes that differ lie in h .. end - 1 (h = -1: none differs). *)
ChangedFrom(h, end, bytes, later) ==
  \A p \in 0 .. FileDataLen - 1 :
    later[p] # bytes[p] => h # -1 /\ h <= p /\ p < end

(* The files of the set that moved lie in h .. end - 1 afterwards. *)
MovedFrom(h, end, T, files, now) ==
  \A f \in T : now[f].offset # files[f].offset =>
    h # -1 /\ h <= now[f].offset /\ now[f].offset + files[f].length <= end

(* What a repack changes lies between the offset that it returns and the end
   of the last file. *)
LEMMA RepackHashes ==
  ASSUME NEW o, NEW files, Arranged(o, files), IsTable(files),
         NEW entries, NEW bytes, IsData(bytes), NEW u \in Nat, u > 0 \/ o.size = 0,
         NEW total, total = SumFunctionOnSet(LengthsOf(files), Held(o)),
         NEW r, r = repack_helper(o, files, entries, bytes, u)
  PROVE  /\ total \in Nat
         /\ r.hash_offset = -1 \/ r.hash_offset \in 0 .. total - 1
         /\ ChangedFrom(r.hash_offset, total, bytes, r.data)
         /\ MovedFrom(r.hash_offset, total, Held(o), files, r.file)
  <1>1. /\ o.size \in Nat /\ FileDataLen \in Nat
        /\ \A f \in Held(o) : o.pos[f] \in 0 .. o.size - 1 /\ o.list[o.pos[f]] = f
        /\ \A k \in 0 .. o.size - 1 : /\ OffsetAt(k, o, files) \in Nat
                                      /\ LengthAt(k, o, files) \in Nat \ {0}
    BY ArrangedPositions, LengthAssumption
  <1>2. /\ \A k \in 0 .. o.size : BytesBefore(k, o, files) \in Nat
        /\ BytesBefore(o.size, o, files) = total /\ total \in Nat
        /\ \A k \in 0 .. o.size - 1 :
             /\ k \in 0 .. o.size /\ BytesBefore(k, o, files) \in Nat
             /\ BytesBefore(k, o, files) + LengthAt(k, o, files) <= total
    <2>1. /\ \A k \in 0 .. o.size : BytesBefore(k, o, files) \in Nat
          /\ BytesBefore(o.size, o, files) = total
      BY BytesAdd
    <2>2. o.size \in 0 .. o.size /\ \A k \in 0 .. o.size - 1 : k \in 0 .. o.size /\ k < o.size
      BY <1>1
    <2> QED BY <2>1, <2>2, BytesGrow
  <1>3. CASE o.size = 0
    <2>1. u <= 0 \/ o.size <= 0
      BY <1>3
    <2>2. r.hash_offset = -1 /\ r.data = bytes
      BY <2>1 DEF repack_helper
    <2>3. Held(o) = {}
      BY <1>1, <1>3
    <2> QED BY <1>2, <2>2, <2>3 DEF ChangedFrom, MovedFrom
  <1>4. CASE o.size # 0
    <2>1. PICK M : M = {k \in 0 .. o.size - 1 : BytesBefore(k, o, files) # OffsetAt(k, o, files)}
      OBVIOUS
    <2>2. \A k \in 0 .. o.size - 1 : RepackedOffsets(o, files)[k] = BytesBefore(k, o, files)
      BY RepackedRight
    <2>3. r.hash_offset = IF M = {} THEN -1 ELSE RepackedOffsets(o, files)[Min(M)]
      <3>1. ~ (u <= 0 \/ o.size <= 0)
        BY <1>1, <1>4
      <3>2. PICK W : W = {k \in {m \in 0 .. o.size - 1 :
                                   RepackedOffsets(o, files)[m] # OffsetAt(m, o, files)} :
                            LengthAt(k, o, files) > 0}
        OBVIOUS
      <3>3. W = M
        BY <1>1, <2>1, <2>2, <3>2
      <3>4. r.hash_offset = IF W = {} THEN -1 ELSE RepackedOffsets(o, files)[Min(W)]
        BY <3>1, <3>2 DEF repack_helper
      <3> QED BY <3>3, <3>4
    <2>4. M \subseteq 0 .. o.size - 1 /\ M \subseteq Nat
      BY <2>1
    <2>5. M # {} => /\ r.hash_offset \in 0 .. total - 1
                    /\ \A k \in M : r.hash_offset <= BytesBefore(k, o, files)
      <3> SUFFICES ASSUME M # {}
                   PROVE  /\ r.hash_offset \in 0 .. total - 1
                          /\ \A k \in M : r.hash_offset <= BytesBefore(k, o, files)
        OBVIOUS
      <3>1. PICK m : m = Min(M)
        OBVIOUS
      <3>2. m \in M /\ \A k \in M : m <= k
        BY <2>4, <3>1, MinOfNaturals
      <3>3. m \in 0 .. o.size - 1 /\ r.hash_offset = BytesBefore(m, o, files)
        BY <2>2, <2>3, <2>4, <3>1, <3>2
      <3>4. r.hash_offset \in 0 .. total - 1
        BY <1>1, <1>2, <3>3
      <3>5. ASSUME NEW k \in M PROVE r.hash_offset <= BytesBefore(k, o, files)
        <4>1. k \in 0 .. o.size - 1 /\ (k = m \/ m < k)
          BY <2>4, <3>2
        <4>2. m < k => BytesBefore(m, o, files) + LengthAt(m, o, files) <= BytesBefore(k, o, files)
          BY <1>2, <3>3, <4>1, BytesGrow
        <4> QED BY <1>1, <1>2, <3>3, <4>1, <4>2
      <3> QED BY <3>4, <3>5
    <2>6. ASSUME NEW p \in 0 .. FileDataLen - 1, r.data[p] # bytes[p]
          PROVE  r.hash_offset # -1 /\ r.hash_offset <= p /\ p < total
      <3>1. PICK last : last = MovedBytes(o.size - 1, o, files, bytes)
        OBVIOUS
      <3>2. r.data = last
        BY <1>4, <3>1, RepackedData
      <3>3. o.size - 1 \in -1 .. o.size - 1
        BY <1>1
      <3>4. PICK j \in 0 .. o.size - 1 : Lands(p, j, o, files)
        BY <2>6, <3>1, <3>2, <3>3, MovedInto
      <3>5. last[p] = bytes[Source(p, j, o, files)]
        BY <3>1, <3>3, <3>4, MovedInto
      <3>6. BytesBefore(j, o, files) = OffsetAt(j, o, files) => Source(p, j, o, files) = p
        BY <1>1, <1>2 DEF Source
      <3>7. j \in M
        BY <2>1, <2>6, <3>2, <3>5, <3>6
      <3>8. r.hash_offset \in 0 .. total - 1 /\ r.hash_offset <= BytesBefore(j, o, files)
        BY <2>5, <3>7
      <3> QED BY <1>1, <1>2, <3>4, <3>8 DEF Lands
    <2>7. ASSUME NEW f \in Held(o), r.file[f].offset # files[f].offset
          PROVE  /\ r.hash_offset # -1 /\ r.hash_offset <= r.file[f].offset
                 /\ r.file[f].offset + files[f].length <= total
      <3>1. PICK k \in 0 .. o.size - 1 : k = o.pos[f] /\ o.list[k] = f
        BY <1>1
      <3>2. r.file[f].offset = BytesBefore(k, o, files)
        BY <3>1, RepackArranged
      <3>3. OffsetAt(k, o, files) = files[f].offset /\ LengthAt(k, o, files) = files[f].length
        BY <3>1 DEF OffsetAt, LengthAt
      <3>4. k \in M
        BY <2>1, <2>7, <3>2, <3>3
      <3>5. r.hash_offset \in 0 .. total - 1 /\ r.hash_offset <= BytesBefore(k, o, files)
        BY <2>5, <3>4
      <3> QED BY <1>2, <3>2, <3>3, <3>5
    <2> QED BY <1>2, <2>3, <2>5, <2>6, <2>7 DEF ChangedFrom, MovedFrom
  <1> QED BY <1>3, <1>4

LEMMA BytesFollow ==
  ASSUME NEW f, NEW g, NEW h, NEW b, NEW c, NEW d,
         SameBytes(f, b, g, c), SameBytes(g, c, h, d)
  PROVE  SameBytes(f, b, h, d)
  BY DEF SameBytes, SameByte

(* Bytes of one file of the set change: the others keep theirs. *)
LEMMA WriteInside ==
  ASSUME NEW T, NEW files, LaidOut(T, files), NEW i \in T, NEW bytes, NEW later,
         \A p \in 0 .. FileDataLen - 1 :
           p < files[i].offset \/ p >= files[i].offset + files[i].length => later[p] = bytes[p],
         NEW g \in T, g # i
  PROVE  SameBytes(files[g], bytes, files[g], later)
  <1>1. /\ files[i].offset \in Nat /\ files[i].length \in Nat
        /\ files[g].offset \in Nat /\ files[g].length \in Nat
        /\ files[g].offset + files[g].length <= FileDataLen
        /\ \/ files[i].offset + files[i].length <= files[g].offset
           \/ files[g].offset + files[g].length <= files[i].offset
    BY DEF LaidOut, Fits, Apart
  <1>2. ASSUME NEW q \in 0 .. files[g].length - 1
        PROVE  later[files[g].offset + q] = bytes[files[g].offset + q]
    <2>1. PICK p : p = files[g].offset + q
      OBVIOUS
    <2>2. /\ p \in 0 .. FileDataLen - 1
          /\ p < files[i].offset \/ p >= files[i].offset + files[i].length
      BY <2>1, <1>1, LengthAssumption
    <2> QED BY <2>1, <2>2
  <1> QED BY <1>2 DEF SameBytes, SameByte

(* What resize_file_helper changed, giving file i the length, begins at the
   offset that it returned, or, without one, is the copy of the file that
   moved. *)
HelperChanges(r, i, length, copy) ==
  /\ \/ r.hash_offset = -1
     \/ /\ r.hash_offset \in 0 .. r.file[i].offset - 1
        /\ length > file[i].length /\ r.file[i].offset = used - file[i].length
  /\ \A p \in 0 .. FileDataLen - 1 : r.data[p] # data[p] =>
       /\ p < r.file[i].offset + copy
       /\ \/ r.hash_offset # -1 /\ r.hash_offset <= p
          \/ /\ r.hash_offset = -1 /\ length > file[i].length
             /\ r.file[i].offset # file[i].offset /\ r.file[i].offset <= p
  /\ MovedFrom(r.hash_offset, r.file[i].offset, Live \ {i}, file, r.file)

(* resize_file_helper keeps the bytes of every other file, and the first
   bytes of its own. *)
LEMMA ResizeBytes ==
  ASSUME IInv, SizedInv, LayoutInv, phase = "open", NEW i \in Live,
         NEW length \in Nat \ {0}, uint32(length) = length,
         used + length - file[i].length <= FileDataLen,
         NEW copy \in Nat, copy <= file[i].length, IsData(data),
         NEW r, r = resize_file_helper(i, length, copy)
  PROVE  /\ IsData(r.data) /\ r.file[i].length = length
         /\ \A g \in Live : g # i => SameBytes(file[g], data, r.file[g], r.data)
         /\ \A q \in 0 .. copy - 1 : SameByte(q, file[i], data, r.file[i], r.data)
         /\ HelperChanges(r, i, length, copy)
  <1>1. /\ Held(o_list) = Live /\ Arranged(o_list, file) /\ i \in Held(o_list)
        /\ Live \subseteq Index /\ IsTable(file) /\ IsTable(dir) /\ IsFile(file[i])
        /\ used \in Nat /\ file[i].length \in 1 .. used
        /\ used - file[i].length = SumFunctionOnSet(LengthsOf(file), Live \ {i})
    BY HeldFiles, HeldBytes DEF IInv, TablesInv, Live, IsTable
  <1>2. file[i].offset \in Nat /\ ~ fresh(i)
    <2>1. Fits(file[i])
      BY <1>1 DEF Arranged, LaidOut
    <2> QED BY <2>1, LengthAssumption DEF fresh, Fits
  <1>3. detached(i, length) <=> length > file[i].length /\ repack_required(i, length)
    BY <1>2 DEF detached
  <1> DEFINE others == arr_remove(o_list.pos[i], o_list)
             packed == repack_helper(others, file, dir, data, used)
             total == used - file[i].length
  <1>4. CASE ~ detached(i, length)
    <2>1. /\ r.file = [[file EXCEPT ![i] = update_offset(@, file[i].offset)]
                         EXCEPT ![i] = update_length(@, uint32(length))]
          /\ r.data = data /\ r.hash_offset = -1
      BY <1>4 DEF resize_file_helper
    <2>2. /\ r.file[i].offset = file[i].offset /\ r.file[i].length = length
          /\ \A g \in Live : g # i => r.file[g] = file[g]
      BY <1>1, <2>1 DEF IsTable, update_offset, update_length
    <2>3. HelperChanges(r, i, length, copy)
      BY <2>1, <2>2 DEF HelperChanges, MovedFrom
    <2> QED BY <2>1, <2>2, <2>3 DEF SameBytes, SameByte
  <1>5. CASE detached(i, length)
    <2>1. PICK o, bf, bytes, offset, buf :
             /\ o = others /\ bf = packed.file /\ bytes = packed.data /\ offset = total
             /\ buf = read_bytes(data, file[i].offset, copy)
      OBVIOUS
    <2>2. /\ r.file = [[bf EXCEPT ![i] = update_offset(@, offset)]
                         EXCEPT ![i] = update_length(@, uint32(length))]
          /\ r.data = copy_bytes(bytes, offset, buf)
          /\ r.hash_offset = packed.hash_offset
      BY <1>3, <1>5, <2>1 DEF resize_file_helper
    <2>3. PICK p : p = repack_helper(o, file, dir, data, used)
      OBVIOUS
    <2>4. /\ bf = p.file /\ bytes = p.data /\ o = arr_remove(o_list.pos[i], o_list)
          /\ r.hash_offset = p.hash_offset
      BY <2>1, <2>2, <2>3
    <2>5. offset \in Nat /\ offset = SumFunctionOnSet(LengthsOf(file), Live \ {i})
      BY <1>1, <2>1
    <2>6. offset + length <= FileDataLen /\ length > file[i].length
      BY <1>1, <1>3, <1>5, <2>1, LengthAssumption
    <2> HIDE DEF others, packed, total
    <2>7. Arranged(o, file) /\ Held(o) = Live \ {i}
      BY <1>1, <2>4, RemoveArranged
    <2>8. used \in Nat /\ (used > 0 \/ o.size = 0)
      BY <1>1
    <2>9. IsData(bytes) /\ \A g \in Held(o) : SameBytes(file[g], data, bf[g], bytes)
      BY <1>1, <2>3, <2>4, <2>7, <2>8, RepackMoves
    <2>10. offset = SumFunctionOnSet(LengthsOf(file), Held(o))
      BY <2>5, <2>7
    <2>11. /\ Arranged(o, bf)
           /\ \A g \in Held(o) : bf[g].offset + bf[g].length <= offset
           /\ \A g \in Index \ Held(o) : bf[g] = file[g]
      <3>1. bf = repack_helper(o, file, dir, data, used).file
        BY <2>3, <2>4
      <3>2. Arranged(o, file) /\ IsTable(file) /\ used \in Nat
        BY <1>1, <2>7
      <3> QED BY <3>1, <3>2, <2>8, <2>10, RepackArranged
    <2>12. DOMAIN bf = Index
      <3>1. bf = repack_helper(o, file, dir, data, used).file
        BY <2>3, <2>4
      <3> QED BY <3>1, <1>1, RepackKeeps DEF IsTable
    <2>13. /\ r.file[i].offset = offset /\ r.file[i].length = length
           /\ \A g \in Live : g # i => r.file[g] = bf[g]
      BY <1>1, <2>2, <2>12 DEF update_offset, update_length
    <2>14. Len(buf) = copy /\ \A q \in 0 .. copy - 1 : buf[q + 1] = data[file[i].offset + q]
      <3>1. buf = [x \in 1 .. copy |-> data[file[i].offset + x - 1]]
        BY <2>1 DEF read_bytes
      <3>2. Len(buf) = copy
        BY <3>1
      <3>3. \A q \in 0 .. copy - 1 : q + 1 \in 1 .. copy /\ file[i].offset + (q + 1) - 1 = file[i].offset + q
        BY <1>2
      <3> QED BY <3>1, <3>2, <3>3
    <2>15. /\ IsData(r.data)
           /\ \A x \in 0 .. FileDataLen - 1 :
                r.data[x] = IF x \in offset .. offset + copy - 1 THEN buf[x - offset + 1]
                            ELSE bytes[x]
      BY <2>2, <2>9, <2>14 DEF copy_bytes, IsData
    <2>16. ASSUME NEW g \in Live, g # i PROVE SameBytes(file[g], data, r.file[g], r.data)
      <3>1. g \in Held(o) /\ r.file[g] = bf[g]
        BY <2>7, <2>13, <2>16
      <3>2. /\ bf[g].offset \in Nat /\ bf[g].length \in Nat
            /\ bf[g].offset + bf[g].length <= offset
        BY <3>1, <2>11 DEF Arranged, LaidOut, Fits
      <3>3. ASSUME NEW q \in 0 .. bf[g].length - 1
            PROVE  r.data[bf[g].offset + q] = bytes[bf[g].offset + q]
        <4>1. PICK x : x = bf[g].offset + q
          OBVIOUS
        <4>2. x \in 0 .. FileDataLen - 1 /\ x < offset
          BY <4>1, <3>2, <2>5, <2>6, LengthAssumption
        <4>3. x \notin offset .. offset + copy - 1
          BY <4>2, <2>5
        <4> QED BY <4>1, <4>2, <4>3, <2>15
      <3>4. SameBytes(bf[g], bytes, r.file[g], r.data)
        BY <3>1, <3>3 DEF SameBytes, SameByte
      <3>5. SameBytes(file[g], data, bf[g], bytes)
        BY <3>1, <2>9
      <3> QED BY <3>4, <3>5, BytesFollow
    <2>17. ASSUME NEW q \in 0 .. copy - 1 PROVE SameByte(q, file[i], data, r.file[i], r.data)
      <3>1. PICK x : x = offset + q
        OBVIOUS
      <3>2. /\ x \in 0 .. FileDataLen - 1 /\ x \in offset .. offset + copy - 1
            /\ x - offset + 1 = q + 1
        BY <3>1, <2>5, <2>6, <1>1, LengthAssumption
      <3>3. r.data[x] = buf[q + 1]
        BY <3>2, <2>15
      <3> QED BY <3>1, <3>3, <2>13, <2>14 DEF SameByte
    <2>18. /\ p.hash_offset = -1 \/ p.hash_offset \in 0 .. offset - 1
           /\ ChangedFrom(p.hash_offset, offset, data, bytes)
           /\ MovedFrom(p.hash_offset, offset, Live \ {i}, file, bf)
      <3>1. /\ Arranged(o, file) /\ IsTable(file) /\ IsData(data)
            /\ used \in Nat /\ (used > 0 \/ o.size = 0)
            /\ offset = SumFunctionOnSet(LengthsOf(file), Held(o))
            /\ p = repack_helper(o, file, dir, data, used)
        BY <1>1, <2>3, <2>7, <2>8, <2>10
      <3>2. /\ p.hash_offset = -1 \/ p.hash_offset \in 0 .. offset - 1
            /\ ChangedFrom(p.hash_offset, offset, data, p.data)
            /\ MovedFrom(p.hash_offset, offset, Held(o), file, p.file)
        BY <3>1, RepackHashes
      <3> QED BY <2>4, <2>7, <3>2
    <2>19. ASSUME NEW x \in 0 .. FileDataLen - 1, r.data[x] # data[x]
           PROVE  /\ x < offset + copy
                  /\ \/ p.hash_offset # -1 /\ p.hash_offset <= x
                     \/ p.hash_offset = -1 /\ offset # file[i].offset /\ offset <= x
      <3>1. x \in Nat
        OBVIOUS
      <3>2. CASE x \in offset .. offset + copy - 1
        <4>1. /\ x < offset + copy /\ offset <= x /\ x - offset \in 0 .. copy - 1
              /\ (x - offset) + 1 = x - offset + 1
          BY <3>1, <3>2, <2>5
        <4>2. r.data[x] = data[file[i].offset + (x - offset)]
          BY <3>2, <4>1, <2>14, <2>15
        <4>3. offset = file[i].offset => file[i].offset + (x - offset) = x
          BY <3>1, <2>5
        <4>4. offset # file[i].offset
          BY <2>19, <4>2, <4>3
        <4>5. p.hash_offset # -1 => p.hash_offset <= x
          BY <4>1, <2>5, <2>18
        <4> QED BY <4>1, <4>4, <4>5
      <3>3. CASE x \notin offset .. offset + copy - 1
        <4>1. bytes[x] # data[x]
          BY <3>3, <2>15, <2>19
        <4> QED BY <3>1, <4>1, <2>5, <2>18 DEF ChangedFrom
      <3> QED BY <3>2, <3>3
    <2>20. MovedFrom(p.hash_offset, offset, Live \ {i}, file, r.file)
      BY <2>13, <2>18 DEF MovedFrom
    <2>21. /\ r.hash_offset = p.hash_offset /\ r.file[i].offset = offset
           /\ length > file[i].length /\ offset = used - file[i].length
      BY <2>1, <2>4, <2>6, <2>13 DEF total
    <2>22. HelperChanges(r, i, length, copy)
      BY <2>18, <2>19, <2>20, <2>21 DEF HelperChanges
    <2> QED BY <2>13, <2>15, <2>16, <2>17, <2>22
  <1> QED BY <1>4, <1>5

----------------------------------------------------------------------------
(* The bytes of the files through a call *)

(* The bytes that a restart would find in the file of entry i. *)
BytesOf(i) == read_bytes(data, dir[i].offset, dir[i].length)

(* The files in use are laid out in memory as on disk. *)
FilesLaidOut ==
  /\ LaidOut(Live, file) /\ Live \subseteq Index
  /\ \A i \in Live : dir[i].offset = file[i].offset /\ dir[i].length = file[i].length
  /\ phase = "open" => Listed = Live

LEMMA FilesAreLaidOut == IInv /\ LayoutInv => FilesLaidOut
  <1> SUFFICES ASSUME IInv, LayoutInv PROVE FilesLaidOut
    OBVIOUS
  <1>1. Held(o_list) = Live /\ Arranged(o_list, file)
        /\ Live \subseteq Listed /\ Listed \subseteq Index
        /\ \A i \in Live : /\ file[i].offset = dir[i].offset
                           /\ file[i].length = dir[i].length
    BY HeldFiles
  <1>2. phase = "open" => Listed = Live
    BY DEF Listed, Live, IInv, EntriesInv, Scanned
  <1> QED BY <1>1, <1>2 DEF FilesLaidOut, Arranged

LEMMA FilesNextLaidOut == IInv' /\ LayoutInv' => FilesLaidOut'
  BY FilesAreLaidOut, PTL

(* In terms of the file_t structs: a file in use keeps its bytes. *)
LEMMA FileKeeps ==
  ASSUME FilesLaidOut, FilesLaidOut', NEW g \in Live, g \in Live',
         SameBytes(file[g], data, file'[g], data')
  PROVE  BytesOf(g)' = BytesOf(g)
  <1>1. /\ dir[g].offset = file[g].offset /\ dir[g].length = file[g].length
        /\ dir'[g].offset = file'[g].offset /\ dir'[g].length = file'[g].length
        /\ file[g].offset \in Nat /\ file[g].length \in Nat
        /\ file'[g].offset \in Nat
    BY DEF FilesLaidOut, LaidOut, Fits
  <1>2. file'[g].length = file[g].length
    BY DEF SameBytes
  <1>3. \A p \in 1 .. file[g].length :
          data'[file'[g].offset + p - 1] = data[file[g].offset + p - 1]
    <2> SUFFICES ASSUME NEW p \in 1 .. file[g].length
                 PROVE  data'[file'[g].offset + p - 1] = data[file[g].offset + p - 1]
      OBVIOUS
    <2>1. PICK q : q = p - 1
      OBVIOUS
    <2>2. /\ q \in 0 .. file[g].length - 1
          /\ file'[g].offset + p - 1 = file'[g].offset + q
          /\ file[g].offset + p - 1 = file[g].offset + q
      BY <2>1, <1>1
    <2> QED BY <2>2 DEF SameBytes, SameByte
  <1> QED BY <1>1, <1>2, <1>3 DEF BytesOf, read_bytes

(* The step rehashes the blocks of lo .. hi - 1, and there lie all bytes that
   it changes, but for those of a file that grew and moved, and the new places
   of all files that a repack moved. *)
Rehashes(lo, hi) ==
  /\ lo \in Nat /\ hi \in Nat /\ lo < hi /\ hi <= FileDataLen
  /\ hash' = compute_hash_block_range(hash, data', lo, hi - lo)
  /\ Live \subseteq Live'
  /\ \A p \in 0 .. FileDataLen - 1 : data'[p] # data[p] =>
       \/ lo <= p /\ p < hi
       \/ \E i \in Live : /\ Relocated(i) /\ file'[i].offset <= p
                          /\ p < file'[i].offset + file'[i].length
  /\ \A g \in Repacked : lo <= file'[g].offset /\ file'[g].offset + file'[g].length <= hi

Untouched == data' = data /\ hash' = hash /\ Repacked = {}

LEMMA CreateContent ==
  ASSUME IInv, SizedInv, LayoutInv, LengthFits, IsData(data), IInv', LayoutInv',
         NEW a \in FileName, NEW length \in Nat \ {0}, create_file(a, length),
         NEW i \in Index, i = new_file_index
  PROVE  \/ Fault
         \/ /\ phase' = "open" /\ IsData(data')
            /\ \A g \in Live : BytesOf(g)' = BytesOf(g)
            /\ BytesOf(i)' = F!Zeros(length)
            /\ \E lo, hi : Rehashes(lo, hi)
  <1> DEFINE place == new_file_offset(length, o_list, file)
             packed == repack_helper(o_list, file, dir, data, used)
             base == IF place.repack THEN packed
                     ELSE [file |-> file, dir |-> dir, data |-> data, hash_offset |-> -1]
  <1>1. PICK offset, f :
          /\ offset = IF place.repack THEN used ELSE place.offset
          /\ f = [name |-> update_file_name(a), offset |-> offset, length |-> uint32(length)]
    OBVIOUS
  <1>2. i \in Index /\ index[i] = 0 /\ phase = "open" /\ create_code(a, length) = 0
    BY NewIndexFree DEF create_file, create_code
  <1>3. length \in 0 .. FileDataLen /\ uint32(length) = length /\ ~ (length >= MAX_FILE_DATA_LEN)
    <2>1. length \in 0 .. FileDataLen
      BY <1>2, CodesBound
    <2> QED BY <2>1, Uint32Fits, LengthAssumption DEF LengthFits
  <1>4. PICK bf, bd, h : bf = base.file /\ bd = base.data /\ h = base.hash_offset
    OBVIOUS
  <1>5. \/ Fault
        \/ /\ file' = [bf EXCEPT ![i] = f] /\ index' = [index EXCEPT ![i] = 1]
           /\ phase' = phase /\ data' = write_null_byte(bd, offset, length)
           /\ hash' = IF h >= 0
                      THEN compute_hash_block_range(hash, data', h, used + length - h)
                      ELSE compute_hash_block_range(hash, data', offset, length)
    BY <1>1, <1>3, <1>4 DEF create_file
  <1>6. CASE Fault
    BY <1>6
  <1>7. CASE ~ Fault
    <2>1. /\ Held(o_list) = Live /\ Arranged(o_list, file) /\ IsTable(file) /\ IsTable(dir)
          /\ used \in Nat /\ (used > 0 \/ o_list.size = 0)
          /\ used = SumFunctionOnSet(LengthsOf(file), Held(o_list))
      BY <1>2, HeldFiles, HeldBytes DEF IInv, TablesInv
    <2>2. /\ IsData(bd) /\ DOMAIN bf = Index
          /\ \A g \in Live : SameBytes(file[g], data, bf[g], bd)
          /\ h = -1 \/ (h \in 0 .. offset - 1 /\ offset = used)
          /\ ChangedFrom(h, offset, data, bd) /\ MovedFrom(h, offset, Live, file, bf)
      <3>1. CASE place.repack
        <4>1. PICK p : p = packed
          OBVIOUS
        <4>2. bf = p.file /\ bd = p.data /\ h = p.hash_offset /\ offset = used
          BY <3>1, <1>1, <1>4, <4>1
        <4>3. p = repack_helper(o_list, file, dir, data, used)
          BY <4>1
        <4>4. IsData(p.data) /\ \A g \in Held(o_list) : SameBytes(file[g], data, p.file[g], p.data)
          BY <2>1, <4>3, RepackMoves
        <4>5. DOMAIN p.file = Index
          BY <2>1, <4>3, RepackKeeps DEF IsTable
        <4>6. /\ p.hash_offset = -1 \/ p.hash_offset \in 0 .. used - 1
              /\ ChangedFrom(p.hash_offset, used, data, p.data)
              /\ MovedFrom(p.hash_offset, used, Held(o_list), file, p.file)
          BY <2>1, <4>3, RepackHashes
        <4> QED BY <2>1, <4>2, <4>4, <4>5, <4>6
      <3>2. CASE ~ place.repack
        <4>1. bf = file /\ bd = data /\ h = -1
          BY <3>2, <1>4
        <4> QED BY <4>1, <2>1 DEF SameBytes, SameByte, IsTable, ChangedFrom, MovedFrom
      <3> QED BY <3>1, <3>2
    <2>3. FilesLaidOut /\ FilesLaidOut'
      BY FilesAreLaidOut, FilesNextLaidOut
    <2> HIDE DEF base, place, packed
    <2>4. /\ file'[i].offset = offset /\ file'[i].length = length
          /\ \A g \in Live : g # i /\ file'[g] = bf[g] /\ g \in Live'
          /\ i \in Live' /\ phase' = "open"
      BY <1>1, <1>2, <1>3, <1>5, <1>7, <2>2 DEF Live, IInv, ControlInv
    <2>5. offset \in Nat /\ offset + length <= FileDataLen /\ LaidOut(Live', file')
      BY <2>3, <2>4 DEF FilesLaidOut, LaidOut, Fits
    <2>6. PICK later : later = data'
      OBVIOUS
    <2>7. /\ IsData(later)
          /\ \A p \in 0 .. FileDataLen - 1 :
               later[p] = IF p \in offset .. offset + length - 1 THEN 0 ELSE bd[p]
      BY <1>5, <1>7, <2>2, <2>6 DEF write_null_byte, IsData
    <2>8. ASSUME NEW g \in Live PROVE BytesOf(g)' = BytesOf(g)
      <3>1. PICK T, files : T = Live' /\ files = file'
        OBVIOUS
      <3>2. \A p \in 0 .. FileDataLen - 1 :
              p < files[i].offset \/ p >= files[i].offset + files[i].length => later[p] = bd[p]
        <4> SUFFICES ASSUME NEW p \in 0 .. FileDataLen - 1,
                            p < offset \/ p >= offset + length
                     PROVE  later[p] = bd[p]
          BY <2>4, <3>1
        <4>1. p \notin offset .. offset + length - 1
          BY <2>5
        <4> QED BY <4>1, <2>7
      <3>3. LaidOut(T, files) /\ i \in T /\ g \in T /\ g # i
        BY <2>4, <2>5, <3>1
      <3>4. SameBytes(files[g], bd, files[g], later)
        BY <3>2, <3>3, WriteInside
      <3>5. SameBytes(file[g], data, file'[g], data')
        <4>1. SameBytes(file[g], data, files[g], bd)
          BY <2>2, <2>4, <3>1
        <4> QED BY <4>1, <3>1, <3>4, <2>6, BytesFollow
      <3> QED BY <2>3, <2>4, <3>5, FileKeeps
    <2>9. BytesOf(i)' = F!Zeros(length)
      <3>1. \A p \in 1 .. length : later[offset + p - 1] = 0
        <4> SUFFICES ASSUME NEW p \in 1 .. length PROVE later[offset + p - 1] = 0
          OBVIOUS
        <4>1. PICK x : x = offset + p - 1
          OBVIOUS
        <4>2. x \in 0 .. FileDataLen - 1 /\ x \in offset .. offset + length - 1
          BY <4>1, <2>5, LengthAssumption
        <4> QED BY <4>1, <4>2, <2>7
      <3>2. dir'[i].offset = offset /\ dir'[i].length = length
        BY <2>3, <2>4 DEF FilesLaidOut
      <3> QED BY <3>1, <3>2, <2>6 DEF BytesOf, read_bytes, F!Zeros
    <2>10. PICK lo, hi : lo = (IF h = -1 THEN offset ELSE h) /\ hi = offset + length
      OBVIOUS
    <2>11. Rehashes(lo, hi)
      <3>1. /\ lo \in Nat /\ hi \in Nat /\ lo <= offset /\ lo < hi /\ hi <= FileDataLen
            /\ h # -1 => h >= 0 /\ used + length - h = hi - lo /\ lo = h
            /\ h = -1 => ~ (h >= 0) /\ lo = offset /\ length = hi - lo
        <4>1. length \in Nat \ {0} /\ offset \in Nat /\ used \in Nat
          BY <2>1, <2>5
        <4>2. CASE h = -1
          BY <4>1, <4>2, <2>5, <2>10
        <4>3. CASE h \in 0 .. offset - 1 /\ offset = used
          BY <4>1, <4>3, <2>5, <2>10
        <4> QED BY <4>2, <4>3, <2>2
      <3>2. hash' = compute_hash_block_range(hash, data', lo, hi - lo)
        BY <1>5, <1>7, <3>1
      <3>3. ASSUME NEW p \in 0 .. FileDataLen - 1, later[p] # data[p] PROVE lo <= p /\ p < hi
        <4>1. CASE p \in offset .. offset + length - 1
          BY <4>1, <2>5, <2>10, <3>1
        <4>2. CASE p \notin offset .. offset + length - 1
          <5>1. bd[p] # data[p]
            BY <4>2, <2>7, <3>3
          <5> QED BY <5>1, <2>2, <2>5, <2>10 DEF ChangedFrom
        <4> QED BY <4>1, <4>2
      <3>4. ASSUME NEW g \in Repacked
            PROVE  lo <= file'[g].offset /\ file'[g].offset + file'[g].length <= hi
        <4>1. g \in Live /\ file'[g].offset # file[g].offset /\ file'[g].length = file[g].length
          BY DEF Repacked
        <4>2. file'[g] = bf[g]
          BY <2>4, <4>1
        <4>3. /\ h # -1 /\ h <= bf[g].offset /\ bf[g].offset + file[g].length <= offset
          BY <2>2, <4>1, <4>2 DEF MovedFrom
        <4>4. file'[g].offset \in Nat /\ file'[g].length \in Nat
          BY <2>4, <2>5, <4>1 DEF LaidOut, Fits
        <4> QED BY <2>5, <2>10, <4>1, <4>2, <4>3, <4>4
      <3>5. Live \subseteq Live'
        BY <2>4
      <3> QED BY <2>6, <3>1, <3>2, <3>3, <3>4, <3>5 DEF Rehashes
    <2> QED BY <2>4, <2>6, <2>7, <2>8, <2>9, <2>11
  <1> QED BY <1>6, <1>7

LEMMA ResizeContent ==
  ASSUME IInv, SizedInv, LayoutInv, LengthFits, IsData(data), IInv', LayoutInv',
         NEW a \in FileName, NEW length \in Nat \ {0}, resize_file(a, length),
         NEW i \in Index, i = lookup(a)
  PROVE  \/ Fault
         \/ /\ phase' = "open" /\ IsData(data')
            /\ \A g \in Live : g # i => BytesOf(g)' = BytesOf(g)
            /\ BytesOf(i)' = F!Resized(BytesOf(i), length)
            /\ Untouched \/ \E lo, hi : Rehashes(lo, hi)
  <1>1. PICK old, r : old = file[i].length /\ r = resize_file_helper(i, length, old)
    OBVIOUS
  <1>2. /\ index[i] = 1 /\ phase = "open" /\ i \in Live /\ resize_code(a, length) = 0
    BY LookupLive DEF resize_file, resize_code, Live
  <1>3. length \in 0 .. FileDataLen /\ uint32(length) = length
    BY <1>2, CodesBound, Uint32Fits
  <1>4. /\ used \in Nat /\ old \in 1 .. used /\ old \in Nat
        /\ used + length - old <= FileDataLen
    <2>1. used \in Nat /\ file[i].length \in 1 .. used
      BY <1>2, HeldBytes
    <2>2. ~ (used + length - file[i].length > FileDataLen)
      BY <1>2, IndexFinite DEF resize_code, Index, None
    <2> QED BY <1>1, <2>1, <2>2, LengthAssumption
  <1>5. ~ (length - old >= MAX_FILE_DATA_LEN)
    BY <1>3, <1>4, LengthAssumption DEF LengthFits
  <1>6. ~ detach_fails(i, length)
    BY <1>1, <1>2, <1>3, <1>4, ResizeArranged
  <1>7. \/ Fault
        \/ /\ file' = r.file /\ index' = index /\ phase' = phase
           /\ data' = write_null_byte(r.data, r.file[i].offset + old, length - old)
           /\ length # old
           /\ hash' = IF length < old THEN hash
                      ELSE IF r.hash_offset >= 0
                      THEN compute_hash_block_range(hash, data', r.hash_offset,
                             r.file[i].offset + length - r.hash_offset)
                      ELSE compute_hash_block_range(hash, data', r.file[i].offset + old,
                             length - old)
    BY <1>1, <1>5, <1>6 DEF resize_file
  <1>8. CASE Fault
    BY <1>8
  <1>9. CASE ~ Fault
    <2>1. /\ IsData(r.data) /\ r.file[i].length = length
          /\ \A g \in Live : g # i => SameBytes(file[g], data, r.file[g], r.data)
          /\ \A q \in 0 .. old - 1 : SameByte(q, file[i], data, r.file[i], r.data)
          /\ HelperChanges(r, i, length, old)
      <3>1. old <= file[i].length /\ used + length - file[i].length <= FileDataLen
        BY <1>1, <1>4
      <3> QED BY <3>1, <1>1, <1>2, <1>3, <1>4, ResizeBytes
    <2>2. FilesLaidOut /\ FilesLaidOut' /\ Live' = Live /\ phase' = "open"
      BY <1>2, <1>7, <1>9, FilesAreLaidOut, FilesNextLaidOut DEF Live
    <2>3. PICK start, bd, later, T, files :
            /\ start = r.file[i].offset /\ bd = r.data /\ later = data'
            /\ T = Live /\ files = file'
      OBVIOUS
    <2>4. /\ files = r.file /\ files[i].offset = start /\ files[i].length = length
          /\ LaidOut(T, files) /\ i \in T
          /\ start \in Nat /\ start + length <= FileDataLen
      BY <1>2, <1>7, <1>9, <2>1, <2>2, <2>3 DEF FilesLaidOut, LaidOut, Fits
    <2>5. /\ IsData(later)
          /\ \A p \in 0 .. FileDataLen - 1 :
               later[p] = IF p \in start + old .. start + old + (length - old) - 1
                          THEN 0 ELSE bd[p]
      BY <1>7, <1>9, <2>1, <2>3 DEF write_null_byte, IsData
    <2>6. \A p \in 0 .. FileDataLen - 1 :
               later[p] = IF start + old <= p /\ p < start + length THEN 0 ELSE bd[p]
      BY <1>4, <2>4, <2>5
    <2>7. ASSUME NEW g \in Live, g # i PROVE BytesOf(g)' = BytesOf(g)
      <3>1. \A p \in 0 .. FileDataLen - 1 :
              p < files[i].offset \/ p >= files[i].offset + files[i].length => later[p] = bd[p]
        BY <1>4, <2>4, <2>6
      <3>2. SameBytes(files[g], bd, files[g], later)
        BY <2>3, <2>4, <2>7, <3>1, WriteInside
      <3>3. SameBytes(file[g], data, files[g], bd)
        BY <2>1, <2>3, <2>4, <2>7
      <3>4. SameBytes(file[g], data, file'[g], data')
        BY <2>3, <3>2, <3>3, BytesFollow
      <3> QED BY <2>2, <3>4, FileKeeps
    <2>8. BytesOf(i)' = F!Resized(BytesOf(i), length)
      <3>1. /\ dir[i].offset = file[i].offset /\ dir[i].length = old /\ file[i].offset \in Nat
            /\ dir'[i].offset = start /\ dir'[i].length = length
        BY <1>1, <1>2, <2>2, <2>3, <2>4, SMTT(30) DEF FilesLaidOut, LaidOut, Fits
      <3>2. PICK before : before = BytesOf(i)
        OBVIOUS
      <3>3. before = [p \in 1 .. old |-> data[file[i].offset + p - 1]]
        BY <3>1, <3>2 DEF BytesOf, read_bytes
      <3>4. Len(before) = old
        BY <1>4, <3>3
      <3>5. ASSUME NEW p \in 1 .. length
            PROVE  later[start + p - 1] = IF p <= old THEN before[p] ELSE 0
        <4>1. PICK x, q : x = start + p - 1 /\ q = p - 1
          OBVIOUS
        <4>2. x \in 0 .. FileDataLen - 1 /\ x = start + q /\ q \in Nat /\ x < start + length
          BY <4>1, <2>4, LengthAssumption
        <4>3. CASE p <= old
          <5>1. ~ (start + old <= x) /\ q \in 0 .. old - 1 /\ p \in 1 .. old
                /\ file[i].offset + p - 1 = file[i].offset + q
            BY <4>1, <4>2, <4>3, <1>4, <2>4, <3>1
          <5>2. later[x] = bd[x] /\ bd[x] = data[file[i].offset + q]
            BY <5>1, <4>2, <2>1, <2>3, <2>6 DEF SameByte
          <5>3. before[p] = data[file[i].offset + q]
            BY <5>1, <3>3
          <5> QED BY <4>1, <4>3, <5>2, <5>3
        <4>4. CASE ~ (p <= old)
          <5>1. start + old <= x
            BY <4>1, <4>2, <4>4, <1>4, <2>4
          <5>2. later[x] = 0
            BY <5>1, <4>2, <2>6
          <5> QED BY <4>1, <4>4, <5>2
        <4> QED BY <4>3, <4>4
      <3>6. BytesOf(i)' = [p \in 1 .. length |-> later[start + p - 1]]
        BY <2>3, <3>1 DEF BytesOf, read_bytes
      <3> QED BY <3>2, <3>4, <3>5, <3>6 DEF F!Resized
    <2>9. PICK h : h = r.hash_offset
      OBVIOUS
    <2>10. /\ h = -1 \/ (h \in 0 .. start - 1 /\ length > old)
           /\ \A p \in 0 .. FileDataLen - 1 : bd[p] # data[p] =>
                /\ p < start + old
                /\ \/ h # -1 /\ h <= p
                   \/ h = -1 /\ length > old /\ start # file[i].offset /\ start <= p
           /\ MovedFrom(h, start, Live \ {i}, file, files)
      BY <1>1, <2>1, <2>3, <2>4, <2>9 DEF HelperChanges
    <2>11. ASSUME NEW g \in Repacked
           PROVE  /\ h # -1 /\ h <= file'[g].offset
                  /\ file'[g].offset + file'[g].length <= start + length
      <3>1. g \in Live /\ file'[g].offset # file[g].offset /\ file'[g].length = file[g].length
        BY DEF Repacked
      <3>2. g \in Live \ {i} /\ file'[g] = files[g]
        BY <1>1, <1>7, <1>9, <2>3, <2>4, <3>1
      <3>3. h # -1 /\ h <= files[g].offset /\ files[g].offset + file[g].length <= start
        BY <2>10, <3>1, <3>2 DEF MovedFrom
      <3>4. files[g].offset \in Nat /\ files[g].length \in Nat
        BY <2>3, <2>4, <3>1 DEF LaidOut, Fits
      <3> QED BY <2>4, <3>1, <3>2, <3>3, <3>4
    <2>12. CASE length < old
      <3>1. hash' = hash
        BY <1>7, <1>9, <2>12
      <3>2. h = -1 /\ \A p \in 0 .. FileDataLen - 1 : later[p] = data[p]
        BY <1>4, <2>4, <2>6, <2>10, <2>12
      <3>3. data' = data
        BY <2>3, <2>5, <3>2 DEF IsData
      <3>4. Repacked = {}
        BY <2>11, <3>2
      <3> QED BY <3>1, <3>3, <3>4, <2>2, <2>3, <2>5, <2>7, <2>8 DEF Untouched
    <2>13. CASE length > old
      <3>1. PICK lo, hi : lo = (IF h = -1 THEN start + old ELSE h) /\ hi = start + length
        OBVIOUS
      <3>2. /\ lo \in Nat /\ hi \in Nat /\ lo <= start + old /\ lo < hi /\ hi <= FileDataLen
            /\ hi = start + length
            /\ h # -1 => h >= 0 /\ start + length - h = hi - lo /\ lo = h
            /\ h = -1 => ~ (h >= 0) /\ lo = start + old /\ length - old = hi - lo
        <4>1. length \in Nat /\ start \in Nat /\ old \in Nat
          BY <1>4, <2>4
        <4>2. CASE h = -1
          BY <4>1, <4>2, <2>4, <2>13, <3>1
        <4>3. CASE h \in 0 .. start - 1
          BY <4>1, <4>3, <2>4, <2>13, <3>1
        <4> QED BY <4>2, <4>3, <2>10
      <3>3. hash' = compute_hash_block_range(hash, data', lo, hi - lo)
        <4>1. ~ (length < old)
          BY <1>4, <2>13
        <4>2. CASE h = -1
          BY <1>7, <1>9, <2>3, <2>9, <3>2, <4>1, <4>2
        <4>3. CASE h # -1
          BY <1>7, <1>9, <2>3, <2>9, <3>2, <4>1, <4>3
        <4> QED BY <4>2, <4>3
      <3>4. Relocated(i) <=> start # file[i].offset
        BY <1>1, <1>2, <2>2, <2>3, <2>4, <2>13 DEF Relocated
      <3>5. ASSUME NEW p \in 0 .. FileDataLen - 1, later[p] # data[p]
            PROVE  \/ lo <= p /\ p < hi
                   \/ Relocated(i) /\ start <= p /\ p < start + length
        <4>1. CASE start + old <= p /\ p < start + length
          <5>1. start \in Nat /\ old \in Nat /\ p \in Nat
            BY <1>4, <2>4
          <5> QED BY <4>1, <5>1, <3>2
        <4>2. CASE ~ (start + old <= p /\ p < start + length)
          <5>1. bd[p] # data[p]
            BY <4>2, <2>6, <3>5
          <5>2. /\ p < start + old
                /\ \/ h # -1 /\ h <= p
                   \/ h = -1 /\ start # file[i].offset /\ start <= p
            BY <5>1, <2>10
          <5>3. p < start + length
            BY <5>2, <1>4, <2>4, <2>13
          <5>4. CASE h # -1 /\ h <= p
            BY <5>3, <5>4, <3>1
          <5>5. CASE start # file[i].offset /\ start <= p
            BY <5>3, <5>5, <3>4
          <5> QED BY <5>2, <5>4, <5>5
        <4> QED BY <4>1, <4>2
      <3>6. \A g \in Repacked : lo <= file'[g].offset /\ file'[g].offset + file'[g].length <= hi
        BY <2>11, <3>1
      <3>7. i \in Live /\ file'[i].offset = start /\ file'[i].length = length
        BY <1>2, <2>3, <2>4
      <3>8. Rehashes(lo, hi)
        BY <2>2, <2>3, <3>2, <3>3, <3>5, <3>6, <3>7 DEF Rehashes
      <3> QED BY <3>8, <2>2, <2>3, <2>5, <2>7, <2>8
    <2>14. length < old \/ length > old
      BY <1>4, <1>7, <1>9
    <2> QED BY <2>12, <2>13, <2>14
  <1> QED BY <1>8, <1>9

(* An offset returned by a repack fits in the int32_t of write_file. *)
HalfFits == FileDataLen <= MAX_FILE_DATA_LEN \div 2

LEMMA HalfIsLess == HalfFits => LengthFits
  <1>1. MAX_FILE_DATA_LEN \in Nat /\ FileDataLen \in Nat \ {0}
    BY LengthAssumption
  <1>2. MAX_FILE_DATA_LEN \div 2 <= MAX_FILE_DATA_LEN
    BY <1>1
  <1>3. MAX_FILE_DATA_LEN \div 2 < MAX_FILE_DATA_LEN \/ MAX_FILE_DATA_LEN = 0
    BY <1>1
  <1>4. MAX_FILE_DATA_LEN \div 2 \in Nat
    BY <1>1
  <1> QED BY <1>1, <1>2, <1>3, <1>4 DEF HalfFits, LengthFits

LEMMA Int32Fits ==
  ASSUME HalfFits PROVE int32(-1) = -1 /\ \A h \in 0 .. FileDataLen - 1 : int32(h) = h
  <1>1. PICK half : half = MAX_FILE_DATA_LEN \div 2
    OBVIOUS
  <1>2. half \in Nat /\ FileDataLen \in Nat /\ FileDataLen <= half
    BY <1>1, LengthAssumption DEF HalfFits
  <1>3. \A h : int32(h) = IF h >= half THEN h - MAX_FILE_DATA_LEN ELSE h
    BY <1>1 DEF int32
  <1> QED BY <1>2, <1>3

LEMMA WriteContent ==
  ASSUME IInv, SizedInv, LayoutInv, LengthFits, IsData(data), IInv', LayoutInv',
         NEW a \in FileName, NEW offset \in Nat, NEW buf \in Buffers, write_file(a, offset, buf),
         NEW i \in Index, i = lookup(a)
  PROVE  \/ Fault
         \/ /\ phase' = "open" /\ IsData(data')
            /\ \A g \in Live : g # i => BytesOf(g)' = BytesOf(g)
            /\ BytesOf(i)' = F!Written(BytesOf(i), offset, buf)
            /\ HalfFits => \E lo, hi : Rehashes(lo, hi)
  <1> DEFINE grown == resize_file_helper(i, offset + Len(buf), offset)
  <1>1. PICK count, end, old, r :
          /\ count = Len(buf) /\ end = offset + count /\ old = file[i].length
          /\ r = IF end > old THEN grown
                 ELSE [file |-> file, dir |-> dir, data |-> data, o_list |-> o_list,
                       hash_offset |-> -1]
    OBVIOUS
  <1>2. /\ index[i] = 1 /\ phase = "open" /\ i \in Live
        /\ write_code(a, offset, count) = 0 /\ count > 0 /\ count \in Nat
    BY <1>1, LookupLive, VfsAssumption DEF write_file, write_code, Live
  <1>3. /\ end \in 0 .. FileDataLen /\ uint32(end) = end /\ end \in Nat \ {0}
    <2>1. end \in 0 .. FileDataLen
      BY <1>1, <1>2, CodesBound
    <2> QED BY <1>1, <1>2, <2>1, Uint32Fits
  <1>4. /\ used \in Nat /\ old \in 1 .. used /\ old \in Nat /\ offset <= old
        /\ used + end - old <= FileDataLen
    <2>1. used \in Nat /\ file[i].length \in 1 .. used
      BY <1>2, HeldBytes
    <2>2. ~ (used + offset + count - file[i].length > FileDataLen) /\ ~ (offset > file[i].length)
      BY <1>2, IndexFinite DEF write_code, Index, None
    <2>3. used + offset + count - old = used + end - old
      <3>1. old \in Int /\ count \in Int /\ used \in Int /\ offset \in Int
        BY <1>1, <1>2, <2>1
      <3>2. end = offset + count
        BY <1>1
      <3> QED BY <3>1, <3>2
    <2>4. used + end - old \in Int /\ FileDataLen \in Int
      BY <1>1, <1>3, <2>1, LengthAssumption
    <2>5. used \in Nat /\ old \in 1 .. used /\ old \in Nat
      BY <1>1, <2>1
    <2>6. offset <= old
      <3>1. ~ (offset > old)
        BY <1>1, <2>2
      <3> QED BY <2>5, <3>1
    <2>7. used + end - old <= FileDataLen
      <3>1. ~ (used + end - old > FileDataLen)
        <4>1. ~ (used + offset + count - old > FileDataLen)
          BY <1>1, <2>2
        <4> QED BY <2>3, <4>1
      <3> QED BY <2>4, <3>1
    <2> QED BY <2>5, <2>6, <2>7
  <1>5. ~ detach_fails(i, end)
    BY <1>1, <1>2, <1>3, <1>4, ResizeArranged
  <1>6. \/ Fault
        \/ /\ file' = r.file /\ index' = index /\ phase' = phase
           /\ data' = copy_bytes(r.data, r.file[i].offset + offset, buf)
           /\ hash' = IF int32(r.hash_offset) >= 0
                      THEN compute_hash_block_range(hash, data', int32(r.hash_offset),
                             (IF end > old THEN used + end - old ELSE used)
                               - int32(r.hash_offset))
                      ELSE compute_hash_block_range(hash, data', r.file[i].offset + offset, count)
    BY <1>1, <1>5 DEF write_file
  <1>7. CASE Fault
    BY <1>7
  <1>8. CASE ~ Fault
    <2>1. PICK now \in Nat : now = IF end > old THEN end ELSE old
      BY <1>3, <1>4
    <2>2. /\ IsData(r.data) /\ r.file[i].length = now
          /\ \A g \in Live : g # i => SameBytes(file[g], data, r.file[g], r.data)
          /\ \A q \in 0 .. offset - 1 : SameByte(q, file[i], data, r.file[i], r.data)
          /\ end <= old => r.file = file /\ r.data = data /\ r.hash_offset = -1
          /\ end > old => HelperChanges(r, i, end, offset)
      <3>1. CASE end > old
        <4>1. r = resize_file_helper(i, end, offset)
          BY <1>1, <3>1
        <4>2. offset <= file[i].length /\ used + end - file[i].length <= FileDataLen
          BY <1>1, <1>4
        <4> HIDE DEF grown
        <4>3. /\ IsData(r.data) /\ r.file[i].length = end
              /\ \A g \in Live : g # i => SameBytes(file[g], data, r.file[g], r.data)
              /\ \A q \in 0 .. offset - 1 : SameByte(q, file[i], data, r.file[i], r.data)
              /\ HelperChanges(r, i, end, offset)
          BY <4>1, <4>2, <1>2, <1>3, ResizeBytes
        <4>4. ~ (end <= old)
          BY <3>1, <1>3, <1>4
        <4> QED BY <2>1, <3>1, <4>3, <4>4
      <3>2. CASE ~ (end > old)
        <4>1. r.file = file /\ r.data = data /\ r.hash_offset = -1
          BY <1>1, <3>2
        <4> QED BY <1>1, <2>1, <3>2, <4>1 DEF SameBytes, SameByte
      <3> QED BY <3>1, <3>2
    <2>3. FilesLaidOut /\ FilesLaidOut' /\ Live' = Live /\ phase' = "open"
      BY <1>2, <1>6, <1>8, FilesAreLaidOut, FilesNextLaidOut DEF Live
    <2>4. PICK start, bd, later, T, files :
            /\ start = r.file[i].offset /\ bd = r.data /\ later = data'
            /\ T = Live /\ files = file'
      OBVIOUS
    <2>5. /\ files = r.file /\ files[i].offset = start /\ files[i].length = now
          /\ LaidOut(T, files) /\ i \in T
          /\ start \in Nat /\ start + now <= FileDataLen
      BY <1>2, <1>6, <1>8, <2>2, <2>3, <2>4 DEF FilesLaidOut, LaidOut, Fits
    <2>6. end <= now /\ old <= now
      BY <1>3, <1>4, <2>1
    <2>7. /\ IsData(later)
          /\ \A p \in 0 .. FileDataLen - 1 :
               later[p] = IF p \in start + offset .. start + offset + count - 1
                          THEN buf[p - (start + offset) + 1] ELSE bd[p]
      BY <1>1, <1>6, <1>8, <2>2, <2>4 DEF copy_bytes, IsData
    <2>8. ASSUME NEW g \in Live, g # i PROVE BytesOf(g)' = BytesOf(g)
      <3>1. \A p \in 0 .. FileDataLen - 1 :
              p < files[i].offset \/ p >= files[i].offset + files[i].length => later[p] = bd[p]
        <4> SUFFICES ASSUME NEW p \in 0 .. FileDataLen - 1, p < start \/ p >= start + now
                     PROVE  later[p] = bd[p]
          BY <2>5
        <4>1. p \notin start + offset .. start + offset + count - 1
          BY <1>1, <1>2, <1>3, <2>5, <2>6
        <4> QED BY <4>1, <2>7
      <3>2. SameBytes(files[g], bd, files[g], later)
        BY <2>4, <2>5, <2>8, <3>1, WriteInside
      <3>3. SameBytes(file[g], data, files[g], bd)
        BY <2>2, <2>4, <2>5, <2>8
      <3>4. SameBytes(file[g], data, file'[g], data')
        BY <2>4, <3>2, <3>3, BytesFollow
      <3> QED BY <2>3, <3>4, FileKeeps
    <2>9. BytesOf(i)' = F!Written(BytesOf(i), offset, buf)
      <3>1. /\ dir[i].offset = file[i].offset /\ dir[i].length = old /\ file[i].offset \in Nat
            /\ dir'[i].offset = start /\ dir'[i].length = now
        BY <1>1, <1>2, <2>3, <2>4, <2>5 DEF FilesLaidOut, LaidOut, Fits
      <3>2. PICK before : before = BytesOf(i)
        OBVIOUS
      <3>3. before = [p \in 1 .. old |-> data[file[i].offset + p - 1]]
        BY <3>1, <3>2 DEF BytesOf, read_bytes
      <3>4. Len(before) = old
        BY <1>4, <3>3
      <3>5. ASSUME NEW p \in 1 .. now
            PROVE  later[start + p - 1] = IF p > offset /\ p <= end THEN buf[p - offset]
                                          ELSE before[p]
        <4>1. PICK x, q : x = start + p - 1 /\ q = p - 1
          OBVIOUS
        <4>2. x \in 0 .. FileDataLen - 1 /\ x = start + q /\ q \in Nat /\ p \in Nat
          BY <4>1, <2>5, LengthAssumption
        <4>3. CASE p > offset /\ p <= end
          <5>1. /\ x \in start + offset .. start + offset + count - 1
                /\ x - (start + offset) + 1 = p - offset
            BY <4>1, <4>2, <4>3, <1>1, <1>2, <2>5
          <5>2. later[x] = buf[p - offset]
            BY <5>1, <4>2, <2>7
          <5> QED BY <4>1, <4>3, <5>2
        <4>4. CASE ~ (p > offset /\ p <= end)
          <5>1. x \notin start + offset .. start + offset + count - 1
            BY <4>1, <4>2, <4>4, <1>1, <1>2, <2>5
          <5>2. later[x] = bd[x]
            BY <5>1, <4>2, <2>7
          <5>3. p <= offset \/ p > end
            BY <4>4, <4>2, <1>3
          <5>4. q \in 0 .. offset - 1 \/ end <= old
            <6>1. CASE p <= offset
              BY <6>1, <4>1, <4>2
            <6>2. CASE p > end
              BY <6>2, <1>3, <1>4, <2>1
            <6> QED BY <5>3, <6>1, <6>2
          <5>5. p \in 1 .. old
            <6>1. CASE p <= offset
              BY <6>1, <4>2, <1>4
            <6>2. CASE p > end
              BY <6>2, <1>3, <1>4, <2>1
            <6> QED BY <5>3, <6>1, <6>2
          <5>6. before[p] = data[file[i].offset + q]
            <6>1. file[i].offset + p - 1 = file[i].offset + q
              BY <4>1, <4>2, <3>1
            <6> QED BY <5>5, <6>1, <3>3
          <5>7. bd[start + q] = data[file[i].offset + q]
            <6>1. CASE q \in 0 .. offset - 1
              BY <6>1, <2>2, <2>4 DEF SameByte
            <6>2. CASE end <= old
              BY <6>2, <2>2, <2>4
            <6> QED BY <5>4, <6>1, <6>2
          <5>8. later[x] = before[p]
            BY <4>2, <5>2, <5>6, <5>7
          <5> QED BY <4>1, <4>4, <5>8
        <4> QED BY <4>3, <4>4
      <3>6. BytesOf(i)' = [p \in 1 .. now |-> later[start + p - 1]]
        BY <2>4, <3>1 DEF BytesOf, read_bytes
      <3>7. BytesOf(i)' = [p \in 1 .. now |-> IF p > offset /\ p <= end THEN buf[p - offset]
                                             ELSE before[p]]
        BY <3>5, <3>6
      <3> QED BY <1>1, <2>1, <3>2, <3>4, <3>7 DEF F!Written
    <2>10. PICK h : h = r.hash_offset
      OBVIOUS
    <2>11. /\ h = -1 \/ (h \in 0 .. start - 1 /\ end > old /\ start = used - old)
           /\ \A p \in 0 .. FileDataLen - 1 : bd[p] # data[p] =>
                /\ p < start + offset
                /\ \/ h # -1 /\ h <= p
                   \/ h = -1 /\ end > old /\ start # file[i].offset /\ start <= p
           /\ MovedFrom(h, start, Live \ {i}, file, files)
      <3>1. CASE end > old
        <4>1. HelperChanges(r, i, end, offset)
          BY <3>1, <2>2
        <4> QED BY <4>1, <1>1, <2>4, <2>5, <2>10 DEF HelperChanges
      <3>2. CASE end <= old
        BY <3>2, <2>2, <2>4, <2>5, <2>10 DEF MovedFrom
      <3> QED BY <3>1, <3>2, <1>3, <1>4
    <2>12. ASSUME NEW g \in Repacked
           PROVE  /\ h # -1 /\ h <= file'[g].offset
                  /\ file'[g].offset + file'[g].length <= start
      <3>1. g \in Live /\ file'[g].offset # file[g].offset /\ file'[g].length = file[g].length
        BY DEF Repacked
      <3>2. g \in Live \ {i} /\ file'[g] = files[g]
        <4>1. g = i => now = old
          BY <1>1, <2>4, <2>5, <3>1
        <4>2. g = i => end <= old
          BY <4>1, <1>3, <1>4, <2>1
        <4>3. g = i => file' = file
          BY <4>2, <2>2, <2>4, <2>5
        <4> QED BY <4>3, <2>4, <3>1
      <3>3. h # -1 /\ h <= files[g].offset /\ files[g].offset + file[g].length <= start
        BY <2>11, <3>1, <3>2 DEF MovedFrom
      <3> QED BY <3>1, <3>2, <3>3
    <2>13. ASSUME HalfFits PROVE \E lo, hi : Rehashes(lo, hi)
      <3>1. PICK lo, hi : lo = (IF h = -1 THEN start + offset ELSE h) /\ hi = start + end
        OBVIOUS
      <3>2. /\ start \in Nat /\ end \in Nat /\ count \in Nat \ {0} /\ end = offset + count
            /\ start + end <= FileDataLen /\ FileDataLen \in Nat
        BY <1>1, <1>2, <1>3, <2>5, <2>6, LengthAssumption
      <3>3. /\ lo \in Nat /\ hi \in Nat /\ lo <= start + offset /\ lo < hi /\ hi <= FileDataLen
            /\ hi = start + end
            /\ h # -1 => /\ h >= 0 /\ h \in 0 .. FileDataLen - 1 /\ lo = h /\ end > old
                         /\ used + end - old - h = hi - lo
            /\ h = -1 => lo = start + offset /\ count = hi - lo
        <4>1. CASE h = -1
          BY <3>1, <3>2, <4>1
        <4>2. CASE h \in 0 .. start - 1 /\ end > old /\ start = used - old
          BY <1>4, <3>1, <3>2, <4>2
        <4> QED BY <4>1, <4>2, <2>11
      <3>4. hash' = compute_hash_block_range(hash, data', lo, hi - lo)
        <4>1. int32(h) = h
          BY <2>13, <3>3, Int32Fits
        <4>2. CASE h = -1
          <5>1. hash' = compute_hash_block_range(hash, data', start + offset, count)
            BY <1>6, <1>8, <2>4, <2>10, <4>1, <4>2
          <5> QED BY <5>1, <3>3, <4>2
        <4>3. CASE h # -1
          <5>1. h >= 0 /\ lo = h /\ end > old /\ used + end - old - h = hi - lo
            BY <3>3, <4>3
          <5>2. hash' = IF int32(h) >= 0
                        THEN compute_hash_block_range(hash, data', int32(h),
                               (IF end > old THEN used + end - old ELSE used) - int32(h))
                        ELSE compute_hash_block_range(hash, data', start + offset, count)
            BY <1>6, <1>8, <2>4, <2>10
          <5>3. (IF end > old THEN used + end - old ELSE used) = used + end - old
            BY <5>1
          <5>4. PICK total : total = (IF end > old THEN used + end - old ELSE used)
            OBVIOUS
          <5>5. total - h = hi - lo
            <6>1. used \in Int /\ end \in Int /\ old \in Int /\ h \in Int
              BY <1>4, <3>2, <3>3, <4>3
            <6> QED BY <5>1, <5>3, <5>4, <6>1
          <5>6. hash' = compute_hash_block_range(hash, data', h, total - h)
            BY <4>1, <5>1, <5>2, <5>4
          <5> QED BY <5>1, <5>5, <5>6
        <4> QED BY <4>2, <4>3
      <3>5. end > old => (Relocated(i) <=> start # file[i].offset)
        <4>1. end > old => file'[i].length > file[i].length
          BY <1>1, <2>1, <2>4, <2>5
        <4> QED BY <4>1, <1>2, <2>3, <2>4, <2>5 DEF Relocated
      <3>6. ASSUME NEW p \in 0 .. FileDataLen - 1, later[p] # data[p]
            PROVE  \/ lo <= p /\ p < hi
                   \/ Relocated(i) /\ start <= p /\ p < start + now
        <4>1. CASE p \in start + offset .. start + offset + count - 1
          <5>1. start + offset <= p /\ p < start + end
            BY <3>2, <4>1
          <5> QED BY <5>1, <3>2, <3>3
        <4>2. CASE p \notin start + offset .. start + offset + count - 1
          <5>1. bd[p] # data[p]
            BY <4>2, <2>7, <3>6
          <5>2. /\ p < start + offset
                /\ \/ h # -1 /\ h <= p
                   \/ h = -1 /\ end > old /\ start # file[i].offset /\ start <= p
            BY <5>1, <2>11
          <5>3. p < start + end /\ p < start + now
            BY <5>2, <2>6, <3>2
          <5>4. CASE h # -1 /\ h <= p
            BY <5>3, <5>4, <3>3
          <5>5. CASE end > old /\ start # file[i].offset /\ start <= p
            BY <5>3, <5>5, <3>5
          <5> QED BY <5>2, <5>4, <5>5
        <4> QED BY <4>1, <4>2
      <3>7. \A g \in Repacked : lo <= file'[g].offset /\ file'[g].offset + file'[g].length <= hi
        <4> SUFFICES ASSUME NEW g \in Repacked
                     PROVE  lo <= file'[g].offset /\ file'[g].offset + file'[g].length <= hi
          OBVIOUS
        <4>1. /\ h # -1 /\ h <= file'[g].offset
              /\ file'[g].offset + file'[g].length <= start
          BY <2>12
        <4>2. file'[g].offset \in Nat /\ file'[g].length \in Nat
          BY <2>3, <2>4, <2>5 DEF LaidOut, Fits, Repacked
        <4> QED BY <4>1, <4>2, <3>2, <3>3
      <3>8. i \in Live /\ file'[i].offset = start /\ file'[i].length = now
        BY <1>2, <2>4, <2>5
      <3>9. Rehashes(lo, hi)
        BY <2>3, <2>4, <3>3, <3>4, <3>6, <3>7, <3>8 DEF Rehashes
      <3> QED BY <3>9
    <2> QED BY <2>3, <2>4, <2>7, <2>8, <2>9, <2>13
  <1> QED BY <1>7, <1>8

LEMMA RepackContent ==
  ASSUME IInv, SizedInv, LayoutInv, IsData(data), IInv', LayoutInv', repack
  PROVE  /\ phase' = "open" /\ IsData(data')
         /\ \A g \in Live : BytesOf(g)' = BytesOf(g)
         /\ Untouched \/ \E lo, hi : Rehashes(lo, hi)
  <1>1. PICK r : r = repack_helper(o_list, file, dir, data, used)
    OBVIOUS
  <1>2. /\ phase = "open" /\ phase' = "open" /\ index' = index
        /\ file' = r.file /\ data' = r.data
        /\ hash' = IF r.hash_offset >= 0
                   THEN compute_hash_block_range(hash, data', r.hash_offset, used - r.hash_offset)
                   ELSE hash
    BY <1>1 DEF repack
  <1>3. /\ Held(o_list) = Live /\ Arranged(o_list, file) /\ IsTable(file)
        /\ used \in Nat /\ (used > 0 \/ o_list.size = 0)
    BY <1>2, HeldFiles, HeldBytes DEF IInv, TablesInv
  <1>4. IsData(r.data) /\ \A g \in Live : SameBytes(file[g], data, r.file[g], r.data)
    BY <1>1, <1>3, RepackMoves
  <1>5. FilesLaidOut /\ FilesLaidOut' /\ Live' = Live
    BY <1>2, FilesAreLaidOut, FilesNextLaidOut DEF Live
  <1>6. \A g \in Live : BytesOf(g)' = BytesOf(g)
    BY <1>2, <1>4, <1>5, FileKeeps
  <1>7. PICK h, total, later : h = r.hash_offset /\ total = used /\ later = data'
    OBVIOUS
  <1>8. /\ h = -1 \/ h \in 0 .. total - 1
        /\ ChangedFrom(h, total, data, later) /\ MovedFrom(h, total, Live, file, r.file)
    <2>1. used = SumFunctionOnSet(LengthsOf(file), Held(o_list))
      BY <1>2, <1>3, HeldBytes
    <2>2. /\ r.hash_offset = -1 \/ r.hash_offset \in 0 .. used - 1
          /\ ChangedFrom(r.hash_offset, used, data, r.data)
          /\ MovedFrom(r.hash_offset, used, Held(o_list), file, r.file)
      BY <1>1, <1>3, <2>1, RepackHashes
    <2> QED BY <1>2, <1>3, <1>7, <2>2
  <1>9. \A g \in Repacked : /\ h # -1 /\ h <= file'[g].offset
                            /\ file'[g].offset + file'[g].length <= total
    <2> SUFFICES ASSUME NEW g \in Repacked
                 PROVE  /\ h # -1 /\ h <= file'[g].offset
                        /\ file'[g].offset + file'[g].length <= total
      OBVIOUS
    <2>1. g \in Live /\ file'[g].offset # file[g].offset /\ file'[g].length = file[g].length
      BY DEF Repacked
    <2> QED BY <1>2, <1>8, <2>1 DEF MovedFrom
  <1>10. CASE h = -1
    <2>1. hash' = hash
      BY <1>2, <1>7, <1>10
    <2>2. later = data
      <3>1. \A p \in 0 .. FileDataLen - 1 : later[p] = data[p]
        BY <1>8, <1>10 DEF ChangedFrom
      <3> QED BY <1>2, <1>4, <1>7, <3>1 DEF IsData
    <2>3. Repacked = {}
      BY <1>9, <1>10
    <2>4. Untouched
      BY <1>7, <2>1, <2>2, <2>3 DEF Untouched
    <2> QED BY <1>2, <1>4, <1>6, <2>4
  <1>11. CASE h \in 0 .. total - 1
    <2>1. total \in Nat /\ total <= FileDataLen
      <3>1. used <= FileDataLen
        BY <1>2, UsedWhenOpen
      <3> QED BY <1>3, <1>7, <3>1
    <2>2. hash' = compute_hash_block_range(hash, data', h, total - h)
      BY <1>2, <1>7, <1>11
    <2>3. Rehashes(h, total)
      BY <1>5, <1>7, <1>8, <1>9, <1>11, <2>1, <2>2 DEF Rehashes, ChangedFrom
    <2> QED BY <1>2, <1>4, <1>6, <2>3
  <1> QED BY <1>8, <1>10, <1>11

----------------------------------------------------------------------------
(* The hashes through a step *)

(* Quotients, for a divisor that is not a literal. *)
LEMMA DivBounds ==
  ASSUME NEW a \in Nat, NEW k \in Nat \ {0}
  PROVE  a \div k \in Nat /\ k * (a \div k) <= a /\ a < k * (a \div k) + k
  OBVIOUS

LEMMA TimesMono ==
  ASSUME NEW k \in Nat \ {0}, NEW x \in Int, NEW y \in Int, x < y
  PROVE  k * x + k <= k * y
  OBVIOUS

LEMMA DivMonotonic ==
  ASSUME NEW k \in Nat \ {0}, NEW a \in Nat, NEW b \in Nat, a <= b
  PROVE  a \div k <= b \div k
  <1>1. PICK x \in Nat, y \in Nat : x = a \div k /\ y = b \div k
    BY DivBounds
  <1>2. k * x <= a /\ b < k * y + k
    BY <1>1, DivBounds
  <1>3. CASE y < x
    <2>1. k * y + k <= k * x
      BY <1>3, TimesMono
    <2>2. k * x \in Int /\ k * y \in Int
      OBVIOUS
    <2> QED BY <1>2, <2>1, <2>2
  <1> QED BY <1>1, <1>3

(* Byte q of block b is in block b, *)
LEMMA DivOfByte ==
  ASSUME NEW k \in Nat \ {0}, NEW b \in Nat, NEW q \in 0 .. k - 1
  PROVE  (b * k + q) \div k = b
  <1>1. b * k + q \in Nat
    OBVIOUS
  <1>2. PICK x \in Nat : x = (b * k + q) \div k
    BY <1>1, DivBounds
  <1>3. k * x <= b * k + q /\ b * k + q < k * x + k
    BY <1>1, <1>2, DivBounds
  <1>4. k * x \in Int /\ k * b \in Int /\ b * k = k * b
    OBVIOUS
  <1>5. CASE x < b
    <2>1. k * x + k <= k * b
      BY <1>5, TimesMono
    <2> QED BY <1>3, <1>4, <2>1
  <1>6. CASE b < x
    <2>1. k * b + k <= k * x
      BY <1>6, TimesMono
    <2> QED BY <1>3, <1>4, <2>1
  <1> QED BY <1>2, <1>5, <1>6

(* and inside the file. *)
LEMMA WholeBlocks ==
  ASSUME NEW k \in Nat \ {0}, NEW n \in Nat, n % k = 0,
         NEW b \in 0 .. n \div k - 1, NEW q \in 0 .. k - 1
  PROVE  b * k + q \in 0 .. n - 1
  <1>1. PICK x \in Nat : x = n \div k
    BY DivBounds
  <1>2. k * x <= n
    BY <1>1, DivBounds
  <1>3. b < x /\ b \in Nat
    BY <1>1
  <1>4. k * b + k <= k * x
    BY <1>3, TimesMono
  <1>5. k * x \in Int /\ k * b \in Int /\ b * k = k * b /\ k * b >= 0
    BY <1>3
  <1> QED BY <1>2, <1>4, <1>5

LEMMA LastBlock ==
  ASSUME NEW p \in 0 .. FileDataLen - 1
  PROVE  p \div BLOCK_LEN \in Block
  <1>1. PICK k \in Nat \ {0}, n \in Nat : k = BLOCK_LEN /\ n = FileDataLen /\ n % k = 0
    BY VfsAssumption, LengthAssumption
  <1>2. PICK x \in Nat, y \in Nat : x = n \div k /\ y = p \div k
    BY <1>1, DivBounds
  <1>3. n = k * x
    BY <1>1, <1>2
  <1>4. k * y <= p /\ p < n
    BY <1>1, <1>2, DivBounds
  <1>5. CASE x <= y
    <2>1. k * x <= k * y
      <3>1. CASE x < y
        <4>1. k * x + k <= k * y
          BY <3>1, TimesMono
        <4> QED BY <4>1
      <3> QED BY <3>1, <1>5
    <2>2. k * x \in Int /\ k * y \in Int
      OBVIOUS
    <2> QED BY <1>3, <1>4, <2>1, <2>2
  <1> QED BY <1>1, <1>2, <1>5 DEF Block

(* A step that rehashes nothing that it changed: every block keeps its bytes,
   and its hash or gets a new one. *)
Refreshed ==
  /\ data' = data /\ Repacked = {}
  /\ \A b \in Block : hash'[b] = hash[b] \/ hash'[b] = BlockHash(block(data', b))

IsHash(leaves) == DOMAIN leaves = Block

(* A rehashed block is fresh; the others keep their hash. *)
LEMMA RangeHashes ==
  ASSUME NEW lo, NEW hi, Rehashes(lo, hi), NEW b \in Block
  PROVE  IF lo \div BLOCK_LEN <= b /\ b <= (hi - 1) \div BLOCK_LEN
         THEN Fresh(b)' ELSE hash'[b] = hash[b]
  <1>1. PICK k \in Nat \ {0} : k = BLOCK_LEN
    BY VfsAssumption
  <1>2. /\ lo \in Nat /\ hi \in Nat /\ lo < hi /\ hi <= FileDataLen
        /\ hash' = compute_hash_block_range(hash, data', lo, hi - lo)
    BY DEF Rehashes
  <1>3. PICK x \in Nat, y \in Nat : x = lo \div k /\ y = (hi - 1) \div k
    <2>1. hi - 1 \in Nat
      BY <1>2
    <2> QED BY <1>1, <1>2, <2>1, DivBounds
  <1>4. hi - lo > 0 /\ lo + (hi - lo) - 1 = hi - 1
    BY <1>2
  <1>5. b \in Int /\ (b \in x .. y <=> x <= b /\ b <= y)
    <2>1. b \in Int
      BY DEF Block
    <2> QED BY <2>1
  <1>6. hash'[b] = IF b \in x .. y THEN BlockHash(block(data', b)) ELSE hash[b]
    BY <1>1, <1>2, <1>3, <1>4 DEF compute_hash_block_range
  <1> QED BY <1>1, <1>3, <1>5, <1>6 DEF Fresh, block

(* A block that a step leaves stale holds a byte of the file that moved. *)
LEMMA StaleWhere ==
  ASSUME NEW lo, NEW hi, Rehashes(lo, hi), FilesLaidOut',
         NEW b \in Block, Fresh(b), ~ Fresh(b)'
  PROVE  \E i \in Index : Relocated(i) /\ b \in BlocksOf(file'[i])
  <1>1. PICK k \in Nat \ {0} : k = BLOCK_LEN /\ FileDataLen % k = 0
    BY VfsAssumption
  <1>2. lo \in Nat /\ hi \in Nat /\ lo < hi /\ hi <= FileDataLen /\ FileDataLen \in Nat
    BY LengthAssumption DEF Rehashes
  <1>3. b \in 0 .. FileDataLen \div k - 1 /\ b \in Nat
    <2>1. b \in 0 .. FileDataLen \div k - 1
      BY <1>1 DEF Block
    <2> QED BY <2>1
  <1>4. ~ (lo \div k <= b /\ b <= (hi - 1) \div k) /\ hash'[b] = hash[b]
    BY <1>1, RangeHashes
  <1>5. PICK q \in 0 .. k - 1 : data'[b * k + q] # data[b * k + q]
    <2>1. block(data', b) # block(data, b)
      BY <1>4 DEF Fresh, block
    <2> QED BY <1>1, <2>1 DEF block
  <1>6. PICK p \in 0 .. FileDataLen - 1 : p = b * k + q /\ p \div k = b /\ data'[p] # data[p]
    <2>1. (b * k + q) \div k = b
      BY <1>3, DivOfByte
    <2>2. b * k + q \in 0 .. FileDataLen - 1
      BY <1>1, <1>2, <1>3, WholeBlocks
    <2> QED BY <1>5, <2>1, <2>2
  <1>7. ~ (lo <= p /\ p < hi)
    <2> SUFFICES ASSUME lo <= p, p < hi PROVE FALSE
      OBVIOUS
    <2>1. p \in Nat /\ hi - 1 \in Nat /\ p <= hi - 1
      BY <1>2
    <2>2. lo \div k <= p \div k /\ p \div k <= (hi - 1) \div k
      BY <1>2, <2>1, DivMonotonic
    <2> QED BY <1>4, <1>6, <2>2
  <1>8. PICK i \in Live : /\ Relocated(i) /\ file'[i].offset <= p
                          /\ p < file'[i].offset + file'[i].length
    BY <1>6, <1>7 DEF Rehashes
  <1>9. /\ i \in Index /\ i \in Live'
        /\ file'[i].offset \in Nat /\ file'[i].length \in Nat \ {0}
    BY <1>8 DEF Live, FilesLaidOut, LaidOut, Fits, Rehashes
  <1>10. PICK first \in Nat, last \in Nat :
           first = file'[i].offset /\ last = file'[i].offset + file'[i].length - 1
    <2>1. file'[i].offset + file'[i].length - 1 \in Nat
      BY <1>9
    <2> QED BY <1>9, <2>1
  <1>11. first <= p /\ p <= last /\ p \in Nat
    BY <1>8, <1>9, <1>10
  <1>12. first \div k <= p \div k /\ p \div k <= last \div k
    BY <1>11, DivMonotonic
  <1>13. b \in first \div k .. last \div k
    <2>1. first \div k \in Nat /\ last \div k \in Nat
      BY DivBounds
    <2> QED BY <1>3, <1>6, <1>12, <2>1
  <1>14. b \in BlocksOf(file'[i])
    BY <1>1, <1>9, <1>10, <1>13 DEF BlocksOf
  <1> QED BY <1>8, <1>9, <1>14

(* Every block of a file that a repack moved is rehashed. *)
LEMMA RepackedReadable ==
  ASSUME NEW lo, NEW hi, Rehashes(lo, hi), FilesLaidOut', NEW g \in Repacked
  PROVE  Readable(g)'
  <1>1. PICK k \in Nat \ {0} : k = BLOCK_LEN
    BY VfsAssumption
  <1>2. /\ lo \in Nat /\ hi \in Nat /\ lo < hi /\ hi <= FileDataLen /\ FileDataLen \in Nat
        /\ lo <= file'[g].offset /\ file'[g].offset + file'[g].length <= hi
    BY LengthAssumption DEF Rehashes
  <1>3. file'[g].offset \in Nat /\ file'[g].length \in Nat \ {0}
    BY DEF FilesLaidOut, LaidOut, Fits, Rehashes, Repacked
  <1>4. PICK first \in Nat, last \in Nat :
          first = file'[g].offset /\ last = file'[g].offset + file'[g].length - 1
    <2>1. file'[g].offset + file'[g].length - 1 \in Nat
      BY <1>3
    <2> QED BY <1>3, <2>1
  <1>5. /\ lo <= first /\ last <= hi - 1 /\ hi - 1 \in Nat
        /\ last \in 0 .. FileDataLen - 1
    BY <1>2, <1>3, <1>4
  <1>6. ASSUME NEW b \in first \div k .. last \div k PROVE Fresh(b)'
    <2>1. /\ first \div k \in Nat /\ last \div k \in Nat
          /\ lo \div k \in Nat /\ (hi - 1) \div k \in Nat
      BY <1>2, <1>5, DivBounds
    <2>2. lo \div k <= first \div k /\ last \div k <= (hi - 1) \div k
      BY <1>2, <1>5, DivMonotonic
    <2>3. lo \div k <= b /\ b <= (hi - 1) \div k /\ b \in Nat /\ b <= last \div k
      BY <2>1, <2>2
    <2>4. last \div k \in Block
      BY <1>1, <1>5, LastBlock
    <2>5. FileDataLen \div k \in Nat
      BY <1>2, DivBounds
    <2>6. b \in Block
      BY <1>1, <2>1, <2>3, <2>4, <2>5 DEF Block
    <2> QED BY <1>1, <2>3, <2>6, RangeHashes
  <1>7. BlocksOf(file'[g]) = first \div k .. last \div k
    BY <1>1, <1>3, <1>4 DEF BlocksOf
  <1> QED BY <1>6, <1>7 DEF Readable

LEMMA DeleteHash ==
  ASSUME IInv, SizedInv, LayoutInv, NEW a \in FileName, delete_file(a)
  PROVE  Untouched
  <1>1. phase = "open" /\ delete_code(a) = 0 /\ lookup(a) \in Live
    BY LookupLive DEF delete_file, delete_code, Live
  <1>2. PICK i \in Live : i = lookup(a)
    BY <1>1
  <1>3. CASE Abort(dir, data)
    BY <1>3 DEF Abort, Untouched, Repacked
  <1>4. CASE ~ Abort(dir, data)
    <2>1. data' = data /\ hash' = hash /\ file' = [file EXCEPT ![i] = NoFile]
      BY <1>2, <1>4 DEF delete_file
    <2>2. \A g \in Live : file[g].length # 0
      <3>1. \A g \in Live : file[g].length \in 1 .. used
        BY <1>1, HeldBytes
      <3> QED BY <3>1
    <2>3. ASSUME NEW g \in Repacked PROVE FALSE
      <3>1. g \in Live /\ file'[g].offset # file[g].offset /\ file'[g].length = file[g].length
        BY DEF Repacked
      <3>2. DOMAIN file = Index /\ g \in Index
        BY <3>1 DEF IInv, TablesInv, IsTable, Live
      <3>3. g # i
        BY <2>1, <2>2, <3>1, <3>2 DEF NoFile
      <3> QED BY <2>1, <3>1, <3>2, <3>3
    <2>4. Repacked = {}
      BY <2>3
    <2> QED BY <2>1, <2>4 DEF Untouched
  <1> QED BY <1>3, <1>4

LEMMA RenameHash ==
  ASSUME IInv, NEW a \in FileName, NEW b \in FileName, rename_file(a, b)
  PROVE  Untouched
  <1>1. phase = "open" /\ lookup(a) \in Index
    BY LookupLive DEF rename_file, rename_code
  <1>2. PICK i \in Index : i = lookup(a)
    BY <1>1
  <1>3. /\ data' = data /\ hash' = hash
        /\ file' = [file EXCEPT ![i] = update_name(@, update_file_name(b))]
    BY <1>2 DEF rename_file
  <1>4. \A g \in Index : file'[g].offset = file[g].offset
    BY <1>3 DEF IInv, TablesInv, IsTable, update_name
  <1>5. Repacked = {}
    BY <1>4 DEF Repacked, Live
  <1> QED BY <1>3, <1>5 DEF Untouched

(* Every step rehashes where it must, or moves nothing. *)
LEMMA StepHash ==
  ASSUME IInv, SizedInv, LayoutInv, HalfFits, NoEmptyFiles, IsData(data), IsHash(hash),
         IInv', LayoutInv', [Next]_vars
  PROVE  /\ IsData(data') /\ IsHash(hash')
         /\ Refreshed \/ \E lo, hi : Rehashes(lo, hi)
  <1>1. LengthFits
    BY HalfIsLess
  <1>2. ASSUME Untouched
        PROVE  IsData(data') /\ IsHash(hash') /\ Refreshed
    BY <1>2 DEF Untouched, Refreshed
  <1>3. ASSUME \E lo, hi : Rehashes(lo, hi) PROVE IsHash(hash')
    <2>1. PICK lo, hi : Rehashes(lo, hi)
      BY <1>3
    <2> QED BY <2>1 DEF Rehashes, compute_hash_block_range, IsHash
  <1>4. ASSUME Fault PROVE Untouched
    BY <1>4 DEF Fault, disk, Untouched, Repacked
  <1>5. CASE \/ init_fs_begin \/ init_fs_entry \/ init_fs_return \/ close_fs \/ UNCHANGED vars
    <2>1. data' = data /\ hash' = hash /\ (phase' = "open" => file' = file)
      BY <1>5 DEF init_fs_begin, init_fs_entry, init_fs_return, close_fs, vars, disk, mem
    <2>2. Repacked = {}
      BY <2>1 DEF Repacked
    <2> QED BY <1>2, <2>1, <2>2 DEF Untouched
  <1>6. CASE compute_hash_tree \/ \E b \in Block : compute_hash_block(b)
    <2>1. data' = data /\ file' = file
      BY <1>6 DEF compute_hash_tree, compute_hash_block, mem
    <2>2. Repacked = {}
      BY <2>1 DEF Repacked
    <2>3. CASE compute_hash_tree
      <3>1. hash' = [b \in Block |-> BlockHash(block(data, b))]
        BY <2>3 DEF compute_hash_tree
      <3>2. \A b \in Block : hash'[b] = BlockHash(block(data', b))
        BY <2>1, <3>1 DEF block
      <3> QED BY <2>1, <2>2, <3>1, <3>2 DEF Refreshed, IsHash
    <2>4. ASSUME NEW b \in Block, compute_hash_block(b)
          PROVE  IsHash(hash') /\ Refreshed
      <3>1. hash' = [hash EXCEPT ![b] = BlockHash(block(data, b))]
        BY <2>4 DEF compute_hash_block
      <3>2. \A c \in Block : hash'[c] = hash[c] \/ hash'[c] = BlockHash(block(data', c))
        BY <2>1, <3>1 DEF IsHash, block
      <3> QED BY <2>1, <2>2, <3>1, <3>2 DEF Refreshed, IsHash
    <2> QED BY <1>6, <2>1, <2>3, <2>4
  <1>7. CASE \E a \in FileName, length \in CreateLengths : create_file(a, length)
    <2>1. PICK a \in FileName, length \in CreateLengths : create_file(a, length)
      BY <1>7
    <2>2. length \in Nat \ {0}
      BY VfsAssumption DEF NoEmptyFiles
    <2>3. PICK i \in Index : i = new_file_index
      BY <2>1, NewIndexFree DEF create_file, create_code
    <2>4. Fault \/ (IsData(data') /\ \E lo, hi : Rehashes(lo, hi))
      BY <1>1, <2>1, <2>2, <2>3, CreateContent
    <2> QED BY <2>4, <1>2, <1>3, <1>4
  <1>8. CASE \E a \in FileName, length \in ResizeLengths : resize_file(a, length)
    <2>1. PICK a \in FileName, length \in ResizeLengths : resize_file(a, length)
      BY <1>8
    <2>2. length \in Nat \ {0}
      BY VfsAssumption DEF NoEmptyFiles
    <2>3. PICK i \in Index : i = lookup(a)
      BY <2>1, LookupLive DEF resize_file, resize_code
    <2>4. Fault \/ (IsData(data') /\ (Untouched \/ \E lo, hi : Rehashes(lo, hi)))
      BY <1>1, <2>1, <2>2, <2>3, ResizeContent
    <2> QED BY <2>4, <1>2, <1>3, <1>4
  <1>9. CASE \E a \in FileName, offset \in WriteOffsets, buf \in Buffers :
               write_file(a, offset, buf)
    <2>1. PICK a \in FileName, offset \in WriteOffsets, buf \in Buffers :
            write_file(a, offset, buf)
      BY <1>9
    <2>2. offset \in Nat
      BY VfsAssumption
    <2>3. PICK i \in Index : i = lookup(a)
      BY <2>1, LookupLive DEF write_file, write_code
    <2>4. Fault \/ (IsData(data') /\ \E lo, hi : Rehashes(lo, hi))
      BY <1>1, <2>1, <2>2, <2>3, WriteContent
    <2> QED BY <2>4, <1>2, <1>3, <1>4
  <1>10. CASE \E a \in FileName : delete_file(a)
    BY <1>2, <1>10, DeleteHash
  <1>11. CASE \E r \in Renames : rename_file(r[1], r[2])
    <2>1. PICK r \in Renames : rename_file(r[1], r[2])
      BY <1>11
    <2>2. r[1] \in FileName /\ r[2] \in FileName
      BY VfsAssumption
    <2> QED BY <1>2, <2>1, <2>2, RenameHash
  <1>12. CASE repack
    <2>1. IsData(data') /\ (Untouched \/ \E lo, hi : Rehashes(lo, hi))
      BY <1>12, RepackContent
    <2> QED BY <1>2, <1>3, <2>1
  <1> QED BY <1>5, <1>6, <1>7, <1>8, <1>9, <1>10, <1>11, <1>12 DEF Next

LEMMA HashInvariants ==
  ASSUME HalfFits, NoEmptyFiles
  PROVE  Spec => []((IInv /\ SizedInv /\ LayoutInv) /\ (IsData(data) /\ IsHash(hash)))
  <1>1. HalfFits /\ NoEmptyFiles /\ LengthFits
    BY HalfIsLess
  <1> DEFINE Inv == IInv /\ SizedInv /\ LayoutInv
             Good == IsData(data) /\ IsHash(hash)
  <1>2. Spec => []Inv
    <2>1. Spec => [](IInv /\ SizedInv)
      BY <1>1, SizesInvariant
    <2>2. Spec => [](IInv /\ LayoutInv)
      BY <1>1, LayoutInvariant
    <2> QED BY <2>1, <2>2, PTL
  <1>3. Inv /\ Inv' /\ Good /\ [Next]_vars => Good'
    BY <1>1, StepHash
  <1>4. Init => Good
    BY DEF Init, IsData, IsHash
  <1> QED BY <1>2, <1>3, <1>4, PTL DEF Spec

(* file_data is a single block. *)
OneBlock == FileDataLen = BLOCK_LEN

AllFresh == \A b \in Block : Fresh(b)

LEMMA OneBlockFresh ==
  ASSUME OneBlock, HalfFits, NoEmptyFiles
  PROVE  Spec => []AllFresh
  <1>1. HalfFits /\ NoEmptyFiles
    OBVIOUS
  <1> DEFINE Inv == (IInv /\ SizedInv /\ LayoutInv) /\ (IsData(data) /\ IsHash(hash))
  <1>2. ASSUME Inv, Inv', AllFresh, [Next]_vars PROVE AllFresh'
    <2> SUFFICES ASSUME NEW b \in Block PROVE Fresh(b)'
      BY DEF AllFresh
    <2>1. CASE Refreshed
      BY <1>2, <2>1 DEF AllFresh, Refreshed, Fresh, block
    <2>2. CASE \E lo, hi : Rehashes(lo, hi)
      <3>1. PICK lo, hi : Rehashes(lo, hi)
        BY <2>2
      <3>2. PICK k \in Nat \ {0} : k = BLOCK_LEN /\ k = FileDataLen
        BY VfsAssumption DEF OneBlock
      <3>3. lo \in Nat /\ hi - 1 \in Nat /\ lo < k /\ hi - 1 < k
        BY <3>1, <3>2 DEF Rehashes
      <3>4. PICK x \in Nat, y \in Nat, z \in Nat : x = lo \div k /\ y = (hi - 1) \div k /\ z = k \div k
        BY <3>3, DivBounds
      <3>5. /\ k * x < k /\ k * y < k /\ k * z <= k
            /\ k * x \in Int /\ k * y \in Int
        BY <3>3, <3>4, DivBounds
      <3>6. x = 0 /\ y = 0
        <4>1. CASE 0 < x
          <5>1. k * 0 + k <= k * x
            BY <4>1, TimesMono
          <5> QED BY <3>5, <5>1
        <4>2. CASE 0 < y
          <5>1. k * 0 + k <= k * y
            BY <4>2, TimesMono
          <5> QED BY <3>5, <5>1
        <4> QED BY <4>1, <4>2
      <3>7. z <= 1
        <4>1. CASE 1 < z
          <5>1. k * 1 + k <= k * z
            BY <4>1, TimesMono
          <5> QED BY <3>5, <5>1
        <4> QED BY <4>1
      <3>8. b = 0
        BY <3>2, <3>4, <3>7 DEF Block
      <3> QED BY <3>1, <3>2, <3>4, <3>6, <3>8, RangeHashes
    <2> QED BY <1>1, <1>2, <2>1, <2>2, StepHash
  <1>3. Inv /\ Inv' /\ AllFresh /\ [Next]_vars => AllFresh'
    BY <1>2
  <1>4. Init => AllFresh
    BY DEF Init, AllFresh, Fresh
  <1>5. Spec => []Inv
    BY <1>1, HashInvariants
  <1> QED BY <1>3, <1>4, <1>5, PTL DEF Spec

(* A leaf hash becomes stale only when a file grows and moves, and then only
   in a block that holds a byte of that file: every other byte that a create,
   a growth, a write or a repack changes is in the range that the call
   rehashes (compute_hash_block_range of myfilesystem.c). *)
THEOREM StaleHashes ==
  ASSUME HalfFits, NoEmptyFiles
  PROVE  Spec => StaleOnlyByRelocation
  <1>1. HalfFits /\ NoEmptyFiles
    OBVIOUS
  <1> DEFINE Inv == (IInv /\ SizedInv /\ LayoutInv) /\ (IsData(data) /\ IsHash(hash))
             A == \A b \in Block : Fresh(b) /\ ~ Fresh(b)' =>
                    \E i \in Index : Relocated(i) /\ b \in BlocksOf(file'[i])
  <1>2. Inv /\ Inv' /\ [Next]_vars => [A]_vars
    <2> SUFFICES ASSUME Inv, Inv', [Next]_vars, NEW b \in Block, Fresh(b), ~ Fresh(b)'
                 PROVE  \E i \in Index : Relocated(i) /\ b \in BlocksOf(file'[i])
      OBVIOUS
    <2>1. CASE Refreshed
      BY <2>1 DEF Refreshed, Fresh, block
    <2>2. CASE \E lo, hi : Rehashes(lo, hi)
      <3>1. FilesLaidOut'
        BY FilesNextLaidOut
      <3> QED BY <2>2, <3>1, StaleWhere
    <2> QED BY <1>1, <2>1, <2>2, StepHash
  <1>3. Spec => []Inv
    BY <1>1, HashInvariants
  <1> QED BY <1>2, <1>3, PTL DEF Spec, StaleOnlyByRelocation

(* A file that the repack inside a call moved can be read after the call:
   the range that the call rehashes reaches from the first byte moved to the
   last. *)
THEOREM RepackedReadBack ==
  ASSUME HalfFits, NoEmptyFiles
  PROVE  Spec => RepackedFilesReadable
  <1>1. HalfFits /\ NoEmptyFiles
    OBVIOUS
  <1> DEFINE Inv == (IInv /\ SizedInv /\ LayoutInv) /\ (IsData(data) /\ IsHash(hash))
             A == phase = "open" => \A i \in Repacked : Readable(i)'
  <1>2. Inv /\ Inv' /\ [Next]_vars => [A]_vars
    <2> SUFFICES ASSUME Inv, Inv', [Next]_vars, NEW g \in Repacked
                 PROVE  Readable(g)'
      OBVIOUS
    <2>1. CASE Refreshed
      BY <2>1 DEF Refreshed
    <2>2. CASE \E lo, hi : Rehashes(lo, hi)
      <3>1. FilesLaidOut'
        BY FilesNextLaidOut
      <3> QED BY <2>2, <3>1, RepackedReadable
    <2> QED BY <1>1, <2>1, <2>2, StepHash
  <1>3. Spec => []Inv
    BY <1>1, HashInvariants
  <1> QED BY <1>2, <1>3, PTL DEF Spec, RepackedFilesReadable

----------------------------------------------------------------------------
(* The renames that keep the name array in order *)

RenamesKeepOrder ==
  \A r \in Renames : \A a \in FileName :
    Kept[a] \notin {Kept[r[1]], Kept[r[2]]} => (Kept[a] < Kept[r[1]] <=> Kept[a] < Kept[r[2]])

----------------------------------------------------------------------------
(* The order of the name array *)

Ordered(arr, files) ==
  \A j, k \in 0 .. arr.size - 1 : j < k => files[arr.list[j]].name < files[arr.list[k]].name

NamesOf(files) == [i \in Index |-> files[i].name]

LEMMA OrderedIsAscending ==
  ASSUME NEW arr, Placed(arr), NEW files
  PROVE  Ordered(arr, files) <=> Ascending(arr, NamesOf(files))
  <1>1. \A k \in 0 .. arr.size - 1 : NamesOf(files)[arr.list[k]] = files[arr.list[k]].name
    BY DEF NamesOf, Placed, IsArray
  <1> QED BY <1>1 DEF Ordered, Ascending

(* arr_sorted_insert of a file whose name is new. *)
LEMMA InsertOrdered ==
  ASSUME NEW arr, Placed(arr), NEW f \in Index, arr.pos[f] = -1, NEW files,
         Ordered(arr, files), files[f].name \in Int,
         \A k \in 0 .. arr.size - 1 : /\ files[arr.list[k]].name \in Int
                                      /\ files[arr.list[k]].name # files[f].name
  PROVE  LET new == insert_by_name(f, files, arr)
         IN  /\ Ordered(new, files) /\ new.pos[f] # -1
             /\ \A g \in Index : g # f => (new.pos[g] = -1 <=> arr.pos[g] = -1)
  <1> DEFINE cmp == [m \in 0 .. arr.size - 1 |-> cmp_name(files[f].name, files[arr.list[m]])]
  <1>1. PICK r, K, new : /\ r = arr_get_index(cmp, arr.size, TRUE) /\ K = NamesOf(files)
                         /\ new = arr_insert(r, f, arr)
    OBVIOUS
  <1>2. /\ arr.size \in Nat /\ IsArray(arr, Index) /\ PointsBack(arr, Index)
        /\ arr.list \in [0 .. arr.size - 1 -> Index]
    BY DEF Placed, IsArray
  <1>3. /\ K[f] = files[f].name
        /\ \A k \in 0 .. arr.size - 1 : K[arr.list[k]] = files[arr.list[k]].name
    BY <1>1, <1>2 DEF NamesOf
  <1>4. Compares(cmp, f, arr, K)
    <2>1. \A k \in 0 .. arr.size - 1 :
            /\ files[arr.list[k]].name \in Int /\ files[arr.list[k]].name # files[f].name
            /\ cmp[k] = files[f].name - files[arr.list[k]].name
      BY DEF cmp_name
    <2>2. cmp \in [0 .. arr.size - 1 -> Int]
      BY DEF cmp_name
    <2> HIDE DEF cmp
    <2> QED BY <1>3, <2>1, <2>2 DEF Compares
  <1>5. Ascending(arr, K)
    BY <1>1, OrderedIsAscending
  <1>6. insert_by_name(f, files, arr) = arr_sorted_insert(r, f, arr)
    BY <1>1 DEF insert_by_name
  <1>7. r = arr_get_index(cmp, arr.size, TRUE)
    BY <1>1
  <1>8. new = arr_insert(r, f, arr)
    BY <1>1
  <1> HIDE DEF cmp
  <1>9. r \in 0 .. arr.size /\ Ascending(new, K)
    <2>1. Gap(cmp, arr.size, r)
      BY <1>2, <1>4, <1>7, InsertPosition
    <2> QED BY <1>2, <1>4, <1>5, <1>8, <2>1, InsertAscending
  <1>10. /\ Placed(new) /\ new.pos[f] = r
        /\ \A g \in Index : g # f => (new.pos[g] = -1 <=> arr.pos[g] = -1)
    BY <1>2, <1>9, <1>8, InsertKeeps DEF Placed
  <1>11. insert_by_name(f, files, arr) = new
    BY <1>6, <1>9, <1>8 DEF arr_sorted_insert
  <1>12. Ordered(new, files)
    BY <1>1, <1>9, <1>10, OrderedIsAscending
  <1>13. r # -1
    BY <1>2, <1>9
  <1> QED BY <1>10, <1>11, <1>12, <1>13

LEMMA RemoveOrdered ==
  ASSUME NEW arr, Placed(arr), NEW f \in Index, arr.pos[f] # -1, NEW files,
         Ordered(arr, files)
  PROVE  Ordered(arr_remove(arr.pos[f], arr), files)
  <1>1. arr.size \in Nat /\ arr.pos[f] \in 0 .. arr.size - 1
    BY DEF Placed, IsArray, PointsBack
  <1>2. PICK new, K : new = arr_remove(arr.pos[f], arr) /\ K = NamesOf(files)
    OBVIOUS
  <1>3. Placed(new)
    BY <1>2, ArrRemoveKeeps
  <1>4. Ascending(new, K)
    BY <1>1, <1>2, OrderedIsAscending, RemoveAscending
  <1> QED BY <1>2, <1>3, <1>4, OrderedIsAscending

(* Between the steps every named entry of dir_table carries the name that
   some client passed, no two carry the same one, and the name array holds
   the entries in use, sorted. *)
NamesInv ==
  /\ \A i \in Index : dir[i].name # 0 => \E a \in FileName : dir[i].name = Kept[a]
  /\ \A i, j \in Index : dir[i].name # 0 /\ dir[i].name = dir[j].name => i = j
  /\ \A i \in Index : index[i] = 1 => n_list.pos[i] # -1
  /\ Ordered(n_list, file)

LEMMA KeptNames == \A a \in FileName : Kept[a] \in Int /\ Kept[a] # 0
  BY VfsAssumption

(* The files in the name array are in use, and their names are those of
   dir_table. *)
LEMMA ArrayNames ==
  ASSUME IInv, NamesInv
  PROVE  /\ n_list.size \in Nat /\ n_list.list \in [0 .. n_list.size - 1 -> Index]
         /\ \A k \in 0 .. n_list.size - 1 :
              LET i == n_list.list[k]
              IN  /\ i \in Index /\ index[i] = 1 /\ n_list.pos[i] = k
                  /\ file[i].name = dir[i].name /\ dir[i].name # 0
                  /\ file[i].name \in Int
  <1>1. /\ n_list.size \in Nat /\ n_list.list \in [0 .. n_list.size - 1 -> Index]
        /\ \A k \in 0 .. n_list.size - 1 : n_list.pos[n_list.list[k]] = k
        /\ \A i \in Index : n_list.pos[i] # -1 => index[i] = 1
        /\ \A i \in Index : index[i] = 1 => file[i].name = dir[i].name /\ dir[i].name # 0
    BY DEF IInv, ArraysInv, Placed, IsArray, PointsBack, EntriesInv, Agree
  <1>2. ASSUME NEW k \in 0 .. n_list.size - 1, NEW i, i = n_list.list[k]
        PROVE  /\ i \in Index /\ index[i] = 1 /\ n_list.pos[i] = k
               /\ file[i].name = dir[i].name /\ dir[i].name # 0
               /\ file[i].name \in Int
    <2>1. i \in Index /\ n_list.pos[i] = k /\ k # -1
      BY <1>1, <1>2
    <2>2. index[i] = 1 /\ file[i].name = dir[i].name /\ dir[i].name # 0
      BY <1>1, <2>1
    <2>3. dir[i].name \in Int
      BY <2>1, <2>2, KeptNames DEF NamesInv
    <2> QED BY <2>1, <2>2, <2>3
  <1> QED BY <1>1, <1>2

(* lookup finds the file of the name, when there is one. *)
LEMMA LookupRight ==
  ASSUME IInv, NamesInv, phase = "open", NEW a \in FileName
  PROVE  \/ lookup(a) = None /\ \A i \in Index : dir[i].name # Kept[a]
         \/ /\ lookup(a) \in Index /\ lookup(a) # None /\ index[lookup(a)] = 1
            /\ dir[lookup(a)].name = Kept[a] /\ file[lookup(a)].name = Kept[a]
  <1> DEFINE cmp == [m \in 0 .. n_list.size - 1 |->
                       cmp_name(update_file_name(a), file[n_list.list[m]])]
             N(k) == file[n_list.list[k]].name
  <1>1. PICK r : r = arr_get_index(cmp, n_list.size, FALSE)
    OBVIOUS
  <1>2. lookup(a) = IF r \in 0 .. n_list.size - 1 THEN n_list.list[r] ELSE None
    BY <1>1 DEF lookup
  <1>3. /\ n_list.size \in Nat /\ Kept[a] \in Int
        /\ \A k \in 0 .. n_list.size - 1 : N(k) \in Int
    BY ArrayNames, KeptNames
  <1>4. \A k \in 0 .. n_list.size - 1 : cmp[k] = Kept[a] - N(k)
    BY DEF cmp_name, update_file_name
  <1>5. \A j, k \in 0 .. n_list.size - 1 : j < k => N(j) < N(k)
    BY DEF NamesInv, Ordered
  <1>6. cmp \in [0 .. n_list.size - 1 -> Int]
    BY <1>3 DEF cmp_name, update_file_name
  <1> HIDE DEF cmp, N
  <1>7. \A j, k \in 0 .. n_list.size - 1 : j < k => cmp[j] >= cmp[k]
    BY <1>3, <1>4, <1>5
  <1>8. \/ r = -1 /\ \A k \in 0 .. n_list.size - 1 : cmp[k] # 0
        \/ r \in 0 .. n_list.size - 1 /\ cmp[r] = 0
    BY <1>1, <1>3, <1>6, <1>7, FindAnswer
  <1>9. CASE r \in 0 .. n_list.size - 1 /\ cmp[r] = 0
    <2>1. lookup(a) = n_list.list[r] /\ N(r) = Kept[a]
      BY <1>2, <1>3, <1>4, <1>9
    <2>2. lookup(a) \in Index /\ index[lookup(a)] = 1
          /\ dir[lookup(a)].name = Kept[a] /\ file[lookup(a)].name = Kept[a]
      BY <2>1, <1>9, ArrayNames DEF N
    <2>3. None \notin Index
      BY IndexFinite DEF Index, None
    <2> QED BY <2>2, <2>3
  <1>10. CASE r = -1 /\ \A k \in 0 .. n_list.size - 1 : cmp[k] # 0
    <2>1. lookup(a) = None
      BY <1>2, <1>3, <1>10
    <2>2. ASSUME NEW i \in Index, dir[i].name = Kept[a] PROVE FALSE
      <3>1. index[i] = 1 /\ file[i].name = dir[i].name
        BY <2>2, KeptNames DEF IInv, EntriesInv, Scanned, Agree
      <3>2. PICK k \in 0 .. n_list.size - 1 : n_list.list[k] = i
        BY <3>1 DEF NamesInv, IInv, ArraysInv, Placed, PointsBack
      <3>3. N(k) = Kept[a]
        BY <3>1, <3>2, <2>2 DEF N
      <3> QED BY <3>3, <1>3, <1>4, <1>10
    <2> QED BY <2>1, <2>2
  <1> QED BY <1>8, <1>9, <1>10

LEMMA EmptyList ==
  ASSUME NEW n, n = arr_init(Index)
  PROVE  \A k : k \notin 0 .. n.size - 1
  BY DEF arr_init

(* The names stay, and so does the name array, or it is empty. *)
LEMMA SameNames ==
  ASSUME NamesInv, \A j \in Index : dir'[j].name = dir[j].name,
         \/ /\ n_list' = n_list /\ index' = index
            /\ n_list.list \in [0 .. n_list.size - 1 -> Index]
            /\ \A j \in Index : file'[j].name = file[j].name
         \/ n_list' = arr_init(Index) /\ \A j \in Index : index'[j] = 0
  PROVE  NamesInv'
  <1>1. /\ \A i \in Index : dir'[i].name # 0 => \E a \in FileName : dir'[i].name = Kept[a]
        /\ \A i, j \in Index : dir'[i].name # 0 /\ dir'[i].name = dir'[j].name => i = j
    BY DEF NamesInv
  <1>2. \A i \in Index : index'[i] = 1 => n_list'.pos[i] # -1
    BY DEF NamesInv
  <1>3. Ordered(n_list', file')
    <2>1. CASE n_list' = arr_init(Index)
      <3>1. 0 .. n_list'.size - 1 = {}
        BY <2>1 DEF arr_init
      <3> QED BY <3>1 DEF Ordered
    <2>2. CASE n_list' = n_list
      <3>1. \A k \in 0 .. n_list.size - 1 :
              file'[n_list.list[k]].name = file[n_list.list[k]].name
        BY <2>2, EmptyList
      <3> QED BY <2>2, <3>1 DEF NamesInv, Ordered
    <2> QED BY <2>1, <2>2
  <1> QED BY <1>1, <1>2, <1>3 DEF NamesInv

(* A free entry gets a name that no other entry has. *)
LEMMA EntersNames ==
  ASSUME IInv, NamesInv, NEW i \in Index, index[i] = 0, index' = [index EXCEPT ![i] = 1],
         n_list' = insert_by_name(i, file', n_list),
         file'[i].name = dir'[i].name, dir'[i].name # 0,
         \E a \in FileName : dir'[i].name = Kept[a],
         \A j \in Index : j # i => /\ dir'[j].name = dir[j].name
                                   /\ file'[j].name = file[j].name
                                   /\ dir[j].name # dir'[i].name
  PROVE  NamesInv'
  <1>1. Placed(n_list) /\ n_list.pos[i] = -1 /\ index \in [Index -> {0, 1}]
    BY DEF IInv, ArraysInv, ControlInv
  <1>2. PICK files : files = file'
    OBVIOUS
  <1>3. \A k \in 0 .. n_list.size - 1 :
          /\ n_list.list[k] \in Index /\ n_list.list[k] # i
          /\ files[n_list.list[k]].name = file[n_list.list[k]].name
          /\ files[n_list.list[k]].name \in Int
          /\ files[n_list.list[k]].name # files[i].name
    BY <1>2, ArrayNames
  <1>4. files[i].name \in Int
    BY <1>2, KeptNames
  <1>5. Ordered(n_list, files)
    BY <1>3 DEF NamesInv, Ordered
  <1>6. LET new == insert_by_name(i, files, n_list)
        IN  /\ Ordered(new, files) /\ new.pos[i] # -1
            /\ \A g \in Index : g # i => (new.pos[g] = -1 <=> n_list.pos[g] = -1)
    BY <1>1, <1>3, <1>4, <1>5, InsertOrdered
  <1>7. Ordered(n_list', file')
    <2>1. PICK new : new = insert_by_name(i, files, n_list)
      OBVIOUS
    <2>2. Ordered(new, files)
      BY <1>6, <2>1
    <2>3. n_list' = new
      BY <1>2, <2>1
    <2> QED BY <1>2, <2>2, <2>3 DEF Ordered
  <1>8. \A j \in Index : index'[j] = 1 => n_list'.pos[j] # -1
    BY <1>1, <1>2, <1>6 DEF NamesInv
  <1>9. \A j \in Index : dir'[j].name # 0 => \E a \in FileName : dir'[j].name = Kept[a]
    BY DEF NamesInv
  <1>10. \A j, k \in Index : dir'[j].name # 0 /\ dir'[j].name = dir'[k].name => j = k
    BY DEF NamesInv
  <1> QED BY <1>7, <1>8, <1>9, <1>10 DEF NamesInv

(* A file leaves, and its entry becomes free. *)
LEMMA LeavesNames ==
  ASSUME IInv, NamesInv, phase = "open", NEW i \in Index, index[i] = 1, Deletes(i)
  PROVE  NamesInv'
  <1>1. /\ Placed(n_list) /\ n_list.pos[i] # -1 /\ index \in [Index -> {0, 1}]
        /\ n_list' = arr_remove(n_list.pos[i], n_list)
    BY DEF IInv, ArraysInv, ControlInv, NamesInv, Deletes
  <1>2. /\ index' = [index EXCEPT ![i] = 0] /\ dir'[i].name = 0
        /\ \A j \in Index : j # i => dir'[j].name = dir[j].name /\ file'[j].name = file[j].name
    BY DEF Deletes, OthersSame, SameEntry, NoFile
  <1>3. /\ Placed(n_list') /\ n_list'.pos[i] = -1
        /\ \A g \in Index : g # i => (n_list'.pos[g] = -1 <=> n_list.pos[g] = -1)
    BY <1>1, ArrRemoveKeeps
  <1>4. Ordered(n_list', file)
    BY <1>1, RemoveOrdered DEF NamesInv
  <1>5. \A k \in 0 .. n_list'.size - 1 : n_list'.list[k] \in Index /\ n_list'.list[k] # i
    <2> SUFFICES ASSUME NEW k \in 0 .. n_list'.size - 1
                 PROVE  n_list'.list[k] \in Index /\ n_list'.list[k] # i
      OBVIOUS
    <2>1. n_list'.list[k] \in Index /\ n_list'.pos[n_list'.list[k]] = k
      BY <1>3 DEF Placed, IsArray, PointsBack
    <2> QED BY <2>1, <1>3
  <1>6. Ordered(n_list', file')
    BY <1>2, <1>4, <1>5 DEF Ordered
  <1>7. \A j \in Index : index'[j] = 1 => n_list'.pos[j] # -1
    BY <1>1, <1>2, <1>3 DEF NamesInv
  <1>8. \A j \in Index : dir'[j].name # 0 => \E a \in FileName : dir'[j].name = Kept[a]
    BY <1>2 DEF NamesInv
  <1>9. \A j, k \in Index : dir'[j].name # 0 /\ dir'[j].name = dir'[k].name => j = k
    BY <1>2 DEF NamesInv
  <1> QED BY <1>6, <1>7, <1>8, <1>9 DEF NamesInv

(* A file keeps its place in the name array: the new name belongs there. *)
LEMMA RenamedNames ==
  ASSUME IInv, NamesInv, RenamesKeepOrder, phase = "open", NEW r \in Renames,
         r[1] \in FileName, r[2] \in FileName, lookup(r[1]) # None, lookup(r[2]) = None,
         Relabels(lookup(r[1]), Kept[r[2]])
  PROVE  NamesInv'
  <1>1. PICK i : i = lookup(r[1])
    OBVIOUS
  <1>2. /\ i \in Index /\ index[i] = 1 /\ dir[i].name = Kept[r[1]]
        /\ file[i].name = Kept[r[1]]
        /\ \A j \in Index : dir[j].name # Kept[r[2]]
    BY <1>1, LookupRight
  <1>3. /\ n_list' = n_list /\ index' = index
        /\ dir'[i].name = Kept[r[2]] /\ file'[i].name = Kept[r[2]]
        /\ \A j \in Index : j # i => dir'[j].name = dir[j].name /\ file'[j].name = file[j].name
    BY <1>1 DEF Relabels, OthersSame, SameEntry
  <1>4. Ordered(n_list, file')
    <2> SUFFICES ASSUME NEW j \in 0 .. n_list.size - 1, NEW k \in 0 .. n_list.size - 1, j < k
                 PROVE  file'[n_list.list[j]].name < file'[n_list.list[k]].name
      BY DEF Ordered
    <2>1. PICK e, g : e = n_list.list[j] /\ g = n_list.list[k]
      OBVIOUS
    <2>2. /\ e \in Index /\ g \in Index /\ e # g /\ file[e].name < file[g].name
          /\ file[e].name = dir[e].name /\ file[g].name = dir[g].name
          /\ dir[e].name # 0 /\ dir[g].name # 0
      <3>1. /\ e \in Index /\ n_list.pos[e] = j /\ file[e].name = dir[e].name
            /\ dir[e].name # 0
        BY <2>1, ArrayNames
      <3>2. /\ g \in Index /\ n_list.pos[g] = k /\ file[g].name = dir[g].name
            /\ dir[g].name # 0
        BY <2>1, ArrayNames
      <3>3. file[e].name < file[g].name
        BY <2>1 DEF NamesInv, Ordered
      <3> QED BY <3>1, <3>2, <3>3
    <2>3. PICK a \in FileName, b \in FileName : file[e].name = Kept[a] /\ file[g].name = Kept[b]
      BY <2>2 DEF NamesInv
    <2>4. Kept[a] \in Int /\ Kept[b] \in Int /\ Kept[r[1]] \in Int /\ Kept[r[2]] \in Int
      BY KeptNames
    <2>5. CASE e = i
      <3>1. /\ Kept[r[1]] < Kept[b] /\ Kept[b] # Kept[r[2]] /\ Kept[b] # Kept[r[1]]
            /\ file'[g].name = Kept[b]
        <4>1. Kept[r[1]] < Kept[b] /\ Kept[b] # Kept[r[2]]
          BY <1>2, <2>2, <2>3, <2>5
        <4>2. Kept[b] # Kept[r[1]]
          BY <4>1, <2>4
        <4>3. file'[g].name = Kept[b]
          BY <1>3, <2>2, <2>3, <2>5
        <4> QED BY <4>1, <4>2, <4>3
      <3>2. Kept[b] < Kept[r[1]] <=> Kept[b] < Kept[r[2]]
        BY <3>1 DEF RenamesKeepOrder
      <3>3. Kept[r[2]] < Kept[b]
        BY <3>1, <3>2, <2>4
      <3> QED BY <1>3, <2>1, <2>5, <3>1, <3>3
    <2>6. CASE g = i
      <3>1. /\ Kept[a] < Kept[r[1]] /\ Kept[a] # Kept[r[2]] /\ Kept[a] # Kept[r[1]]
            /\ file'[e].name = Kept[a]
        <4>1. Kept[a] < Kept[r[1]] /\ Kept[a] # Kept[r[2]]
          BY <1>2, <2>2, <2>3, <2>6
        <4>2. Kept[a] # Kept[r[1]]
          BY <4>1, <2>4
        <4>3. file'[e].name = Kept[a]
          BY <1>3, <2>2, <2>3, <2>6
        <4> QED BY <4>1, <4>2, <4>3
      <3>2. Kept[a] < Kept[r[2]]
        BY <3>1 DEF RenamesKeepOrder
      <3> QED BY <1>3, <2>1, <2>6, <3>1, <3>2
    <2>7. CASE e # i /\ g # i
      BY <1>3, <2>1, <2>2, <2>7
    <2> QED BY <2>5, <2>6, <2>7
  <1>5. \A j \in Index : index'[j] = 1 => n_list'.pos[j] # -1
    BY <1>3 DEF NamesInv
  <1>6. \A j \in Index : dir'[j].name # 0 => \E a \in FileName : dir'[j].name = Kept[a]
    BY <1>3 DEF NamesInv
  <1>7. \A j, k \in Index : dir'[j].name # 0 /\ dir'[j].name = dir'[k].name => j = k
    BY <1>2, <1>3 DEF NamesInv
  <1>8. Ordered(n_list', file')
    BY <1>3, <1>4
  <1> QED BY <1>5, <1>6, <1>7, <1>8 DEF NamesInv

LEMMA InitNames == Init => NamesInv
  BY DEF Init, NamesInv, Ordered, arr_init, NoFile

LEMMA StepNames ==
  ASSUME IInv, SizedInv, NamesInv, LengthFits, RenamesKeepOrder, [Next]_vars
  PROVE  NamesInv'
  <1>1. Effect
    BY NextEffect
  <1>2. n_list.list \in [0 .. n_list.size - 1 -> Index]
    BY ArrayNames
  <1>3. CASE Ends
    BY <1>3, SameNames DEF Ends, MemoryLost, SameEntry
  <1>4. CASE Takes
    <2>1. CASE dir[scan].name = 0
      <3>1. n_list' = n_list /\ index' = index /\ file' = file /\ dir' = dir
        BY <1>4, <2>1 DEF Takes
      <3> QED BY <1>2, <3>1, SameNames
    <2>2. CASE dir[scan].name # 0
      <3>1. PICK i \in Index : i = scan
        BY <1>4 DEF Takes
      <3>2. /\ file'[i].name = dir'[i].name /\ dir' = dir
            /\ \A j \in Index : j # i => file'[j] = file[j]
            /\ n_list' = insert_by_name(i, file', n_list)
            /\ index' = [index EXCEPT ![i] = 1]
        BY <1>4, <2>2, <3>1 DEF Takes, SameEntry
      <3>3. index[i] = 0
        <4>1. i \notin Scanned
          BY <1>4, <3>1, IndexFinite DEF Takes, Scanned, Index
        <4> QED BY <4>1 DEF IInv, EntriesInv, ControlInv
      <3>4. \E a \in FileName : dir'[i].name = Kept[a]
        BY <2>2, <3>1, <3>2 DEF NamesInv
      <3>5. \A j \in Index : j # i => dir[j].name # dir'[i].name
        BY <2>2, <3>1, <3>2 DEF NamesInv
      <3>6. /\ file'[i].name = dir'[i].name /\ dir'[i].name # 0
            /\ \A j \in Index : j # i => /\ dir'[j].name = dir[j].name
                                         /\ file'[j].name = file[j].name
                                         /\ dir[j].name # dir'[i].name
        BY <2>2, <3>1, <3>2, <3>5
      <3>7. n_list' = insert_by_name(i, file', n_list) /\ index' = [index EXCEPT ![i] = 1]
        BY <3>2
      <3> QED BY <3>3, <3>4, <3>6, <3>7, EntersNames
    <2> QED BY <2>1, <2>2
  <1>5. CASE Waits
    <2>1. n_list' = n_list /\ index' = index /\ file' = file /\ dir' = dir
      BY <1>5 DEF Waits
    <2> QED BY <1>2, <2>1, SameNames
  <1>6. CASE phase = "open" /\ Keeps
    BY <1>2, <1>6, SameNames DEF Keeps, SameEntry
  <1>7. ASSUME NEW a \in FileName, NEW length \in CreateLengths,
               phase = "open", create_code(a, length) = 0,
               new_file_index \in Index, index[new_file_index] = 0,
               Creates(new_file_index, Kept[a], length)
        PROVE  NamesInv'
    <2>1. PICK i \in Index : i = new_file_index
      BY <1>7
    <2>2. lookup(a) = None
      BY <1>7 DEF create_code
    <2>3. \A j \in Index : dir[j].name # Kept[a]
      BY <1>7, <2>2, LookupRight
    <2>4. /\ index[i] = 0 /\ index' = [index EXCEPT ![i] = 1]
          /\ n_list' = insert_by_name(i, file', n_list)
          /\ dir'[i].name = Kept[a] /\ file'[i].name = Kept[a]
          /\ \A j \in Index : j # i => dir'[j].name = dir[j].name /\ file'[j].name = file[j].name
      BY <1>7, <2>1 DEF Creates, OthersSame, SameEntry
    <2>5. /\ file'[i].name = dir'[i].name /\ dir'[i].name # 0
          /\ \A j \in Index : j # i => /\ dir'[j].name = dir[j].name
                                       /\ file'[j].name = file[j].name
                                       /\ dir[j].name # dir'[i].name
      BY <2>3, <2>4, KeptNames
    <2>6. \E b \in FileName : dir'[i].name = Kept[b]
      BY <2>4
    <2>7. /\ index[i] = 0 /\ index' = [index EXCEPT ![i] = 1]
          /\ n_list' = insert_by_name(i, file', n_list)
      BY <2>4
    <2> QED BY <2>5, <2>6, <2>7, EntersNames
  <1>8. ASSUME NEW i \in Index, NEW length, Resizes(i, length)
        PROVE  NamesInv'
    <2>1. /\ n_list' = n_list /\ index' = index
          /\ \A j \in Index : dir'[j].name = dir[j].name /\ file'[j].name = file[j].name
      BY <1>8 DEF Resizes, OthersSame, SameEntry
    <2> QED BY <1>2, <2>1, SameNames
  <1>9. ASSUME NEW r \in Renames, r[1] \in FileName, r[2] \in FileName, phase = "open",
               lookup(r[2]) = None, lookup(r[1]) \in Index,
               Relabels(lookup(r[1]), Kept[r[2]])
        PROVE  NamesInv'
    <2>1. lookup(r[1]) # None
      BY <1>9, IndexFinite DEF Index, None
    <2> QED BY <1>9, <2>1, RenamedNames
  <1> QED BY <1>1, <1>3, <1>4, <1>5, <1>6, <1>7, <1>8, <1>9, LeavesNames DEF Effect

LEMMA NamesInvariant ==
  ASSUME LengthFits, RenamesKeepOrder
  PROVE  Spec => [](IInv /\ SizedInv /\ NamesInv)
  <1>1. Init => IInv /\ SizedInv /\ NamesInv
    BY InitHolds, InitSized, InitNames
  <1>2. IInv /\ SizedInv /\ NamesInv /\ [Next]_vars => (IInv /\ SizedInv /\ NamesInv)'
    BY NextStep, StepSized, StepNames
  <1> QED BY <1>1, <1>2, PTL DEF Spec

(* The name array stays in strictly ascending order of name, as long as no
   rename would have to move a file in it. *)
THEOREM NamesAlwaysSorted ==
  ASSUME LengthFits, RenamesKeepOrder
  PROVE  Spec => []NamesSorted
  <1>1. NamesInv => NamesSorted
    BY DEF NamesInv, Ordered, NamesSorted
  <1>2. LengthFits /\ RenamesKeepOrder
    OBVIOUS
  <1> QED BY <1>1, <1>2, NamesInvariant, PTL

----------------------------------------------------------------------------
(* The table that dir_table holds *)

LEMMA TableEntries ==
  ASSUME NamesInv
  PROVE  /\ DOMAIN SizeOf = {dir[i].name : i \in Listed}
         /\ \A i \in Listed : SizeOf[dir[i].name] = dir[i].length
         /\ \A i \in Index : i \in Listed <=> dir[i].name # 0
         /\ \A i \in Listed : i \in Index
  <1>1. /\ \A i \in Index : i \in Listed <=> dir[i].name # 0
        /\ \A i \in Listed : i \in Index
    BY DEF Listed
  <1>2. ASSUME NEW i \in Listed PROVE SizeOf[dir[i].name] = dir[i].length
    <2>1. (CHOOSE e \in Listed : dir[e].name = dir[i].name) = i
      BY <1>1 DEF NamesInv
    <2> QED BY <2>1 DEF SizeOf
  <1> QED BY <1>1, <1>2 DEF SizeOf

(* SizeStore counts and sums with its own instance of the library. *)
LEMMA TableOperators ==
  ASSUME NEW f
  PROVE  /\ S!Cardinality(f) = Cardinality(f)
         /\ S!SumFunction(f) = SumFunction(f)
  <1>1. S!Cardinality(f) = Cardinality(f)
    BY DEF S!Cardinality, Cardinality
  <1>2. S!SumFunctionOnSet(f, DOMAIN f) = PartialSums(f, DOMAIN f)[DOMAIN f]
    BY DEF S!SumFunctionOnSet, S!FoldFunctionOnSet, S!MapThenFoldSet, PartialSums, AddOne, Any
  <1>3. S!SumFunction(f) = SumFunction(f)
    BY <1>2, SumIsFold DEF S!SumFunction, SumFunction
  <1> QED BY <1>1, <1>3

(* As many names as entries, and as many bytes. *)
LEMMA TableTotals ==
  ASSUME SizedInv, NamesInv
  PROVE  /\ Cardinality(DOMAIN SizeOf) = Cardinality(Listed)
         /\ S!Total = SumFunctionOnSet(AllBytes, Index)
  <1> DEFINE h == [i \in Listed |-> dir[i].name]
  <1>1. IsFiniteSet(Listed) /\ Listed \in SUBSET Index
    BY IndexFinite, FS_Subset DEF Listed
  <1>2. \A i \in Listed : h[i] = dir[i].name
    OBVIOUS
  <1>3. \A i, j \in Listed : h[i] = h[j] => i = j
    BY DEF NamesInv, Listed
  <1>4. DOMAIN SizeOf = {h[i] : i \in Listed}
    BY TableEntries
  <1>5. DOMAIN h = Listed
    OBVIOUS
  <1>6. h \in [Listed -> DOMAIN SizeOf]
    BY <1>4
  <1> HIDE DEF h
  <1>7. PICK D : D = DOMAIN SizeOf
    OBVIOUS
  <1>8. h \in Bijection(Listed, D)
    BY <1>3, <1>4, <1>6, <1>7 DEF Bijection, Injection, Surjection, IsInjective
  <1>9. Cardinality(D) = Cardinality(Listed)
    BY <1>1, <1>8, FS_Bijection DEF ExistsBijection
  <1>10. \A i \in Listed : AllBytes[i] \in Nat /\ SizeOf[h[i]] = AllBytes[i]
    BY <1>1, <1>2, TableEntries DEF AllBytes, SizedInv
  <1>11. SumFunctionOnSet(SizeOf, {h[i] : i \in Listed}) = SumFunctionOnSet(AllBytes, Listed)
    BY <1>1, <1>3, <1>10, SumRenamed
  <1>12. /\ \A i \in Index : AllBytes[i] \in Nat
         /\ \A i \in Index \ Listed : AllBytes[i] = 0
    BY DEF AllBytes, SizedInv, Listed
  <1>13. SumFunctionOnSet(AllBytes, Index) = SumFunctionOnSet(AllBytes, Listed)
    BY <1>1, <1>12, IndexFinite, SumZeros
  <1>14. S!Total = SumFunctionOnSet(SizeOf, DOMAIN SizeOf)
    BY TableOperators DEF S!Total, SumFunction
  <1> QED BY <1>4, <1>7, <1>9, <1>11, <1>13, <1>14

(* Between calls the counters are those of the table, and lookup finds the
   file that carries a name. *)
LEMMA TableWhenOpen ==
  ASSUME IInv, SizedInv, NamesInv, phase = "open"
  PROVE  /\ S!Total = used /\ used \in Nat
         /\ Cardinality(DOMAIN SizeOf) = index_count
         /\ \A a \in FileName :
              /\ S!Exists(a) <=> lookup(a) # None
              /\ lookup(a) # None =>
                   /\ SizeOf[Kept[a]] = file[lookup(a)].length
                   /\ SizeOf[Kept[a]] \in Nat
  <1>1. Listed = Live
    BY DEF Listed, Live, IInv, EntriesInv, Scanned
  <1>2. S!Total = used /\ used \in Nat
    BY UsedWhenOpen, TableTotals
  <1>3. Cardinality(DOMAIN SizeOf) = index_count
    BY <1>1, TableTotals DEF IInv, CountInv
  <1>4. ASSUME NEW a \in FileName
        PROVE  /\ S!Exists(a) <=> lookup(a) # None
               /\ lookup(a) # None => /\ SizeOf[Kept[a]] = file[lookup(a)].length
                                      /\ SizeOf[Kept[a]] \in Nat
    <2>1. S!Exists(a) <=> \E i \in Listed : dir[i].name = Kept[a]
      <3>1. S!Exists(a) <=> Kept[a] \in DOMAIN SizeOf
        BY DEF S!Exists
      <3> QED BY <3>1, TableEntries
    <2>2. CASE lookup(a) = None
      <3>1. \A i \in Index : dir[i].name # Kept[a]
        BY <2>2, LookupRight
      <3> QED BY <2>1, <2>2, <3>1 DEF Listed
    <2>3. CASE lookup(a) # None
      <3>1. PICK i \in Index : i = lookup(a)
        BY <2>3, LookupRight
      <3>2. /\ index[i] = 1 /\ dir[i].name = Kept[a]
        BY <3>1, <2>3, LookupRight
      <3>3. i \in Listed /\ file[i].length = dir[i].length /\ dir[i].length \in Nat
        BY <3>2, <1>1, UsedWhenOpen DEF Live, SizedInv
      <3>4. SizeOf[Kept[a]] = dir[i].length
        BY <3>2, <3>3, TableEntries
      <3> QED BY <2>1, <2>3, <3>1, <3>2, <3>3, <3>4
    <2> QED BY <2>2, <2>3
  <1> QED BY <1>2, <1>3, <1>4

(* The codes of the calls are those of the table. *)
LEMMA TableCodes ==
  ASSUME IInv, SizedInv, NamesInv, phase = "open", NEW a \in FileName
  PROVE  /\ \A length \in Nat : create_code(a, length) = S!create_code(a, length)
         /\ \A length \in Nat : resize_code(a, length) = S!resize_code(a, length)
         /\ \A b \in FileName : rename_code(a, b) = S!rename_code(a, b)
         /\ \A offset, count \in Nat : write_code(a, offset, count) = S!write_code(a, offset, count)
         /\ delete_code(a) = S!delete_code(a)
  <1>1. /\ S!Total = used /\ used \in Nat /\ FileDataLen \in Nat
        /\ Cardinality(DOMAIN SizeOf) = index_count
        /\ \A b \in FileName : S!Exists(b) <=> lookup(b) # None
        /\ lookup(a) # None => /\ SizeOf[Kept[a]] = file[lookup(a)].length
                               /\ SizeOf[Kept[a]] \in Nat
    BY TableWhenOpen, LengthAssumption
  <1>2. ASSUME NEW length \in Nat
        PROVE  create_code(a, length) = S!create_code(a, length)
    BY <1>1, TableOperators DEF create_code, S!create_code
  <1>3. ASSUME NEW length \in Nat
        PROVE  resize_code(a, length) = S!resize_code(a, length)
    BY <1>1 DEF resize_code, S!resize_code
  <1>4. ASSUME NEW b \in FileName
        PROVE  rename_code(a, b) = S!rename_code(a, b)
    BY <1>1 DEF rename_code, S!rename_code
  <1>5. ASSUME NEW offset \in Nat, NEW count \in Nat
        PROVE  write_code(a, offset, count) = S!write_code(a, offset, count)
    BY <1>1 DEF write_code, S!write_code
  <1>6. delete_code(a) = S!delete_code(a)
    BY <1>1 DEF delete_code, S!delete_code
  <1> QED BY <1>2, <1>3, <1>4, <1>5, <1>6

(* Every call returns the code that the table of names and lengths gives:
   the search and the counters never mislead it. *)
THEOREM CodesAlwaysAgree ==
  ASSUME LengthFits, RenamesKeepOrder
  PROVE  Spec => []CodesAgree
  <1>1. ASSUME IInv, SizedInv, NamesInv PROVE CodesAgree
    <2>1. \A buf \in Buffers : Len(buf) \in Nat
      BY VfsAssumption
    <2>2. /\ \A length \in CreateLengths : length \in Nat
          /\ \A length \in ResizeLengths : length \in Nat
          /\ \A offset \in WriteOffsets : offset \in Nat
      BY VfsAssumption
    <2> QED BY <1>1, <2>1, <2>2, TableCodes DEF CodesAgree
  <1>2. LengthFits /\ RenamesKeepOrder
    OBVIOUS
  <1> QED BY <1>1, <1>2, NamesInvariant, PTL

----------------------------------------------------------------------------
(* dir_table changes as the table changes *)

(* t is the table that dir_table holds. *)
IsTableOf(t) ==
  /\ t = [n \in DOMAIN t |-> t[n]]
  /\ \A n : n \in DOMAIN t <=> \E i \in Index : dir[i].name # 0 /\ dir[i].name = n
  /\ \A i \in Index : dir[i].name # 0 => t[dir[i].name] = dir[i].length

LEMMA SizeOfIsTable == NamesInv => \A t : IsTableOf(t) <=> t = SizeOf
  <1> SUFFICES ASSUME NamesInv, NEW t PROVE IsTableOf(t) <=> t = SizeOf
    OBVIOUS
  <1>1. IsTableOf(SizeOf)
    <2>1. SizeOf = [n \in DOMAIN SizeOf |-> SizeOf[n]]
      BY DEF SizeOf
    <2> QED BY <2>1, TableEntries DEF IsTableOf
  <1>2. ASSUME IsTableOf(t) PROVE t = SizeOf
    <2>1. PICK u : u = SizeOf
      OBVIOUS
    <2>2. IsTableOf(u)
      BY <1>1, <2>1
    <2>3. /\ t = [n \in DOMAIN t |-> t[n]] /\ u = [n \in DOMAIN u |-> u[n]]
          /\ \A n : n \in DOMAIN t <=> n \in DOMAIN u
      BY <1>2, <2>2 DEF IsTableOf
    <2>4. DOMAIN t = DOMAIN u
      BY <2>3
    <2>5. \A n \in DOMAIN t : t[n] = u[n]
      BY <1>2, <2>2 DEF IsTableOf
    <2> QED BY <2>1, <2>3, <2>4, <2>5
  <1> QED BY <1>1, <1>2

TableIsSizeOf == \A t : IsTableOf(t) <=> t = SizeOf

LEMMA SizeOfNext == NamesInv' => TableIsSizeOf'
  <1>1. NamesInv => TableIsSizeOf
    BY SizeOfIsTable DEF TableIsSizeOf
  <1> QED BY <1>1, PTL

(* No name and no length changes. *)
LEMMA TableStays ==
  ASSUME NamesInv, NamesInv', \A j \in Index : SameEntry(dir'[j], dir[j])
  PROVE  SizeOf' = SizeOf
  <1>1. IsTableOf(SizeOf)
    BY SizeOfIsTable
  <1>2. PICK t : t = SizeOf
    OBVIOUS
  <1>3. IsTableOf(t)'
    BY <1>1, <1>2 DEF IsTableOf, SameEntry
  <1> QED BY <1>2, <1>3, SizeOfNext DEF TableIsSizeOf

(* One entry gets the length; it had the name before, or was free. *)
LEMMA TableSets ==
  ASSUME NamesInv, NamesInv', NEW i \in Index, NEW n, n # 0, NEW length,
         dir'[i].name = n, dir'[i].length = length, dir[i].name \in {0, n},
         \A j \in Index : j # i => SameEntry(dir'[j], dir[j])
  PROVE  S!SetSize(n, length)
  <1>1. PICK u : u = SizeOf
    OBVIOUS
  <1>2. IsTableOf(u)
    BY <1>1, SizeOfIsTable
  <1> DEFINE t == [m \in DOMAIN u \cup {n} |-> IF m = n THEN length ELSE u[m]]
  <1>3. /\ t = [m \in DOMAIN t |-> t[m]]
        /\ \A m : m \in DOMAIN t <=> m \in DOMAIN u \/ m = n
        /\ t[n] = length /\ \A m \in DOMAIN u : m # n => t[m] = u[m]
    OBVIOUS
  <1>4. SizeOf' = t
    <2> HIDE DEF t
    <2>1. \A j \in Index : j # i => dir'[j].name = dir[j].name /\ dir'[j].length = dir[j].length
      BY DEF SameEntry
    <2>2. \A j \in Index : j # i => dir'[j].name # n
      BY DEF NamesInv
    <2>3. \A m : m \in DOMAIN t <=> \E j \in Index : dir'[j].name # 0 /\ dir'[j].name = m
      BY <1>2, <1>3, <2>1, <2>2 DEF IsTableOf
    <2>4. \A j \in Index : dir'[j].name # 0 => t[dir'[j].name] = dir'[j].length
      BY <1>2, <1>3, <2>1, <2>2 DEF IsTableOf
    <2>5. IsTableOf(t)'
      BY <1>3, <2>3, <2>4 DEF IsTableOf
    <2> QED BY <2>5, SizeOfNext DEF TableIsSizeOf
  <1> QED BY <1>1, <1>4 DEF S!SetSize

(* One entry is cleared. *)
LEMMA TableRemoves ==
  ASSUME NamesInv, NamesInv', NEW i \in Index, dir[i].name # 0, dir'[i].name = 0,
         \A j \in Index : j # i => SameEntry(dir'[j], dir[j])
  PROVE  SizeOf' = S!Restrict(SizeOf, DOMAIN SizeOf \ {dir[i].name})
  <1>1. PICK u, old : u = SizeOf /\ old = dir[i].name
    OBVIOUS
  <1>2. IsTableOf(u)
    BY <1>1, SizeOfIsTable
  <1> DEFINE t == [m \in DOMAIN u \ {old} |-> u[m]]
  <1>3. /\ t = [m \in DOMAIN t |-> t[m]]
        /\ \A m : m \in DOMAIN t <=> m \in DOMAIN u /\ m # old
        /\ \A m \in DOMAIN u : m # old => t[m] = u[m]
    OBVIOUS
  <1>4. SizeOf' = t
    <2> HIDE DEF t
    <2>1. \A j \in Index : j # i => dir'[j].name = dir[j].name /\ dir'[j].length = dir[j].length
      BY DEF SameEntry
    <2>2. \A j \in Index : j # i => dir[j].name # old
      BY <1>1 DEF NamesInv
    <2>3. \A m : m \in DOMAIN t <=> \E j \in Index : dir'[j].name # 0 /\ dir'[j].name = m
      BY <1>1, <1>2, <1>3, <2>1, <2>2 DEF IsTableOf
    <2>4. \A j \in Index : dir'[j].name # 0 => t[dir'[j].name] = dir'[j].length
      BY <1>1, <1>2, <1>3, <2>1, <2>2 DEF IsTableOf
    <2>5. IsTableOf(t)'
      BY <1>3, <2>3, <2>4 DEF IsTableOf
    <2> QED BY <2>5, SizeOfNext DEF TableIsSizeOf
  <1> QED BY <1>1, <1>4 DEF S!Restrict

(* One entry gets a new name. *)
LEMMA TableRenames ==
  ASSUME NamesInv, NamesInv', NEW i \in Index, dir[i].name # 0, NEW n, n # 0,
         dir'[i].name = n, dir'[i].length = dir[i].length,
         \A j \in Index : j # i => SameEntry(dir'[j], dir[j])
  PROVE  SizeOf' = [m \in (DOMAIN SizeOf \ {dir[i].name}) \cup {n} |->
                      IF m = n THEN SizeOf[dir[i].name] ELSE SizeOf[m]]
  <1>1. PICK u, old : u = SizeOf /\ old = dir[i].name
    OBVIOUS
  <1>2. IsTableOf(u)
    BY <1>1, SizeOfIsTable
  <1> DEFINE t == [m \in (DOMAIN u \ {old}) \cup {n} |-> IF m = n THEN u[old] ELSE u[m]]
  <1>3. /\ t = [m \in DOMAIN t |-> t[m]]
        /\ \A m : m \in DOMAIN t <=> (m \in DOMAIN u /\ m # old) \/ m = n
        /\ t[n] = u[old]
        /\ \A m \in DOMAIN u : m # n /\ m # old => t[m] = u[m]
    OBVIOUS
  <1>4. SizeOf' = t
    <2> HIDE DEF t
    <2>1. \A j \in Index : j # i => dir'[j].name = dir[j].name /\ dir'[j].length = dir[j].length
      BY DEF SameEntry
    <2>2. /\ \A j \in Index : j # i => dir[j].name # old
          /\ \A j \in Index : j # i => dir'[j].name # n
      BY <1>1 DEF NamesInv
    <2>3. \A m : m \in DOMAIN t <=> \E j \in Index : dir'[j].name # 0 /\ dir'[j].name = m
      BY <1>1, <1>2, <1>3, <2>1, <2>2 DEF IsTableOf
    <2>4. \A j \in Index : dir'[j].name # 0 => t[dir'[j].name] = dir'[j].length
      <3> SUFFICES ASSUME NEW j \in Index, dir'[j].name # 0
                   PROVE  t[dir'[j].name] = dir'[j].length
        OBVIOUS
      <3>1. CASE j = i
        BY <3>1, <1>1, <1>2, <1>3 DEF IsTableOf
      <3>2. CASE j # i
        BY <3>2, <1>2, <1>3, <2>1, <2>2 DEF IsTableOf
      <3> QED BY <3>1, <3>2
    <2>5. IsTableOf(t)'
      BY <1>3, <2>3, <2>4 DEF IsTableOf
    <2> QED BY <2>5, SizeOfNext DEF TableIsSizeOf
  <1> QED BY <1>1, <1>4

LEMMA TableStep ==
  ASSUME IInv, SizedInv, NamesInv, NamesInv', Effect
  PROVE  [S!Next]_SizeOf
  <1>1. CASE Ends \/ Takes \/ Waits \/ (phase = "open" /\ Keeps)
    BY <1>1, TableStays DEF Ends, Takes, Waits, Keeps, SameEntry
  <1>2. ASSUME NEW a \in FileName, NEW length \in CreateLengths,
               phase = "open", create_code(a, length) = 0,
               new_file_index \in Index, index[new_file_index] = 0,
               Creates(new_file_index, Kept[a], length)
        PROVE  S!Next
    <2>1. PICK i \in Index : i = new_file_index
      BY <1>2
    <2>2. /\ dir[i].name = 0 /\ dir'[i].name = Kept[a] /\ dir'[i].length = length
          /\ \A j \in Index : j # i => SameEntry(dir'[j], dir[j])
      BY <1>2, <2>1 DEF Creates, OthersSame, IInv, EntriesInv, Scanned
    <2>3. S!SetSize(Kept[a], length)
      BY <2>2, KeptNames, TableSets
    <2>4. length \in Nat
      BY VfsAssumption
    <2>5. S!create_code(a, length) = 0
      BY <1>2, <2>4, TableCodes
    <2> QED BY <2>3, <2>5 DEF S!Next, S!create_file
  <1>3. ASSUME NEW a \in FileName, NEW length, phase = "open",
               lookup(a) \in Index, index[lookup(a)] = 1, Resizes(lookup(a), length)
        PROVE  S!SetSize(Kept[a], length)
    <2>1. PICK i \in Index : i = lookup(a)
      BY <1>3
    <2>2. dir[i].name = Kept[a]
      <3>1. lookup(a) # None
        BY <1>3, IndexFinite DEF Index, None
      <3> QED BY <1>3, <2>1, <3>1, LookupRight
    <2>3. /\ dir'[i].name = Kept[a] /\ dir'[i].length = length
          /\ \A j \in Index : j # i => SameEntry(dir'[j], dir[j])
      BY <1>3, <2>1, <2>2 DEF Resizes, OthersSame
    <2> QED BY <2>2, <2>3, KeptNames, TableSets
  <1>4. ASSUME NEW a \in FileName, NEW length \in ResizeLengths,
               phase = "open", resize_code(a, length) = 0,
               lookup(a) \in Index, index[lookup(a)] = 1, Resizes(lookup(a), length)
        PROVE  S!Next
    <2>1. length \in Nat
      BY VfsAssumption
    <2>2. S!resize_code(a, length) = 0
      BY <1>4, <2>1, TableCodes
    <2> QED BY <1>3, <1>4, <2>2 DEF S!Next, S!resize_file
  <1>5. ASSUME NEW a \in FileName, NEW offset \in WriteOffsets, NEW buf \in Buffers,
               phase = "open", write_code(a, offset, Len(buf)) = 0,
               lookup(a) \in Index, index[lookup(a)] = 1,
               offset + Len(buf) > file[lookup(a)].length,
               Resizes(lookup(a), offset + Len(buf))
        PROVE  S!Next
    <2>1. PICK count : count = Len(buf)
      OBVIOUS
    <2>2. offset \in Nat /\ count \in Nat /\ count \in {Len(b) : b \in Buffers}
      BY <2>1, VfsAssumption
    <2>3. S!write_code(a, offset, count) = 0
      BY <1>5, <2>1, <2>2, TableCodes
    <2>4. offset + count > SizeOf[Kept[a]]
      <3>1. lookup(a) # None
        BY <1>5, IndexFinite DEF Index, None
      <3> QED BY <1>5, <2>1, <3>1, TableWhenOpen
    <2>5. S!SetSize(Kept[a], offset + count)
      BY <1>3, <1>5, <2>1
    <2>6. S!write_file(a, offset, count)
      BY <2>3, <2>4, <2>5 DEF S!write_file
    <2> QED BY <2>2, <2>6 DEF S!Next
  <1>6. ASSUME NEW a \in FileName, phase = "open", delete_code(a) = 0,
               lookup(a) \in Index, index[lookup(a)] = 1, Deletes(lookup(a))
        PROVE  S!Next
    <2>1. PICK i \in Index : i = lookup(a)
      BY <1>6
    <2>2. dir[i].name = Kept[a]
      <3>1. lookup(a) # None
        BY <1>6, IndexFinite DEF Index, None
      <3> QED BY <1>6, <2>1, <3>1, LookupRight
    <2>3. dir'[i].name = 0 /\ \A j \in Index : j # i => SameEntry(dir'[j], dir[j])
      BY <1>6, <2>1 DEF Deletes, OthersSame, SameEntry, NoFile
    <2>4. SizeOf' = S!Restrict(SizeOf, DOMAIN SizeOf \ {Kept[a]})
      BY <2>2, <2>3, KeptNames, TableRemoves
    <2>5. S!delete_code(a) = 0
      BY <1>6, TableCodes
    <2>6. S!delete_file(a)
      BY <2>4, <2>5 DEF S!delete_file
    <2> QED BY <2>6 DEF S!Next
  <1>7. ASSUME NEW r \in Renames, r[1] \in FileName, r[2] \in FileName, r[1] # r[2],
               phase = "open", rename_code(r[1], r[2]) = 0,
               lookup(r[1]) \in Index, Relabels(lookup(r[1]), Kept[r[2]])
        PROVE  S!Next
    <2>1. PICK i \in Index, a \in FileName, b \in FileName :
            i = lookup(r[1]) /\ a = r[1] /\ b = r[2]
      BY <1>7
    <2>2. dir[i].name = Kept[a]
      <3>1. lookup(a) # None
        BY <1>7, <2>1, IndexFinite DEF Index, None
      <3> QED BY <1>7, <2>1, <3>1, LookupRight
    <2>3. /\ dir'[i].name = Kept[b] /\ dir'[i].length = dir[i].length
          /\ \A j \in Index : j # i => SameEntry(dir'[j], dir[j])
      BY <1>7, <2>1 DEF Relabels, OthersSame
    <2>4. SizeOf' = [m \in (DOMAIN SizeOf \ {Kept[a]}) \cup {Kept[b]} |->
                       IF m = Kept[b] THEN SizeOf[Kept[a]] ELSE SizeOf[m]]
      BY <2>2, <2>3, KeptNames, TableRenames
    <2>5. S!rename_code(a, b) = 0
      BY <1>7, <2>1, TableCodes
    <2>6. S!rename_file(a, b)
      BY <1>7, <2>1, <2>4, <2>5 DEF S!rename_file
    <2>7. <<a, b>> \in Renames
      BY <2>1, VfsAssumption
    <2> QED BY <2>6, <2>7 DEF S!Next
  <1> QED BY <1>1, <1>2, <1>4, <1>5, <1>6, <1>7 DEF Effect

LEMMA TableInit == Init => S!Init
  <1> SUFFICES ASSUME Init PROVE S!Init
    OBVIOUS
  <1>1. Listed = {}
    BY DEF Init, Listed, NoFile
  <1>2. SizeOf = [n \in {} |-> 0]
    BY <1>1 DEF SizeOf
  <1> QED BY <1>2 DEF S!Init

(* The filesystem implements the table of names and lengths: each call that
   succeeds changes it as the call of the table does, and no other step, no
   restart and no crash changes it. *)
THEOREM SizesImplemented ==
  ASSUME LengthFits, RenamesKeepOrder
  PROVE  Spec => ImplementsSizes
  <1>1. ASSUME IInv, SizedInv, NamesInv, NamesInv', [Next]_vars PROVE [S!Next]_SizeOf
    BY <1>1, NextEffect, TableStep
  <1>2. LengthFits /\ RenamesKeepOrder
    OBVIOUS
  <1> QED BY <1>1, <1>2, TableInit, NamesInvariant, PTL DEF Spec, ImplementsSizes, S!Spec

----------------------------------------------------------------------------
(* The table of contents that dir_table and file_data hold *)

(* t is that table. *)
IsStoreOf(t) ==
  /\ t = [n \in DOMAIN t |-> t[n]]
  /\ \A n : n \in DOMAIN t <=> \E i \in Index : dir[i].name # 0 /\ dir[i].name = n
  /\ \A i \in Index : dir[i].name # 0 => t[dir[i].name] = BytesOf(i)

LEMMA ContentOfIsStore == NamesInv => \A t : IsStoreOf(t) <=> t = ContentOf
  <1> SUFFICES ASSUME NamesInv, NEW t PROVE IsStoreOf(t) <=> t = ContentOf
    OBVIOUS
  <1>1. IsStoreOf(ContentOf)
    <2>1. /\ ContentOf = [n \in DOMAIN ContentOf |-> ContentOf[n]]
          /\ DOMAIN ContentOf = {dir[i].name : i \in Listed}
      BY DEF ContentOf
    <2>2. \A i \in Index : i \in Listed <=> dir[i].name # 0
      BY DEF Listed
    <2>3. ASSUME NEW i \in Index, dir[i].name # 0 PROVE ContentOf[dir[i].name] = BytesOf(i)
      <3>1. i \in Listed /\ dir[i].name \in {dir[e].name : e \in Listed}
        BY <2>2, <2>3
      <3>2. (CHOOSE e \in Listed : dir[e].name = dir[i].name) = i
        BY <2>2, <2>3 DEF NamesInv, Listed
      <3> QED BY <3>1, <3>2 DEF ContentOf, BytesOf
    <2>4. \A n : n \in DOMAIN ContentOf <=> \E i \in Index : dir[i].name # 0 /\ dir[i].name = n
      BY <2>1 DEF Listed
    <2> QED BY <2>1, <2>3, <2>4 DEF IsStoreOf
  <1>2. ASSUME IsStoreOf(t) PROVE t = ContentOf
    <2>1. PICK u : u = ContentOf
      OBVIOUS
    <2>2. IsStoreOf(u)
      BY <1>1, <2>1
    <2>3. /\ t = [n \in DOMAIN t |-> t[n]] /\ u = [n \in DOMAIN u |-> u[n]]
          /\ \A n : n \in DOMAIN t <=> n \in DOMAIN u
      BY <1>2, <2>2 DEF IsStoreOf
    <2>4. DOMAIN t = DOMAIN u
      BY <2>3
    <2>5. \A n \in DOMAIN t : t[n] = u[n]
      BY <1>2, <2>2 DEF IsStoreOf
    <2> QED BY <2>1, <2>3, <2>4, <2>5
  <1> QED BY <1>1, <1>2

StoreIsContentOf == \A t : IsStoreOf(t) <=> t = ContentOf

LEMMA ContentOfNext == NamesInv' => StoreIsContentOf'
  <1>1. NamesInv => StoreIsContentOf
    BY ContentOfIsStore DEF StoreIsContentOf
  <1> QED BY <1>1, PTL

(* The other entries keep their names, and those in use their bytes. *)
OthersKept(i) ==
  \A j \in Index : j # i => /\ dir'[j].name = dir[j].name
                            /\ dir[j].name # 0 => BytesOf(j)' = BytesOf(j)

(* Every entry keeps its name, and every file its bytes. *)
LEMMA StoreStays ==
  ASSUME NamesInv, NamesInv',
         \A j \in Index : dir'[j].name = dir[j].name
                          /\ (dir[j].name # 0 => BytesOf(j)' = BytesOf(j))
  PROVE  ContentOf' = ContentOf
  <1>1. PICK t : t = ContentOf
    OBVIOUS
  <1>2. IsStoreOf(t)
    BY <1>1, ContentOfIsStore
  <1>3. IsStoreOf(t)'
    <2> HIDE DEF BytesOf
    <2> QED BY <1>2 DEF IsStoreOf
  <1> QED BY <1>1, <1>3, ContentOfNext DEF StoreIsContentOf

(* One entry gets the bytes; it had the name before, or was free. *)
LEMMA StoreSets ==
  ASSUME NamesInv, NamesInv', NEW i \in Index, NEW n, n # 0, NEW bytes,
         dir'[i].name = n, BytesOf(i)' = bytes, dir[i].name \in {0, n}, OthersKept(i)
  PROVE  F!SetStore(n, bytes)
  <1>1. PICK u : u = ContentOf
    OBVIOUS
  <1>2. IsStoreOf(u)
    BY <1>1, ContentOfIsStore
  <1> DEFINE t == [m \in DOMAIN u \cup {n} |-> IF m = n THEN bytes ELSE u[m]]
  <1>3. /\ t = [m \in DOMAIN t |-> t[m]]
        /\ \A m : m \in DOMAIN t <=> m \in DOMAIN u \/ m = n
        /\ t[n] = bytes /\ \A m \in DOMAIN u : m # n => t[m] = u[m]
    OBVIOUS
  <1>4. ContentOf' = t
    <2> HIDE DEF t
    <2>1. \A j \in Index : j # i => /\ dir'[j].name = dir[j].name
                                    /\ dir[j].name # 0 => BytesOf(j)' = BytesOf(j)
      BY DEF OthersKept
    <2>2. \A j \in Index : j # i => dir'[j].name # n
      BY DEF NamesInv
    <2>3. \A m : m \in DOMAIN t <=> \E j \in Index : dir'[j].name # 0 /\ dir'[j].name = m
      BY <1>2, <1>3, <2>1, <2>2 DEF IsStoreOf
    <2>4. \A j \in Index : dir'[j].name # 0 => t[dir'[j].name] = BytesOf(j)'
      BY <1>2, <1>3, <2>1, <2>2 DEF IsStoreOf
    <2>5. IsStoreOf(t)'
      BY <1>3, <2>3, <2>4 DEF IsStoreOf
    <2> QED BY <2>5, ContentOfNext DEF StoreIsContentOf
  <1> QED BY <1>1, <1>4 DEF F!SetStore

(* One entry is cleared. *)
LEMMA StoreRemoves ==
  ASSUME NamesInv, NamesInv', NEW i \in Index, dir[i].name # 0, dir'[i].name = 0,
         OthersKept(i)
  PROVE  ContentOf' = F!Restrict(ContentOf, DOMAIN ContentOf \ {dir[i].name})
  <1>1. PICK u, old : u = ContentOf /\ old = dir[i].name
    OBVIOUS
  <1>2. IsStoreOf(u)
    BY <1>1, ContentOfIsStore
  <1> DEFINE t == [m \in DOMAIN u \ {old} |-> u[m]]
  <1>3. /\ t = [m \in DOMAIN t |-> t[m]]
        /\ \A m : m \in DOMAIN t <=> m \in DOMAIN u /\ m # old
        /\ \A m \in DOMAIN u : m # old => t[m] = u[m]
    OBVIOUS
  <1>4. ContentOf' = t
    <2> HIDE DEF t
    <2>1. \A j \in Index : j # i => /\ dir'[j].name = dir[j].name
                                    /\ dir[j].name # 0 => BytesOf(j)' = BytesOf(j)
      BY DEF OthersKept
    <2>2. \A j \in Index : j # i => dir[j].name # old
      BY <1>1 DEF NamesInv
    <2>3. \A m : m \in DOMAIN t <=> \E j \in Index : dir'[j].name # 0 /\ dir'[j].name = m
      BY <1>1, <1>2, <1>3, <2>1, <2>2 DEF IsStoreOf
    <2>4. \A j \in Index : dir'[j].name # 0 => t[dir'[j].name] = BytesOf(j)'
      BY <1>1, <1>2, <1>3, <2>1, <2>2 DEF IsStoreOf
    <2>5. IsStoreOf(t)'
      BY <1>3, <2>3, <2>4 DEF IsStoreOf
    <2> QED BY <2>5, ContentOfNext DEF StoreIsContentOf
  <1> QED BY <1>1, <1>4 DEF F!Restrict

(* One entry gets a new name. *)
LEMMA StoreRenames ==
  ASSUME NamesInv, NamesInv', NEW i \in Index, dir[i].name # 0, NEW n, n # 0,
         dir'[i].name = n, BytesOf(i)' = BytesOf(i), OthersKept(i)
  PROVE  ContentOf' = [m \in (DOMAIN ContentOf \ {dir[i].name}) \cup {n} |->
                         IF m = n THEN ContentOf[dir[i].name] ELSE ContentOf[m]]
  <1>1. PICK u, old : u = ContentOf /\ old = dir[i].name
    OBVIOUS
  <1>2. IsStoreOf(u)
    BY <1>1, ContentOfIsStore
  <1> DEFINE t == [m \in (DOMAIN u \ {old}) \cup {n} |-> IF m = n THEN u[old] ELSE u[m]]
  <1>3. /\ t = [m \in DOMAIN t |-> t[m]]
        /\ \A m : m \in DOMAIN t <=> (m \in DOMAIN u /\ m # old) \/ m = n
        /\ t[n] = u[old]
        /\ \A m \in DOMAIN u : m # n /\ m # old => t[m] = u[m]
    OBVIOUS
  <1>4. ContentOf' = t
    <2> HIDE DEF t
    <2>1. \A j \in Index : j # i => /\ dir'[j].name = dir[j].name
                                    /\ dir[j].name # 0 => BytesOf(j)' = BytesOf(j)
      BY DEF OthersKept
    <2>2. /\ \A j \in Index : j # i => dir[j].name # old
          /\ \A j \in Index : j # i => dir'[j].name # n
      BY <1>1 DEF NamesInv
    <2>3. \A m : m \in DOMAIN t <=> \E j \in Index : dir'[j].name # 0 /\ dir'[j].name = m
      BY <1>1, <1>2, <1>3, <2>1, <2>2 DEF IsStoreOf
    <2>4. \A j \in Index : dir'[j].name # 0 => t[dir'[j].name] = BytesOf(j)'
      <3> SUFFICES ASSUME NEW j \in Index, dir'[j].name # 0
                   PROVE  t[dir'[j].name] = BytesOf(j)'
        OBVIOUS
      <3>1. CASE j = i
        BY <3>1, <1>1, <1>2, <1>3 DEF IsStoreOf
      <3>2. CASE j # i
        BY <3>2, <1>2, <1>3, <2>1, <2>2 DEF IsStoreOf
      <3> QED BY <3>1, <3>2
    <2>5. IsStoreOf(t)'
      BY <1>3, <2>3, <2>4 DEF IsStoreOf
    <2> QED BY <2>5, ContentOfNext DEF StoreIsContentOf
  <1> QED BY <1>1, <1>4

(* Its lengths are those of the table of names and lengths. *)
LEMMA LengthsOfContent ==
  ASSUME SizedInv, NamesInv
  PROVE  [n \in DOMAIN ContentOf |-> Len(ContentOf[n])] = SizeOf
  <1>1. PICK u : u = ContentOf
    OBVIOUS
  <1>2. IsStoreOf(u)
    BY <1>1, ContentOfIsStore
  <1>3. \A i \in Index : Len(BytesOf(i)) = dir[i].length
    BY DEF BytesOf, read_bytes, SizedInv
  <1>4. PICK t : t = [n \in DOMAIN u |-> Len(u[n])]
    OBVIOUS
  <1>5. /\ t = [n \in DOMAIN t |-> t[n]] /\ DOMAIN t = DOMAIN u
        /\ \A n \in DOMAIN u : t[n] = Len(u[n])
    BY <1>4
  <1>6. IsTableOf(t)
    BY <1>2, <1>3, <1>5 DEF IsStoreOf, IsTableOf
  <1> QED BY <1>1, <1>4, <1>6, SizeOfIsTable

(* The table of contents gives the codes of the table of lengths, and so
   those of the calls. *)
LEMMA StoreOperators ==
  ASSUME NEW f
  PROVE  /\ F!Sizes!Cardinality(f) = S!Cardinality(f)
         /\ F!Sizes!SumFunction(f) = S!SumFunction(f)
  <1>1. F!Sizes!Cardinality(f) = S!Cardinality(f)
    BY DEF S!Cardinality, F!Sizes!Cardinality
  <1>2. F!Sizes!SumFunctionOnSet(f, DOMAIN f) = S!SumFunctionOnSet(f, DOMAIN f)
    BY DEF S!SumFunctionOnSet, S!FoldFunctionOnSet, S!MapThenFoldSet,
           F!Sizes!SumFunctionOnSet, F!Sizes!FoldFunctionOnSet, F!Sizes!MapThenFoldSet
  <1>3. F!Sizes!SumFunction(f) = S!SumFunction(f)
    BY <1>2 DEF S!SumFunction, F!Sizes!SumFunction
  <1> QED BY <1>1, <1>3

LEMMA StoreCodes ==
  ASSUME IInv, SizedInv, NamesInv, phase = "open", NEW a \in FileName
  PROVE  /\ \A length \in Nat : create_code(a, length) = F!Sizes!create_code(a, length)
         /\ \A length \in Nat : resize_code(a, length) = F!Sizes!resize_code(a, length)
         /\ \A b \in FileName : rename_code(a, b) = F!Sizes!rename_code(a, b)
         /\ \A offset, count \in Nat :
              write_code(a, offset, count) = F!Sizes!write_code(a, offset, count)
         /\ delete_code(a) = F!Sizes!delete_code(a)
         /\ F!Sizes!Exists(a) <=> S!Exists(a)
  <1> DEFINE lengths == [n \in DOMAIN ContentOf |-> Len(ContentOf[n])]
  <1>1. lengths = SizeOf
    BY LengthsOfContent
  <1>2. F!Sizes!Total = S!Total
    <2>1. F!Sizes!Total = F!Sizes!SumFunction(lengths)
      BY DEF F!Sizes!Total
    <2>2. S!Total = S!SumFunction(SizeOf)
      BY DEF S!Total
    <2> HIDE DEF lengths
    <2> QED BY <1>1, <2>1, <2>2, StoreOperators
  <1>3. \A b \in FileName : F!Sizes!Exists(b) <=> S!Exists(b)
    <2>1. \A b \in FileName : F!Sizes!Exists(b) <=> Kept[b] \in DOMAIN lengths
      BY DEF F!Sizes!Exists
    <2>2. \A b \in FileName : S!Exists(b) <=> Kept[b] \in DOMAIN SizeOf
      BY DEF S!Exists
    <2> HIDE DEF lengths
    <2> QED BY <1>1, <2>1, <2>2
  <1>4. F!Sizes!Cardinality(DOMAIN lengths) = S!Cardinality(DOMAIN SizeOf)
    <2> HIDE DEF lengths
    <2> QED BY <1>1, StoreOperators
  <1>5. \A length \in Nat : create_code(a, length) = F!Sizes!create_code(a, length)
    <2>1. \A length \in Nat : F!Sizes!create_code(a, length) = S!create_code(a, length)
      BY <1>2, <1>3, <1>4 DEF F!Sizes!create_code, S!create_code
    <2> QED BY <2>1, TableCodes
  <1>6. \A length \in Nat : resize_code(a, length) = F!Sizes!resize_code(a, length)
    <2>1. \A length \in Nat : F!Sizes!resize_code(a, length) = S!resize_code(a, length)
      BY <1>1, <1>2, <1>3 DEF F!Sizes!resize_code, S!resize_code
    <2> QED BY <2>1, TableCodes
  <1>7. \A b \in FileName : rename_code(a, b) = F!Sizes!rename_code(a, b)
    <2>1. \A b \in FileName : F!Sizes!rename_code(a, b) = S!rename_code(a, b)
      BY <1>3 DEF F!Sizes!rename_code, S!rename_code
    <2> QED BY <2>1, TableCodes
  <1>8. \A offset, count \in Nat :
          write_code(a, offset, count) = F!Sizes!write_code(a, offset, count)
    <2>1. \A offset, count \in Nat :
            F!Sizes!write_code(a, offset, count) = S!write_code(a, offset, count)
      BY <1>1, <1>2, <1>3 DEF F!Sizes!write_code, S!write_code
    <2> QED BY <2>1, TableCodes
  <1>9. delete_code(a) = F!Sizes!delete_code(a)
    <2>1. F!Sizes!delete_code(a) = S!delete_code(a)
      BY <1>3 DEF F!Sizes!delete_code, S!delete_code
    <2> QED BY <2>1, TableCodes
  <1> QED BY <1>3, <1>5, <1>6, <1>7, <1>8, <1>9

----------------------------------------------------------------------------
(* The files change as the table of contents changes *)

(* Every entry that a restart would find is in use between two calls. *)
LEMMA OpenEntries ==
  ASSUME IInv, phase = "open"
  PROVE  \A j \in Index : /\ dir[j].name # 0 <=> j \in Live
                          /\ index[j] = 1 <=> j \in Live
  BY DEF IInv, EntriesInv, Scanned, Live

LEMMA LookupName ==
  ASSUME IInv, NamesInv, phase = "open", NEW a \in FileName, lookup(a) \in Index
  PROVE  dir[lookup(a)].name = Kept[a] /\ lookup(a) \in Live
  <1>1. lookup(a) # None
    BY IndexFinite DEF Index, None
  <1> QED BY <1>1, LookupRight DEF Live

LEMMA CreateStore ==
  ASSUME IInv, SizedInv, NamesInv, LayoutInv, LengthFits, IsData(data),
         IInv', NamesInv', LayoutInv',
         NEW a \in FileName, NEW length \in CreateLengths, length \in Nat \ {0},
         create_file(a, length)
  PROVE  IsData(data') /\ (F!Next \/ ContentOf' = ContentOf)
  <1>1. phase = "open" /\ new_file_index \in Index /\ index[new_file_index] = 0
        /\ create_code(a, length) = 0
    BY NewIndexFree DEF create_file, create_code
  <1>2. PICK i \in Index : i = new_file_index
    BY <1>1
  <1>3. CASE Fault
    BY <1>3 DEF Fault, disk, ContentOf, Listed
  <1>4. CASE ~ Fault
    <2>1. /\ phase' = "open" /\ IsData(data')
          /\ \A g \in Live : BytesOf(g)' = BytesOf(g)
          /\ BytesOf(i)' = F!Zeros(length)
      BY <1>2, <1>4, CreateContent
    <2>2. Creates(i, Kept[a], length)
      BY <1>2, <2>1, CreateEffect DEF Ends
    <2>3. /\ dir[i].name = 0 /\ dir'[i].name = Kept[a] /\ OthersKept(i)
      BY <1>1, <1>2, <2>1, <2>2, OpenEntries DEF Creates, OthersSame, SameEntry, OthersKept
    <2>4. F!SetStore(Kept[a], F!Zeros(length))
      BY <2>1, <2>3, KeptNames, StoreSets
    <2>5. F!Sizes!create_code(a, length) = 0
      BY <1>1, StoreCodes
    <2>6. F!create_file(a, length)
      BY <2>4, <2>5 DEF F!create_file
    <2> QED BY <2>1, <2>6 DEF F!Next
  <1> QED BY <1>3, <1>4

LEMMA ResizeStore ==
  ASSUME IInv, SizedInv, NamesInv, LayoutInv, LengthFits, IsData(data),
         IInv', NamesInv', LayoutInv',
         NEW a \in FileName, NEW length \in ResizeLengths, length \in Nat \ {0},
         resize_file(a, length)
  PROVE  IsData(data') /\ (F!Next \/ ContentOf' = ContentOf)
  <1>1. phase = "open" /\ resize_code(a, length) = 0 /\ lookup(a) \in Index
    BY LookupLive DEF resize_file, resize_code
  <1>2. PICK i \in Index : i = lookup(a)
    BY <1>1
  <1>3. CASE Fault
    BY <1>3 DEF Fault, disk, ContentOf, Listed
  <1>4. CASE ~ Fault
    <2>1. /\ phase' = "open" /\ IsData(data')
          /\ \A g \in Live : g # i => BytesOf(g)' = BytesOf(g)
          /\ BytesOf(i)' = F!Resized(BytesOf(i), length)
      BY <1>2, <1>4, ResizeContent
    <2>2. Resizes(i, length)
      BY <1>2, <2>1, ResizeEffect DEF Ends
    <2>3. /\ dir[i].name = Kept[a] /\ dir'[i].name = Kept[a] /\ OthersKept(i)
      BY <1>1, <1>2, <2>1, <2>2, OpenEntries, LookupName
         DEF Resizes, OthersSame, SameEntry, OthersKept
    <2>4. BytesOf(i) = ContentOf[Kept[a]]
      BY <2>3, KeptNames, ContentOfIsStore DEF IsStoreOf
    <2>5. F!SetStore(Kept[a], F!Resized(ContentOf[Kept[a]], length))
      BY <2>1, <2>3, <2>4, KeptNames, StoreSets
    <2>6. F!Sizes!resize_code(a, length) = 0
      BY <1>1, StoreCodes
    <2>7. F!resize_file(a, length)
      BY <2>5, <2>6 DEF F!resize_file
    <2> QED BY <2>1, <2>7 DEF F!Next
  <1> QED BY <1>3, <1>4

LEMMA WriteStore ==
  ASSUME IInv, SizedInv, NamesInv, LayoutInv, LengthFits, IsData(data),
         IInv', NamesInv', LayoutInv',
         NEW a \in FileName, NEW offset \in WriteOffsets, NEW buf \in Buffers,
         offset \in Nat, write_file(a, offset, buf)
  PROVE  IsData(data') /\ (F!Next \/ ContentOf' = ContentOf)
  <1>1. PICK count \in Nat : count = Len(buf)
    BY VfsAssumption
  <1>2. phase = "open" /\ write_code(a, offset, count) = 0 /\ lookup(a) \in Index
    BY <1>1, LookupLive DEF write_file, write_code
  <1>3. PICK i \in Index : i = lookup(a)
    BY <1>2
  <1>4. CASE Fault
    BY <1>4 DEF Fault, disk, ContentOf, Listed
  <1>5. CASE ~ Fault
    <2>1. /\ phase' = "open" /\ IsData(data')
          /\ \A g \in Live : g # i => BytesOf(g)' = BytesOf(g)
          /\ BytesOf(i)' = F!Written(BytesOf(i), offset, buf)
      BY <1>3, <1>5, WriteContent
    <2>2. Resizes(i, offset + Len(buf)) \/ Keeps
      BY <1>3, <2>1, WriteEffect DEF Ends
    <2>3. \A j \in Index : dir'[j].name = dir[j].name
      BY <2>2 DEF Resizes, Keeps, OthersSame, SameEntry
    <2>4. /\ dir[i].name = Kept[a] /\ dir'[i].name = Kept[a] /\ OthersKept(i)
      BY <1>2, <1>3, <2>1, <2>3, OpenEntries, LookupName DEF OthersKept
    <2>5. BytesOf(i) = ContentOf[Kept[a]]
      BY <2>4, KeptNames, ContentOfIsStore DEF IsStoreOf
    <2>6. F!SetStore(Kept[a], F!Written(ContentOf[Kept[a]], offset, buf))
      BY <2>1, <2>4, <2>5, KeptNames, StoreSets
    <2>7. F!Sizes!write_code(a, offset, Len(buf)) = 0
      BY <1>1, <1>2, StoreCodes
    <2>8. F!write_file(a, offset, buf)
      BY <2>6, <2>7 DEF F!write_file
    <2> QED BY <2>1, <2>8 DEF F!Next
  <1> QED BY <1>4, <1>5

LEMMA DeleteStore ==
  ASSUME IInv, SizedInv, NamesInv, IsData(data), IInv', NamesInv',
         NEW a \in FileName, delete_file(a)
  PROVE  IsData(data') /\ (F!Next \/ ContentOf' = ContentOf)
  <1>1. phase = "open" /\ delete_code(a) = 0 /\ lookup(a) \in Index
    BY LookupLive DEF delete_file, delete_code
  <1>2. PICK i \in Index : i = lookup(a)
    BY <1>1
  <1>3. CASE Abort(dir, data)
    BY <1>3 DEF Abort, ContentOf, Listed
  <1>4. CASE ~ Abort(dir, data)
    <2>1. data' = data /\ dir' = [dir EXCEPT ![i] = NoFile]
      BY <1>2, <1>4 DEF delete_file
    <2>2. DOMAIN dir = Index
      BY DEF IInv, TablesInv, IsTable
    <2>3. dir'[i].name = 0 /\ \A j \in Index : j # i => dir'[j] = dir[j]
      BY <2>1, <2>2 DEF NoFile
    <2>4. OthersKept(i)
      BY <2>1, <2>3 DEF OthersKept, BytesOf
    <2>5. dir[i].name = Kept[a]
      BY <1>1, <1>2, LookupName
    <2>6. ContentOf' = F!Restrict(ContentOf, DOMAIN ContentOf \ {Kept[a]})
      BY <2>3, <2>4, <2>5, KeptNames, StoreRemoves
    <2>7. F!Sizes!delete_code(a) = 0
      BY <1>1, StoreCodes
    <2>8. F!delete_file(a)
      BY <2>6, <2>7 DEF F!delete_file
    <2> QED BY <2>1, <2>8 DEF F!Next
  <1> QED BY <1>3, <1>4

LEMMA RenameStore ==
  ASSUME IInv, SizedInv, NamesInv, IsData(data), IInv', NamesInv',
         NEW a \in FileName, NEW b \in FileName, <<a, b>> \in Renames, rename_file(a, b)
  PROVE  IsData(data') /\ (F!Next \/ ContentOf' = ContentOf)
  <1>1. phase = "open" /\ rename_code(a, b) = 0 /\ a # b /\ lookup(a) \in Index
    BY RenameEffect
  <1>2. PICK i \in Index : i = lookup(a)
    BY <1>1
  <1>3. data' = data /\ dir' = [dir EXCEPT ![i] = update_name(@, Kept[b])]
    BY <1>2 DEF rename_file, update_file_name
  <1>4. DOMAIN dir = Index /\ update_name(dir[i], Kept[b]).name = Kept[b]
        /\ update_name(dir[i], Kept[b]).offset = dir[i].offset
        /\ update_name(dir[i], Kept[b]).length = dir[i].length
    BY DEF IInv, TablesInv, IsTable, IsFile, update_name
  <1>5. /\ dir'[i].name = Kept[b] /\ BytesOf(i)' = BytesOf(i) /\ OthersKept(i)
    BY <1>3, <1>4 DEF OthersKept, BytesOf
  <1>6. dir[i].name = Kept[a]
    BY <1>1, <1>2, LookupName
  <1>7. ContentOf' = [m \in (DOMAIN ContentOf \ {Kept[a]}) \cup {Kept[b]} |->
                        IF m = Kept[b] THEN ContentOf[Kept[a]] ELSE ContentOf[m]]
    BY <1>5, <1>6, KeptNames, StoreRenames
  <1>8. F!Sizes!rename_code(a, b) = 0
    BY <1>1, StoreCodes
  <1>9. F!rename_file(a, b)
    BY <1>1, <1>7, <1>8 DEF F!rename_file
  <1> QED BY <1>3, <1>9 DEF F!Next

LEMMA RepackStore ==
  ASSUME IInv, SizedInv, NamesInv, LayoutInv, IsData(data), IInv', NamesInv', LayoutInv', repack
  PROVE  IsData(data') /\ ContentOf' = ContentOf
  <1>1. phase = "open" /\ Keeps
    BY RepackEffect
  <1>2. IsData(data') /\ \A g \in Live : BytesOf(g)' = BytesOf(g)
    BY RepackContent
  <1>3. \A j \in Index : dir'[j].name = dir[j].name
                         /\ (dir[j].name # 0 => BytesOf(j)' = BytesOf(j))
    BY <1>1, <1>2, OpenEntries DEF Keeps, SameEntry
  <1> QED BY <1>2, <1>3, StoreStays

LEMMA StepStore ==
  ASSUME IInv, SizedInv, NamesInv, LayoutInv, IsData(data), IInv', NamesInv', LayoutInv',
         LengthFits, NoEmptyFiles, [Next]_vars
  PROVE  IsData(data') /\ [F!Next]_ContentOf
  <1>1. CASE \/ init_fs_begin \/ init_fs_entry \/ init_fs_return \/ close_fs
             \/ compute_hash_tree \/ (\E b \in Block : compute_hash_block(b)) \/ UNCHANGED vars
    <2>1. dir' = dir /\ data' = data
      BY <1>1 DEF init_fs_begin, init_fs_entry, init_fs_return, close_fs, compute_hash_tree,
                  compute_hash_block, vars, disk
    <2> QED BY <2>1 DEF ContentOf, Listed
  <1>2. CASE \E a \in FileName, length \in CreateLengths : create_file(a, length)
    <2>1. PICK a \in FileName, length \in CreateLengths : create_file(a, length)
      BY <1>2
    <2>2. length \in Nat \ {0}
      BY VfsAssumption DEF NoEmptyFiles
    <2> QED BY <2>1, <2>2, CreateStore
  <1>3. CASE \E a \in FileName, length \in ResizeLengths : resize_file(a, length)
    <2>1. PICK a \in FileName, length \in ResizeLengths : resize_file(a, length)
      BY <1>3
    <2>2. length \in Nat \ {0}
      BY VfsAssumption DEF NoEmptyFiles
    <2> QED BY <2>1, <2>2, ResizeStore
  <1>4. CASE \E a \in FileName, offset \in WriteOffsets, buf \in Buffers :
               write_file(a, offset, buf)
    <2>1. PICK a \in FileName, offset \in WriteOffsets, buf \in Buffers :
               write_file(a, offset, buf)
      BY <1>4
    <2>2. offset \in Nat
      BY VfsAssumption
    <2> QED BY <2>1, <2>2, WriteStore
  <1>5. CASE \E a \in FileName : delete_file(a)
    BY <1>5, DeleteStore
  <1>6. CASE \E r \in Renames : rename_file(r[1], r[2])
    <2>1. PICK r \in Renames : rename_file(r[1], r[2])
      BY <1>6
    <2>2. PICK a \in FileName, b \in FileName : a = r[1] /\ b = r[2] /\ <<a, b>> = r
      BY VfsAssumption
    <2> QED BY <2>1, <2>2, RenameStore
  <1>7. CASE repack
    BY <1>7, RepackStore
  <1> QED BY <1>1, <1>2, <1>3, <1>4, <1>5, <1>6, <1>7 DEF Next

LEMMA InitStore == Init => IsData(data) /\ F!Init
  <1> SUFFICES ASSUME Init PROVE IsData(data) /\ F!Init
    OBVIOUS
  <1>1. data = [p \in 0 .. FileDataLen - 1 |-> 0]
    BY DEF Init
  <1>2. IsData(data)
    BY <1>1 DEF IsData
  <1>3. Listed = {}
    BY DEF Init, Listed, NoFile
  <1>4. ContentOf = [n \in {} |-> << >>]
    BY <1>3 DEF ContentOf
  <1> QED BY <1>2, <1>4 DEF F!Init

LEMMA AllInvariants ==
  ASSUME LengthFits, NoEmptyFiles, RenamesKeepOrder
  PROVE  Spec => [](IInv /\ SizedInv /\ NamesInv /\ LayoutInv)
  <1>1. LengthFits /\ NoEmptyFiles /\ RenamesKeepOrder
    OBVIOUS
  <1>2. Spec => [](IInv /\ SizedInv /\ NamesInv)
    BY NamesInvariant
  <1>3. Spec => [](IInv /\ LayoutInv)
    BY LayoutInvariant
  <1> QED BY <1>2, <1>3, PTL

(* The filesystem implements the table of contents: a created or grown file
   is filled with null bytes, a write replaces the bytes it covers, and no
   call, repack, relocation, restart or crash changes another file. *)
THEOREM ContentsImplemented ==
  ASSUME LengthFits, NoEmptyFiles, RenamesKeepOrder
  PROVE  Spec => ImplementsContents
  <1>1. LengthFits /\ NoEmptyFiles /\ RenamesKeepOrder
    OBVIOUS
  <1> DEFINE Inv == IInv /\ SizedInv /\ NamesInv /\ LayoutInv
             Good == IsData(data)
  <1>2. Inv /\ Inv' /\ Good /\ [Next]_vars => Good' /\ [F!Next]_ContentOf
    BY <1>1, StepStore
  <1>3. Init => Good /\ F!Init
    BY InitStore
  <1>4. Spec => []Inv
    BY AllInvariants
  <1> QED BY <1>2, <1>3, <1>4, PTL DEF Spec, ImplementsContents, F!Spec

----------------------------------------------------------------------------
(* Reading *)

(* The bytes read at an offset in a file are the slice of its bytes. *)
IsSlice(bytes, start, length, offset, count) ==
  read_bytes(bytes, start + offset, count) =
    SubSeq(read_bytes(bytes, start, length), offset + 1, offset + count)

LEMMA ReadIsSlice ==
  ASSUME NEW bytes, NEW start \in Nat, NEW length \in Nat, NEW offset \in Nat, NEW count \in Nat,
         offset + count <= length
  PROVE  IsSlice(bytes, start, length, offset, count)
  <1>1. PICK s : s = [p \in 1 .. length |-> bytes[start + p - 1]]
    OBVIOUS
  <1>2. SubSeq(s, offset + 1, offset + count) =
          [p \in 1 .. count |-> s[(offset + 1) + p - 1]]
    OBVIOUS
  <1>3. ASSUME NEW p \in 1 .. count
        PROVE  s[(offset + 1) + p - 1] = bytes[start + offset + p - 1]
    <2>1. PICK q : q = (offset + 1) + p - 1
      OBVIOUS
    <2>2. q \in 1 .. length /\ start + q - 1 = start + offset + p - 1
      BY <2>1
    <2> QED BY <1>1, <2>1, <2>2
  <1> QED BY <1>1, <1>2, <1>3 DEF read_bytes, IsSlice

(* read_file gives the bytes of the table of contents, and its codes, or
   refuses with the code of a block whose hash is wrong. *)
ReadsRight ==
  phase = "open" =>
    \A a \in FileName : \A offset, count \in Nat :
      \/ read_file(a, offset, count) = F!read_file(a, offset, count)
      \/ read_file(a, offset, count).code = 3 /\ ~ Readable(lookup(a))

LEMMA ReadRight ==
  ASSUME IInv, SizedInv, NamesInv, LayoutInv
  PROVE  ReadsRight
  <1> SUFFICES ASSUME phase = "open", NEW a \in FileName, NEW offset \in Nat, NEW count \in Nat
               PROVE  \/ read_file(a, offset, count) = F!read_file(a, offset, count)
                      \/ read_file(a, offset, count).code = 3 /\ ~ Readable(lookup(a))
    BY DEF ReadsRight
  <1>1. lookup(a) = None <=> ~ F!Sizes!Exists(a)
    BY StoreCodes DEF delete_code, F!Sizes!delete_code
  <1>2. CASE lookup(a) = None
    BY <1>1, <1>2 DEF read_file, F!read_file
  <1>3. CASE lookup(a) # None
    <2>1. PICK i \in Live : i = lookup(a)
      BY <1>3, LookupLive DEF Live
    <2>2. /\ i \in Index /\ dir[i].name = Kept[a] /\ Kept[a] # 0
          /\ dir[i].offset = file[i].offset /\ dir[i].length = file[i].length
          /\ file[i].offset \in Nat /\ file[i].length \in Nat \ {0}
          /\ file[i].offset + file[i].length <= FileDataLen
      BY <1>3, <2>1, LookupName, KeptNames, FilesAreLaidOut DEF FilesLaidOut, LaidOut, Fits, Live
    <2>3. ContentOf[Kept[a]] = read_bytes(data, file[i].offset, file[i].length)
      <3>1. IsStoreOf(ContentOf)
        BY ContentOfIsStore
      <3>2. ContentOf[dir[i].name] = BytesOf(i)
        BY <2>2, <3>1 DEF IsStoreOf
      <3> QED BY <2>2, <3>2 DEF BytesOf
    <2>4. Len(ContentOf[Kept[a]]) = file[i].length
      BY <2>2, <2>3 DEF read_bytes
    <2>5. CASE offset + count > file[i].length
      BY <1>1, <1>3, <2>1, <2>4, <2>5 DEF read_file, F!read_file
    <2>6. CASE ~ (offset + count > file[i].length)
      <3>1. F!read_file(a, offset, count) =
              [code |-> 0, bytes |-> SubSeq(ContentOf[Kept[a]], offset + 1, offset + count)]
        BY <1>1, <1>3, <2>4, <2>6 DEF F!read_file
      <3>2. SubSeq(ContentOf[Kept[a]], offset + 1, offset + count) =
              read_bytes(data, file[i].offset + offset, count)
        <4>1. PICK start \in Nat, length \in Nat : start = file[i].offset /\ length = file[i].length
          BY <2>2
        <4>2. offset + count <= length
          BY <2>6, <4>1
        <4>3. IsSlice(data, start, length, offset, count)
          BY <4>2, ReadIsSlice
        <4> QED BY <2>3, <4>1, <4>3 DEF IsSlice
      <3>3. CASE verify_hash_range(file[i].offset + offset, count)
        <4>1. read_file(a, offset, count) =
                [code |-> 0, bytes |-> read_bytes(data, file[i].offset + offset, count)]
          BY <1>3, <2>1, <2>6, <3>3 DEF read_file
        <4> QED BY <3>1, <3>2, <4>1
      <3>4. CASE ~ verify_hash_range(file[i].offset + offset, count)
        <4>1. read_file(a, offset, count).code = 3
          BY <1>3, <2>1, <2>6, <3>4 DEF read_file
        <4>2. PICK k \in Nat \ {0}, first \in Nat, last \in Nat :
                /\ k = BLOCK_LEN /\ first = file[i].offset
                /\ last = file[i].offset + file[i].length - 1
          <5>1. file[i].offset + file[i].length - 1 \in Nat
            BY <2>2
          <5> QED BY <2>2, <5>1, VfsAssumption
        <4>3. PICK from \in Nat, to \in Int :
                from = file[i].offset + offset /\ to = from + count - 1
          BY <2>2
        <4>4. PICK b \in from \div k .. to \div k : ~ Fresh(b) /\ count > 0
          BY <3>4, <4>2, <4>3 DEF verify_hash_range, Fresh
        <4>5. first <= from /\ to <= last /\ to \in Nat
          BY <2>2, <2>6, <4>2, <4>3, <4>4
        <4>6. /\ first \div k \in Nat /\ from \div k \in Nat
              /\ to \div k \in Nat /\ last \div k \in Nat
          BY <4>5, DivBounds
        <4>7. first \div k <= from \div k /\ to \div k <= last \div k
          BY <4>5, DivMonotonic
        <4>8. b \in first \div k .. last \div k
          BY <4>6, <4>7
        <4>9. b \in BlocksOf(file[i])
          BY <2>2, <4>2, <4>8 DEF BlocksOf
        <4> QED BY <2>1, <4>1, <4>4, <4>9 DEF Readable
      <3> QED BY <3>3, <3>4
    <2> QED BY <2>5, <2>6
  <1> QED BY <1>2, <1>3

(* No assertion fails: whenever a call takes a file out of an array, the
   array holds it (arr_remove in delete_file and resize_file_helper), and no
   count passed to write_null_byte reaches 2^32. *)
THEOREM NeverAborts ==
  ASSUME LengthFits, NoEmptyFiles, RenamesKeepOrder
  PROVE  Spec => []NoAssertionFails
  <1>1. LengthFits /\ NoEmptyFiles
    OBVIOUS
  <1>2. Spec => [](IInv /\ SizedInv /\ NamesInv)
    BY NamesInvariant
  <1>3. Spec => [](IInv /\ LayoutInv)
    BY LayoutInvariant
  <1>4. Init => NoAssertionFails
    BY DEF Init, NoAssertionFails
  <1>5. /\ IInv /\ SizedInv /\ NamesInv /\ LayoutInv /\ NoAssertionFails /\ [Next]_vars
        => NoAssertionFails'
    BY <1>1, StepLayout DEF NamesInv, NamesHeld, NoAssertionFails
  <1> QED BY <1>2, <1>3, <1>4, <1>5, PTL DEF Spec

(* read_file never returns wrong bytes: whatever was created, resized,
   written, moved, deleted and restarted before, it returns the code and the
   bytes of the table of contents, or refuses because a block of the file is
   stale. *)
THEOREM ReadsAlwaysRight ==
  ASSUME LengthFits, NoEmptyFiles, RenamesKeepOrder
  PROVE  Spec => []ReadsRight
  <1>1. LengthFits /\ NoEmptyFiles /\ RenamesKeepOrder
    OBVIOUS
  <1>2. IInv /\ SizedInv /\ NamesInv /\ LayoutInv => ReadsRight
    BY ReadRight
  <1> QED BY <1>1, <1>2, AllInvariants, PTL

(* When file_data is a single block, read_file never refuses either: every
   call that changes a byte rehashes the block that holds it. *)
THEOREM OneBlockReadsBack ==
  ASSUME OneBlock, HalfFits, NoEmptyFiles, RenamesKeepOrder
  PROVE  Spec => []ReadsBack
  <1>1. OneBlock /\ HalfFits /\ LengthFits /\ NoEmptyFiles /\ RenamesKeepOrder
    BY HalfIsLess
  <1>2. ReadsRight /\ AllFresh /\ IInv /\ LayoutInv => ReadsBack
    <2> SUFFICES ASSUME ReadsRight, AllFresh, IInv, LayoutInv, phase = "open", NEW a \in FileName,
                        NEW offset \in WriteOffsets, NEW count \in 0 .. FileDataLen
                 PROVE  read_file(a, offset, count) = F!read_file(a, offset, count)
      BY DEF ReadsBack
    <2>1. offset \in Nat /\ count \in Nat
      BY VfsAssumption
    <2>2. ASSUME NEW i \in Live, NEW b \in BlocksOf(file[i]) PROVE Fresh(b)
      <3>1. /\ file[i].offset \in Nat /\ file[i].length \in Nat \ {0}
            /\ file[i].offset + file[i].length <= FileDataLen
        BY FilesAreLaidOut DEF FilesLaidOut, LaidOut, Fits
      <3>2. PICK k \in Nat \ {0}, first \in Nat, last \in 0 .. FileDataLen - 1 :
              /\ k = BLOCK_LEN /\ first = file[i].offset
              /\ last = file[i].offset + file[i].length - 1
        <4>1. file[i].offset + file[i].length - 1 \in 0 .. FileDataLen - 1
          BY <3>1, LengthAssumption
        <4> QED BY <3>1, <4>1, VfsAssumption
      <3>3. b \in first \div k .. last \div k
        BY <3>1, <3>2 DEF BlocksOf
      <3>4. last \div k \in Block
        BY <3>2, LastBlock
      <3>5. first \div k \in Nat /\ FileDataLen \div k \in Nat
        BY LengthAssumption, DivBounds
      <3>6. b \in Block
        BY <3>2, <3>3, <3>4, <3>5 DEF Block
      <3> QED BY <3>6 DEF AllFresh
    <2>3. CASE lookup(a) = None
      BY <2>3, <2>1 DEF ReadsRight, read_file
    <2>4. CASE lookup(a) # None
      <3>1. lookup(a) \in Live
        BY <2>4, LookupLive DEF Live
      <3>2. Readable(lookup(a))
        BY <2>2, <3>1 DEF Readable
      <3> QED BY <2>1, <3>2 DEF ReadsRight
    <2> QED BY <2>3, <2>4
  <1>3. Spec => []ReadsRight
    BY <1>1, ReadsAlwaysRight
  <1>4. Spec => []AllFresh
    BY <1>1, OneBlockFresh
  <1>5. Spec => [](IInv /\ LayoutInv)
    BY <1>1, LayoutInvariant
  <1> QED BY <1>2, <1>3, <1>4, <1>5, PTL
=============================================================================
