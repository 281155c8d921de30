--------------------------- MODULE NvStoreProofs ---------------------------
(***************************************************************************)
(* Proofs about NvStore, for any settings, values, volume and number of    *)
(* failures, equal bytes and interrupted formats included: the store's     *)
(* types; that the write-back cache passes over nothing; that only lost    *)
(* bytes lead a store astray; and that in a store that is not astray the   *)
(* map is exact, a put is what the next get returns, and NvPromise is kept. *)
(***************************************************************************)
EXTENDS NvStore, TLAPS, FiniteSetTheorems, WellFoundedInduction

(* Entries of an image of the volume name data blocks only.                *)
Placed(image) == \A s \in Slot : Range(image[s].at) \subseteq Data

(* A pass of the service task that counts as clean has met no block that   *)
(* waits, and none has come to wait behind it since.                       *)
PassOK == cleanPass => \A b \in Block : b <= scan => b \notin dirty

(* What every step keeps of the device and its cache ...                   *)
ShimOK ==
  /\ DOMAIN chip = Block /\ DOMAIN cache = Block
  /\ Placed(chip) /\ Placed(cache)
  /\ dirty \subseteq Block /\ scan \in Block \cup {-1}
  /\ clean \in BOOLEAN /\ cleanPass \in BOOLEAN
  /\ PassOK /\ CleanAgrees

(* ... and of the rest.                                                    *)
StoreOK ==
  /\ used \subseteq Data /\ loaded \subseteq Key /\ faults \in 0..MaxFaults
  /\ on \in BOOLEAN /\ bound \in BOOLEAN /\ mapped \in BOOLEAN
  /\ astray \in BOOLEAN /\ cut \in BOOLEAN

IInv == ShimOK /\ StoreOK

(* The three kinds of blocks are apart from each other.                    *)
LEMMA Layout ==
  /\ Slot \subseteq Block /\ Data \subseteq Block /\ Slot \cap Data = {}
  /\ Names \in Block \ Slot /\ PartNames \in Block \ Slot
BY NvAssumption DEF NvAssumption, Slot, Data, Block, Names, PartNames

(* An entry that names no block.                                           *)
LEMMA Unplaced ==
  /\ Range(NoEntry.at) = {}
  /\ \A n : Range(TornEntry(n).at) = {}
BY DEF NoEntry, TornEntry, Range

(* The map made of an image's entries is a map of data blocks.             *)
LEMMA MapTyped ==
  ASSUME NEW image, Placed(image)
  PROVE  /\ \A s \in Slot : Blocks(image, s) \subseteq Data
         /\ MapOf(image) \subseteq Data
<1>1. \A s \in Slot : Blocks(image, s) \subseteq Data
  BY DEF Blocks, Placed
<1> QED BY <1>1 DEF MapOf

(* A write to the cache of blocks of the volume keeps what the shim keeps, *)
(* if the entries written name data blocks only.                           *)
LEMMA WriteKeeps ==
  ASSUME ShimOK, NEW w, DOMAIN w \subseteq Block, Write(w),
         \A s \in Slot \cap DOMAIN w : Range(w[s].at) \subseteq Data
  PROVE  ShimOK'
<1>1. \A b \in Block : cache'[b] = IF b \in DOMAIN w THEN w[b] ELSE cache[b]
  BY DEF Write
<1>2. Placed(cache)'
  BY <1>1, Layout DEF Placed, ShimOK
<1>3. \A b \in Block \ dirty' : chip'[b] = cache'[b]
  BY <1>1 DEF Write, ShimOK, CleanAgrees
<1> QED BY <1>2, <1>3 DEF ShimOK, Write, PassOK, CleanAgrees, Placed

(* A start from an image of the volume that the device may hold.           *)
LEMMA LoseKeeps ==
  ASSUME NEW image, DOMAIN image = Block, Placed(image), Lose(image)
  PROVE  ShimOK' /\ used' = {} /\ loaded' = {} /\ on' = FALSE /\ bound' = FALSE /\ mapped' = FALSE
BY DEF Lose, ShimOK, Placed, PassOK, CleanAgrees

(* A round of the service task's scan.                                     *)
LEMMA PollKeeps == ASSUME ShimOK, Poll PROVE ShimOK'
<1> DEFINE wrapped == scan + 1 \notin Block
           b == IF wrapped THEN 0 ELSE scan + 1
<1>1. /\ scan' = b /\ dirty' = dirty \ {b} /\ cache' = cache
      /\ clean' = (wrapped /\ cleanPass)
      /\ cleanPass' = ((wrapped \/ cleanPass) /\ b \notin dirty)
      /\ chip' = IF b \in dirty THEN [chip EXCEPT ![b] = cache[b]] ELSE chip
  BY DEF Poll
<1>2. scan \in Int /\ Block = 0 .. SlotCount + DataCount + 1 /\ SlotCount + DataCount + 1 \in Nat
  BY NvAssumption DEF ShimOK, Block, NvAssumption
<1>3. b \in Block
  BY <1>2
<1>4. wrapped => \A c \in Block : c <= scan
  BY <1>2 DEF ShimOK
<1>5. clean' => dirty' = {}
  BY <1>1, <1>4 DEF ShimOK, PassOK
<1>6. DOMAIN chip' = Block /\ \A c \in Block : chip'[c] = IF c = b /\ b \in dirty THEN cache[b] ELSE chip[c]
  BY <1>1 DEF ShimOK
<1>7. \A c \in Block \ dirty' : chip'[c] = cache'[c]
  BY <1>1, <1>6 DEF ShimOK, CleanAgrees
<1>8. PassOK'
  <2> SUFFICES ASSUME cleanPass', NEW c \in Block, c <= scan' PROVE c \notin dirty'
    BY DEF PassOK
  <2>1. CASE wrapped
    BY <2>1, <1>1, <1>2
  <2>2. CASE ~wrapped
    BY <2>2, <1>1, <1>2 DEF ShimOK, PassOK
  <2> QED BY <2>1, <2>2
<1>9. Placed(chip)' /\ Placed(cache)'
  BY <1>1, <1>6, Layout DEF Placed, ShimOK
<1>10. clean' \in BOOLEAN /\ cleanPass' \in BOOLEAN
  BY <1>1, Zenon
<1> QED BY <1>1, <1>3, <1>5, <1>6, <1>7, <1>8, <1>9, <1>10 DEF ShimOK, CleanAgrees

(* A put.                                                                  *)
LEMMA StoreKeeps ==
  ASSUME IInv, NEW k \in Key, NEW v, Store(k, v)
  PROVE  ShimOK' /\ used' \subseteq Data /\ mapped' \in BOOLEAN
<1> DEFINE kept(s) == used \ Blocks(cache, s)
           placed(s) == Placements(Data \ kept(s), Cardinality(DOMAIN v.body))
           written(s, at) == [b \in {s} \cup Range(at) |->
                                IF b = s THEN Entry(k, at, v)
                                ELSE v.body[CHOOSE i \in DOMAIN at : at[i] = b]]
<1>1. CASE UNCHANGED <<shimVars, used, mapped>>
  BY <1>1 DEF IInv, ShimOK, StoreOK, shimVars, Placed, PassOK, CleanAgrees
<1>2. ASSUME NEW s \in SlotFor(k),
             used' = kept(s), mapped' = ~Valid(cache, s), UNCHANGED shimVars
      PROVE  ShimOK' /\ used' \subseteq Data /\ mapped' \in BOOLEAN
  <2>1. mapped' \in BOOLEAN
    BY <1>2, Zenon
  <2> QED BY <1>2, <2>1 DEF IInv, ShimOK, StoreOK, shimVars, Placed, PassOK, CleanAgrees
<1>3. ASSUME NEW s \in SlotFor(k), NEW at \in placed(s),
             used' = kept(s) \cup Range(at), Write(written(s, at)), UNCHANGED mapped
      PROVE  ShimOK' /\ used' \subseteq Data /\ mapped' \in BOOLEAN
  <2>1. s \in Slot
    BY DEF SlotFor, Lowest, Live, Matches
  <2>2. Range(at) \subseteq Data
    BY DEF Placements, Range
  <2> DEFINE w == written(s, at)
  <2>3. DOMAIN w \subseteq Block
    BY <2>1, <2>2, Layout
  <2>4. \A t \in Slot \cap DOMAIN w : Range(w[t].at) \subseteq Data
    BY <2>1, <2>2, Layout DEF Entry
  <2>5. ShimOK'
    <3>1. Write(w)
      BY <1>3
    <3> HIDE DEF w
    <3> QED BY <3>1, <2>3, <2>4, WriteKeeps DEF IInv
  <2> QED BY <1>3, <2>2, <2>5 DEF IInv, StoreOK
<1>4. CASE ~UNCHANGED <<shimVars, used, mapped>>
  <2>1. PICK s \in SlotFor(k) :
          IF placed(s) = {}
          THEN used' = kept(s) /\ mapped' = ~Valid(cache, s) /\ UNCHANGED shimVars
          ELSE \E at \in placed(s) :
                 used' = kept(s) \cup Range(at) /\ Write(written(s, at)) /\ UNCHANGED mapped
    BY <1>4, Zenon DEF Store
  <2> HIDE DEF kept, placed, written
  <2>2. CASE placed(s) = {}
    BY <1>2, <2>1, <2>2, Zenon
  <2>3. CASE placed(s) # {}
    BY <1>3, <2>1, <2>3, Zenon
  <2> QED BY <2>2, <2>3
<1> QED BY <1>1, <1>4

(* The invariant holds to begin with.                                      *)
LEMMA IInvInit == Init => IInv
<1> SUFFICES ASSUME Init PROVE IInv
  OBVIOUS
<1>1. \A s \in Slot : chip[s] = NoEntry
  BY Layout DEF Init, Formatted
<1>2. DOMAIN chip = Block /\ cache = chip /\ Placed(chip)
  BY <1>1, Unplaced DEF Init, Formatted, Placed
<1>3. ShimOK
  <2>1. PassOK /\ CleanAgrees
    BY <1>2, Zenon DEF Init, PassOK, CleanAgrees
  <2>2. Placed(cache) /\ DOMAIN cache = Block
    BY <1>2, Zenon
  <2>3. dirty \subseteq Block /\ scan \in Block \cup {-1}
    BY DEF Init
  <2>4. clean \in BOOLEAN /\ cleanPass \in BOOLEAN
    BY Zenon DEF Init
  <2> QED BY <1>2, <2>1, <2>2, <2>3, <2>4, Zenon DEF ShimOK
<1>4. StoreOK
  <2>1. /\ on \in BOOLEAN /\ bound \in BOOLEAN /\ mapped \in BOOLEAN
        /\ astray \in BOOLEAN /\ cut \in BOOLEAN
    BY Zenon DEF Init
  <2>2. used \subseteq Data /\ loaded \subseteq Key /\ faults \in 0..MaxFaults
    BY NvAssumption DEF Init, NvAssumption
  <2> QED BY <2>1, <2>2, Zenon DEF StoreOK
<1> QED BY <1>3, <1>4 DEF IInv

(* Every step keeps it.                                                   *)
LEMMA IInvNext == IInv /\ [Next]_vars => IInv'
<1> SUFFICES ASSUME IInv, [Next]_vars PROVE IInv'
  OBVIOUS
<1> USE DEF IInv
<1>0. astray' \in BOOLEAN /\ cut' \in BOOLEAN
  <2>1. CASE Watched
    BY <2>1, Zenon DEF Watched
  <2>2. CASE UNCHANGED vars
    BY <2>2 DEF vars, StoreOK
  <2> QED BY <2>1, <2>2 DEF Next
<1> USE <1>0
<1>1. CASE Boot
  <2>1. on' \in BOOLEAN /\ mapped' \in BOOLEAN /\ bound' \in BOOLEAN
    <3>1. bound' \in BOOLEAN
      BY <1>1, Zenon DEF Boot
    <3> QED BY <1>1, <3>1 DEF Boot
  <2>2. used' \subseteq Data
    BY <1>1, MapTyped DEF Boot, ShimOK
  <2>3. ShimOK'
    <3>1. CASE UNCHANGED shimVars
      BY <3>1 DEF ShimOK, shimVars, Placed, PassOK, CleanAgrees
    <3>2. CASE Write(Formatted)
      <4>1. DOMAIN Formatted = Block /\ \A s \in Slot : Formatted[s] = NoEntry
        BY Layout DEF Formatted
      <4> QED BY <3>2, <4>1, Unplaced, WriteKeeps
    <3> QED BY <1>1, <3>1, <3>2 DEF Boot
  <2> QED BY <1>1, <2>1, <2>2, <2>3 DEF Boot, StoreOK
<1>2. CASE Poll
  BY <1>2, PollKeeps DEF Poll, StoreOK
<1>3. CASE Erase
  <2> DEFINE w == [b \in {Names} |-> IF cache[b] = "good" THEN "bad" ELSE "good"]
  <2>1. DOMAIN w \subseteq Block /\ Slot \cap DOMAIN w = {}
    BY Layout
  <2>2. Write(w) /\ UNCHANGED <<on, bound, used, mapped, loaded>>
    BY <1>3 DEF Erase
  <2>3. ShimOK'
    <3> HIDE DEF w
    <3> QED BY <2>1, <2>2, WriteKeeps
  <2>4. faults' \in 0..MaxFaults
    BY <1>3, NvAssumption DEF Erase, Fault, StoreOK, NvAssumption
  <2> QED BY <2>2, <2>3, <2>4 DEF StoreOK
<1>4. CASE Reset
  <2>1. faults' \in 0..MaxFaults
    BY <1>4, NvAssumption DEF Reset, Fault, StoreOK, NvAssumption
  <2> QED BY <1>4, <2>1, LoseKeeps DEF Reset, ShimOK, StoreOK
<1>5. CASE PowerFail
  <2>1. faults' \in 0..MaxFaults
    BY <1>5, NvAssumption DEF PowerFail, Fault, StoreOK, NvAssumption
  <2>2. PICK b \in dirty : \E x \in Tears(b) : Lose([chip EXCEPT ![b] = x])
    BY <1>5 DEF PowerFail
  <2>3. PICK x \in Tears(b) : Lose([chip EXCEPT ![b] = x])
    BY <2>2
  <2> DEFINE image == [chip EXCEPT ![b] = x]
  <2>4. DOMAIN image = Block
    BY DEF ShimOK
  <2>5. ASSUME NEW s \in Slot PROVE Range(image[s].at) \subseteq Data
    <3>1. CASE s = b
      BY <3>1, Unplaced, Layout DEF Tears, ShimOK
    <3>2. CASE s # b
      BY <3>2 DEF ShimOK, Placed
    <3> QED BY <3>1, <3>2
  <2>6. Placed(image)
    BY <2>5 DEF Placed
  <2> HIDE DEF image
  <2>7. Lose(image)
    BY <2>3 DEF image
  <2> QED BY <2>1, <2>4, <2>6, <2>7, LoseKeeps DEF StoreOK
<1>6. ASSUME NEW k \in Key, Load(k) PROVE IInv'
  <2>1. ShimOK' /\ used' \subseteq Data /\ mapped' \in BOOLEAN
    <3>1. CASE Store(k, Default[k])
      BY <3>1, StoreKeeps
    <3>2. CASE UNCHANGED <<shimVars, used, mapped>>
      BY <3>2 DEF ShimOK, StoreOK, shimVars, Placed, PassOK, CleanAgrees
    <3> QED BY <1>6, <3>1, <3>2 DEF Load
  <2> QED BY <1>6, <2>1 DEF Load, StoreOK
<1>7. ASSUME NEW k \in Key, NEW v \in Value[k], Save(k, v) PROVE IInv'
  <2>1. ShimOK' /\ used' \subseteq Data /\ mapped' \in BOOLEAN
    BY <1>7, StoreKeeps DEF Save
  <2> QED BY <1>7, <2>1 DEF Save, StoreOK
<1>8. CASE UNCHANGED vars
  BY <1>8 DEF vars, ShimOK, StoreOK, Placed, PassOK, CleanAgrees
<1> QED BY <1>1, <1>2, <1>3, <1>4, <1>5, <1>6, <1>7, <1>8 DEF Next, Step

(* In every state of the store the invariant holds.                        *)
THEOREM Invariance == Spec => []IInv
BY IInvInit, IInvNext, PTL DEF Spec

(* The map of the data blocks, and every entry of the table of names, name *)
(* data blocks only.                                                       *)
THEOREM StoreTyped == Spec => []TypeOK
<1>1. IInv => TypeOK
  BY Zenon DEF IInv, ShimOK, StoreOK, TypeOK, Placed
<1> QED BY <1>1, Invariance, PTL

(* No byte put while the service task goes round is passed over: it sleeps *)
(* only when none waits, and a block that does not wait is on the device.  *)
THEOREM NothingPassedOver == Spec => []CleanAgrees
<1>1. IInv => CleanAgrees
  BY DEF IInv, ShimOK
<1> QED BY <1>1, Invariance, PTL

-----------------------------------------------------------------------------
(* The map, the puts and the promise, in a store that is not astray.       *)

(* An entry that was written whole is for a value that was put.            *)
Fit(image) ==
  \A s \in Slot : image[s].name \in Key /\ image[s].val # None =>
    /\ image[s].val \in Value[image[s].name]
    /\ DOMAIN image[s].at = DOMAIN image[s].val.body

Taken(image) == UNION {Blocks(image, s) : s \in Slot}

Sound ==
  /\ Fit(chip) /\ Fit(cache)
  /\ ~astray => ~Clash(cache)
  /\ bound /\ mapped /\ ~astray => used = Taken(cache)

(* A put that is carried out: in slot s, with the blocks at.               *)
Written(k, v, s, at) ==
  [b \in {s} \cup Range(at) |->
     IF b = s THEN Entry(k, at, v)
     ELSE v.body[CHOOSE i \in DOMAIN at : at[i] = b]]

CarriedOut(k, v, s, at) ==
  /\ bound /\ mapped /\ s \in SlotFor(k)
  /\ at \in Placements(Data \ (used \ Blocks(cache, s)), Cardinality(DOMAIN v.body))
  /\ used' = (used \ Blocks(cache, s)) \cup Range(at)
  /\ Write(Written(k, v, s, at))
  /\ UNCHANGED mapped

(* A put that finds no room.                                               *)
NoRoom(s) ==
  used' = used \ Blocks(cache, s) /\ mapped' = ~Valid(cache, s) /\ UNCHANGED shimVars

(* What a put comes to.                                                    *)
LEMMA StoreOutcomes ==
  ASSUME NEW k, NEW v, Store(k, v)
  PROVE  \/ UNCHANGED <<shimVars, used, mapped>>
         \/ \E s \in SlotFor(k) : NoRoom(s)
         \/ \E s \in SlotFor(k) :
              \E at \in Placements(Data \ (used \ Blocks(cache, s)), Cardinality(DOMAIN v.body)) :
                CarriedOut(k, v, s, at)
<1>1. CASE ~(bound /\ mapped) \/ SlotFor(k) = {}
  BY <1>1, Zenon DEF Store
<1>2. CASE bound /\ mapped
  <2>1. \/ UNCHANGED <<shimVars, used, mapped>>
        \/ \E s \in SlotFor(k) :
             IF Placements(Data \ (used \ Blocks(cache, s)), Cardinality(DOMAIN v.body)) = {}
             THEN NoRoom(s)
             ELSE \E at \in Placements(Data \ (used \ Blocks(cache, s)), Cardinality(DOMAIN v.body)) :
                    /\ used' = (used \ Blocks(cache, s)) \cup Range(at)
                    /\ Write(Written(k, v, s, at))
                    /\ UNCHANGED mapped
    BY Zenon DEF Store, NoRoom, Written
  <2> QED BY <1>2, <2>1, Zenon DEF CarriedOut
<1> QED BY <1>1, <1>2

(* The blocks a put takes are free ones, each taken once.                  *)
LEMMA PlacedFree ==
  ASSUME NEW F \in SUBSET Data, NEW n \in Nat, NEW at \in Placements(F, n)
  PROVE  /\ DOMAIN at = 1..n /\ Range(at) \subseteq F
         /\ \A i \in 1..n : at[i] \in F
         /\ \A i, j \in 1..n : at[i] = at[j] => i = j
<1>1. at \in [1..n -> F] /\ \A i, j \in 1..n : i < j => at[i] > at[j]
  BY DEF Placements
<1>2. Data \subseteq Int
  BY NvAssumption DEF Data, NvAssumption
<1>3. ASSUME NEW i \in 1..n, NEW j \in 1..n, at[i] = at[j] PROVE i = j
  <2>1. i \in Int /\ j \in Int /\ at[i] \in F /\ at[j] \in F
    BY <1>1
  <2>2. at[i] \in Int /\ at[j] \in Int
    BY <1>2, <2>1
  <2>3. ~(i < j) /\ ~(j < i)
    BY <1>1, <1>3, <2>2
  <2> QED BY <2>1, <2>3
<1> QED BY <1>1, <1>3 DEF Range

(* The blocks of a value are numbered from one.                            *)
LEMMA Numbered ==
  ASSUME NEW k \in Key, NEW v \in Value[k]
  PROVE  /\ v = [head |-> v.head, body |-> v.body]
         /\ Cardinality(DOMAIN v.body) \in Nat
         /\ DOMAIN v.body = 1 .. Cardinality(DOMAIN v.body)
         /\ v.body = [i \in DOMAIN v.body |-> v.body[i]]
<1> DEFINE n == Cardinality(DOMAIN v.body)
           body == v.body
<1>1. /\ v = [head |-> v.head, body |-> v.body]
      /\ n \in Nat /\ body = [i \in 1..n |-> body[i]]
  BY ValueAssumption DEF ValueAssumption
<1>2. DOMAIN body = 1..n
  <2> HIDE DEF n, body
  <2>1. DOMAIN [i \in 1..n |-> body[i]] = 1..n
    OBVIOUS
  <2> QED BY <1>1, <2>1, Zenon
<1>3. body = [i \in DOMAIN body |-> body[i]]
  <2> HIDE DEF n, body
  <2> QED BY <1>1, <1>2, Zenon
<1> QED BY <1>1, <1>2, <1>3, Zenon

(* What a put writes reads as what was put.                                *)
LEMMA PutWrites ==
  ASSUME IInv, NEW k \in Key, NEW v \in Value[k], NEW s, NEW at, CarriedOut(k, v, s, at)
  PROVE  /\ s \in Slot /\ Range(at) \subseteq Data \ (used \ Blocks(cache, s))
         /\ DOMAIN at = DOMAIN v.body
         /\ cache'[s] = Entry(k, at, v)
         /\ \A b \in Block \ ({s} \cup Range(at)) : cache'[b] = cache[b] /\ (b \in dirty' => b \in dirty)
         /\ chip' = chip
         /\ Valid(cache', s)
<1> DEFINE w == Written(k, v, s, at)
           n == Cardinality(DOMAIN v.body)
<1>1. s \in Slot
  BY DEF CarriedOut, SlotFor, Lowest, Live, Matches
<1>2. n \in Nat /\ DOMAIN v.body = 1..n
  BY Numbered, Zenon
<1>3. /\ DOMAIN at = 1..n /\ Range(at) \subseteq Data \ (used \ Blocks(cache, s))
      /\ \A i \in 1..n : at[i] \in Data
      /\ \A i, j \in 1..n : at[i] = at[j] => i = j
  <2> DEFINE F == Data \ (used \ Blocks(cache, s))
  <2>1. at \in Placements(F, n)
    BY Zenon DEF CarriedOut
  <2>2. F \in SUBSET Data
    OBVIOUS
  <2> HIDE DEF n, F
  <2>3. /\ DOMAIN at = 1..n /\ Range(at) \subseteq F
        /\ \A i \in 1..n : at[i] \in F
        /\ \A i, j \in 1..n : at[i] = at[j] => i = j
    BY <1>2, <2>1, <2>2, PlacedFree
  <2> QED BY <2>2, <2>3 DEF F
<1>4. /\ \A b \in Block : cache'[b] = IF b \in {s} \cup Range(at) THEN w[b] ELSE cache[b]
      /\ dirty' = dirty \cup {b \in {s} \cup Range(at) : w[b] # cache[b]}
      /\ chip' = chip
  BY DEF CarriedOut, Write, Written
<1>5. w[s] = Entry(k, at, v) /\ s \in Block
  BY <1>1, Layout DEF Written
<1>6. ASSUME NEW b \in Range(at)
      PROVE  b \in Block /\ b # s /\ w[b] = v.body[CHOOSE i \in DOMAIN at : at[i] = b]
  BY <1>1, <1>3, Layout DEF Written
<1>7. ASSUME NEW i \in 1..n PROVE cache'[at[i]] = v.body[i]
  <2>1. at[i] \in Range(at)
    BY <1>3 DEF Range
  <2>2. (CHOOSE j \in DOMAIN at : at[j] = at[i]) = i
    BY <1>3
  <2> QED BY <1>4, <1>6, <2>1, <2>2
<1>8. Valid(cache', s)
  <2>1. cache'[s] = Entry(k, at, v) /\ v # None
    BY <1>4, <1>5, NvAssumption DEF NvAssumption
  <2> HIDE DEF w, n
  <2> QED BY <1>3, <1>7, <2>1 DEF Valid, Entry
<1> HIDE DEF w, n
<1>10. \A b \in Block \ ({s} \cup Range(at)) : cache'[b] = cache[b] /\ (b \in dirty' => b \in dirty)
  BY <1>4
<1> QED BY <1>1, <1>2, <1>3, <1>4, <1>5, <1>8, <1>10

(* Two images that hold the same entries and data read the same.           *)
LEMMA SameImage ==
  ASSUME NEW old, NEW new, Placed(old), \A b \in Slot \cup Data : new[b] = old[b]
  PROVE  /\ \A s \in Slot : /\ Valid(new, s) <=> Valid(old, s)
                           /\ Blocks(new, s) = Blocks(old, s)
         /\ Clash(new) <=> Clash(old)
         /\ Taken(new) = Taken(old)
         /\ \A k : Live(new, k) = Live(old, k) /\ Matches(new, k) = Matches(old, k)
<1>1. ASSUME NEW s \in Slot
      PROVE  (Valid(new, s) <=> Valid(old, s)) /\ Blocks(new, s) = Blocks(old, s)
  <2>1. new[s] = old[s] /\ \A i \in DOMAIN old[s].at : old[s].at[i] \in Data
    BY DEF Placed, Range
  <2>2. Valid(new, s) <=> Valid(old, s)
    BY <2>1 DEF Valid
  <2> QED BY <2>1, <2>2 DEF Blocks
<1>2. Clash(new) <=> Clash(old)
  BY <1>1 DEF Clash
<1>3. Taken(new) = Taken(old)
  BY <1>1 DEF Taken
<1>4. \A k : Live(new, k) = Live(old, k) /\ Matches(new, k) = Matches(old, k)
  BY <1>1 DEF Live, Matches
<1> QED BY <1>1, <1>2, <1>3, <1>4

(* A put touches the entry of no other setting, nor the blocks of one that *)
(* can be read, and makes none readable that was not: or else it leads the *)
(* store astray.                                                           *)
LEMMA PutSpares ==
  ASSUME IInv, NEW k \in Key, NEW v \in Value[k], NEW s, NEW at,
         CarriedOut(k, v, s, at), used = Taken(cache), ~Clash(cache), ~Clash(cache'),
         NEW t \in Slot, t # s
  PROVE  /\ cache'[t] = cache[t]
         /\ Valid(cache', t) <=> Valid(cache, t)
         /\ Valid(cache, t) =>
              /\ cache[t].name # k
              /\ \A b \in Range(cache[t].at) : b \in Block \ ({s} \cup Range(at))
<1> DEFINE e == cache[t]
<1>1. /\ s \in Slot /\ cache'[s] = Entry(k, at, v) /\ Valid(cache', s)
      /\ Range(at) \subseteq Data \ (used \ Blocks(cache, s))
      /\ \A b \in Block \ ({s} \cup Range(at)) : cache'[b] = cache[b]
  BY PutWrites
<1>2. cache'[t] = e
  <2>1. t \in Block /\ t \notin Range(at)
    BY <1>1, Layout
  <2> QED BY <1>1, <2>1
<1>3. ASSUME Valid(cache, t), NEW b \in Range(e.at) PROVE b \in Block \ ({s} \cup Range(at))
  <2>1. b \in Blocks(cache, t) /\ b \in used
    BY <1>3 DEF Blocks, Taken
  <2>2. b \in Data /\ b # s
    BY <1>1, Layout DEF IInv, ShimOK, Placed
  <2>3. b \notin Blocks(cache, s)
    <3> SUFFICES ASSUME b \in Blocks(cache, s) PROVE FALSE
      OBVIOUS
    <3>1. Valid(cache, s)
      BY DEF Blocks
    <3> QED BY <1>1, <1>3, <2>1, <3>1 DEF Clash
  <2>4. b \notin Range(at)
    BY <1>1, <2>1, <2>3
  <2> QED BY <2>2, <2>4, Layout
<1>4. ASSUME Valid(cache, t) PROVE Valid(cache', t)
  <2>1. \A i \in DOMAIN e.at : e.at[i] \in Block \ ({s} \cup Range(at))
    BY <1>3, <1>4 DEF Range
  <2>2. \A i \in DOMAIN e.at : cache'[e.at[i]] = cache[e.at[i]]
    BY <1>1, <2>1
  <2> QED BY <1>2, <1>4, <2>2 DEF Valid
<1>5. ASSUME Valid(cache', t) PROVE Valid(cache, t) /\ e.name # k
  <2>1. Blocks(cache', t) = Range(e.at) /\ Blocks(cache', s) = Range(at)
    BY <1>1, <1>2, <1>5 DEF Blocks, Entry
  <2>2. Range(e.at) \cap Range(at) = {} /\ e.name # k
    BY <1>1, <1>2, <1>5, <2>1 DEF Clash, Entry
  <2>3. ASSUME NEW i \in DOMAIN e.at PROVE cache'[e.at[i]] = cache[e.at[i]]
    <3>1. e.at[i] \in Range(e.at) /\ Range(e.at) \subseteq Data
      BY DEF IInv, ShimOK, Placed, Range
    <3> QED BY <1>1, <2>2, <3>1, Layout
  <2> QED BY <1>2, <1>5, <2>2, <2>3 DEF Valid
<1> QED BY <1>2, <1>3, <1>4, <1>5

(* A put keeps entries whole.                                              *)
LEMMA StoreFit ==
  ASSUME IInv, Fit(chip), Fit(cache), NEW k \in Key, NEW v \in Value[k], Store(k, v)
  PROVE  Fit(chip)' /\ Fit(cache)'
<1>1. CASE UNCHANGED shimVars
  BY <1>1 DEF Fit, shimVars
<1>2. ASSUME NEW s, NEW at, CarriedOut(k, v, s, at) PROVE Fit(chip)' /\ Fit(cache)'
  <2>1. /\ s \in Slot /\ Range(at) \subseteq Data
        /\ DOMAIN at = DOMAIN v.body
        /\ cache'[s] = Entry(k, at, v) /\ chip' = chip
        /\ \A b \in Block \ ({s} \cup Range(at)) : cache'[b] = cache[b]
    BY <1>2, PutWrites
  <2>2. \A t \in Slot \ {s} : cache'[t] = cache[t]
    BY <2>1, Layout
  <2> QED BY <2>1, <2>2 DEF Fit, Entry
<1> QED BY <1>1, <1>2, StoreOutcomes DEF NoRoom

(* A put keeps the map exact, if it does not lead the store astray.        *)
LEMMA StoreExact ==
  ASSUME IInv, NEW k \in Key, NEW v \in Value[k], Store(k, v), UNCHANGED bound,
         bound' /\ mapped' => bound /\ mapped /\ used = Taken(cache),
         ~Clash(cache), ~Clash(cache')
  PROVE  bound' /\ mapped' => used' = Taken(cache')
<1> SUFFICES ASSUME bound', mapped' PROVE used' = Taken(cache')
  OBVIOUS
<1>0. used = Taken(cache)
  OBVIOUS
<1>1. CASE UNCHANGED <<shimVars, used, mapped>>
  BY <1>0, <1>1 DEF shimVars
<1>2. ASSUME NEW s \in SlotFor(k), NoRoom(s) PROVE used' = Taken(cache')
  <2>1. cache' = cache /\ used' = used \ Blocks(cache, s)
    BY <1>2 DEF NoRoom, shimVars
  <2>2. ~Valid(cache, s)
    BY <1>2, Zenon DEF NoRoom
  <2> QED BY <1>0, <2>1, <2>2 DEF Blocks
<1>3. ASSUME NEW s, NEW at, CarriedOut(k, v, s, at) PROVE used' = Taken(cache')
  <2>1. /\ s \in Slot /\ cache'[s] = Entry(k, at, v) /\ Valid(cache', s)
        /\ used' = (used \ Blocks(cache, s)) \cup Range(at)
    BY <1>3, PutWrites DEF CarriedOut
  <2>2. Blocks(cache', s) = Range(at)
    BY <2>1 DEF Blocks, Entry
  <2>3. ASSUME NEW t \in Slot, t # s
        PROVE  Blocks(cache', t) = Blocks(cache, t) /\ Blocks(cache, t) \cap Blocks(cache, s) = {}
    <3>1. Blocks(cache', t) = Blocks(cache, t)
      BY <1>0, <1>3, <2>3, PutSpares DEF Blocks
    <3>2. Blocks(cache, t) \cap Blocks(cache, s) = {}
      BY <2>1, <2>3 DEF Clash, Blocks
    <3> QED BY <3>1, <3>2
  <2>4. ASSUME NEW b \in used' PROVE b \in Taken(cache')
    <3>1. CASE b \in Range(at)
      BY <2>1, <2>2, <3>1 DEF Taken
    <3>2. CASE b \in used \ Blocks(cache, s)
      <4>1. PICK t \in Slot : b \in Blocks(cache, t)
        BY <1>0, <3>2 DEF Taken
      <4> QED BY <2>3, <3>2, <4>1 DEF Taken
    <3> QED BY <2>1, <3>1, <3>2
  <2>5. ASSUME NEW b \in Taken(cache') PROVE b \in used'
    <3>1. PICK t \in Slot : b \in Blocks(cache', t)
      BY DEF Taken
    <3>2. CASE t = s
      BY <2>1, <2>2, <3>1, <3>2
    <3>3. CASE t # s
      <4>1. b \in Blocks(cache, t) /\ b \notin Blocks(cache, s)
        BY <2>3, <3>1, <3>3
      <4>2. b \in used
        BY <1>0, <4>1 DEF Taken
      <4> QED BY <2>1, <4>1, <4>2
    <3> QED BY <3>2, <3>3
  <2> QED BY <2>4, <2>5
<1>4. CASE \E s \in SlotFor(k) : NoRoom(s)
  BY <1>2, <1>4
<1>5. CASE \E s \in SlotFor(k) :
             \E at \in Placements(Data \ (used \ Blocks(cache, s)), Cardinality(DOMAIN v.body)) :
               CarriedOut(k, v, s, at)
  BY <1>3, <1>5
<1> QED BY <1>1, <1>4, <1>5, StoreOutcomes

(* What the device holds after a power failure is as whole as before.      *)
LEMMA TornFit ==
  ASSUME IInv, Fit(chip), NEW b \in Block, NEW x \in Tears(b)
  PROVE  Fit([chip EXCEPT ![b] = x])
<1> DEFINE image == [chip EXCEPT ![b] = x]
<1>1. ASSUME NEW s \in Slot, image[s].val # None PROVE image[s] = chip[s]
  <2>1. s \in Block /\ DOMAIN chip = Block
    BY Layout DEF IInv, ShimOK
  <2>2. CASE s = b
    BY <1>1, <2>1, <2>2 DEF Tears, TornEntry, NoEntry
  <2> QED BY <2>1, <2>2
<1> HIDE DEF image
<1>2. Fit(image)
  BY <1>1 DEF Fit
<1> QED BY <1>2 DEF image

(* An empty table.                                                         *)
LEMMA EmptySound ==
  ASSUME NEW image, \A s \in Slot : image[s] = NoEntry
  PROVE  /\ Fit(image) /\ ~Clash(image) /\ Taken(image) = {}
         /\ \A s \in Slot : ~Valid(image, s)
<1>1. Fit(image) /\ \A s \in Slot : ~Valid(image, s)
  BY NvAssumption DEF Fit, Valid, NoEntry, NvAssumption
<1> QED BY <1>1 DEF Clash, Taken, Blocks

(* What a format writes.                                                   *)
LEMMA FormatWrites ==
  ASSUME Write(Formatted)
  PROVE  chip' = chip /\ \A s \in Slot : cache'[s] = NoEntry
BY Layout DEF Write, Formatted

(* A request to format touches no entry and no data.                       *)
LEMMA EraseSpares ==
  ASSUME Erase
  PROVE  /\ UNCHANGED <<on, bound, used, mapped>> /\ chip' = chip
         /\ dirty' \subseteq dirty \cup {Names} /\ Names \notin Slot \cup Data
         /\ \A b \in Slot \cup Data : cache'[b] = cache[b]
<1>1. /\ UNCHANGED <<on, bound, used, mapped>> /\ chip' = chip
      /\ dirty' \subseteq dirty \cup {Names}
      /\ \A b \in Block \ {Names} : cache'[b] = cache[b]
  BY DEF Erase, Write
<1> QED BY <1>1, NvAssumption DEF Slot, Data, Block, Names, NvAssumption

(* What a failure leaves is what was on the device, but for a torn block.  *)
LEMMA PowerLeaves ==
  ASSUME IInv, PowerFail
  PROVE  \E image : /\ Lose(image) /\ dirty # {} /\ on
                    /\ Fit(chip) => Fit(image)
                    /\ \A b \in Block \ dirty : image[b] = cache[b]
<1>1. PICK b \in dirty : \E x \in Tears(b) : Lose([chip EXCEPT ![b] = x])
  BY DEF PowerFail
<1>2. PICK x \in Tears(b) : Lose([chip EXCEPT ![b] = x])
  BY <1>1
<1> DEFINE image == [chip EXCEPT ![b] = x]
<1>3. b \in Block
  BY DEF IInv, ShimOK
<1>4. Fit(chip) => Fit(image)
  BY <1>3, TornFit
<1>5. \A c \in Block \ dirty : image[c] = cache[c]
  BY DEF IInv, ShimOK, CleanAgrees
<1>6. Lose(image) /\ on
  BY <1>2 DEF PowerFail
<1> HIDE DEF image
<1> QED BY <1>4, <1>5, <1>6

(* A reset leaves what was on the device.                                  *)
LEMMA ResetLeaves ==
  ASSUME IInv, Reset
  PROVE  /\ Lose(chip) /\ on
         /\ \A b \in Block \ dirty : chip[b] = cache[b]
BY DEF Reset, IInv, ShimOK, CleanAgrees

LEMMA SoundInit == Init => Sound
<1> SUFFICES ASSUME Init PROVE Sound
  OBVIOUS
<1>1. cache = chip /\ ~bound /\ \A s \in Slot : chip[s] = NoEntry
  BY Layout DEF Init, Formatted
<1> QED BY <1>1, EmptySound DEF Sound

(* A start makes the map again.                                            *)
LEMMA BootSound ==
  ASSUME Sound, Boot
  PROVE  Fit(chip)' /\ Fit(cache)' /\ (bound' /\ mapped' => used' = Taken(cache'))
<1>1. CASE cache[Names] = "good"
  <2>1. chip' = chip /\ cache' = cache /\ (bound' => used' = MapOf(cache))
    BY <1>1 DEF Boot, shimVars
  <2> QED BY <2>1 DEF Sound, MapOf, Taken, Fit
<1>2. CASE Write(Formatted) /\ used' = {}
  <2>1. Fit(cache') /\ Taken(cache') = {} /\ chip' = chip
    BY <1>2, FormatWrites, EmptySound
  <2> QED BY <1>2, <2>1 DEF Sound, Fit
<1> QED BY <1>1, <1>2 DEF Boot

(* Every step keeps it, whatever happens.                                  *)
LEMMA SoundNext ==
  ASSUME IInv, Sound, [Next]_vars
  PROVE  Sound'
<1>0. CASE UNCHANGED vars
  <2>1. UNCHANGED <<chip, cache, bound, mapped, used, astray>>
    BY <1>0 DEF vars
  <2> QED BY <2>1 DEF Sound, Fit
<1> SUFFICES ASSUME Step, Watched PROVE Sound'
  BY <1>0 DEF Next
<1>a. /\ ~astray' => ~Clash(cache')
      /\ ~astray' /\ on /\ on' => ~astray
  BY Zenon DEF Watched
<1>1. CASE Boot
  BY <1>1, <1>a, BootSound DEF Sound
<1>2. CASE Poll
  <2>1. /\ cache' = cache /\ UNCHANGED <<on, bound, mapped, used>> /\ on
        /\ \A s \in Slot : chip'[s] \in {chip[s], cache[s]}
    BY <1>2, Layout DEF Poll, IInv, ShimOK
  <2>2. Fit(chip)' /\ Fit(cache)'
    BY <2>1 DEF Sound, Fit
  <2>3. Taken(cache') = Taken(cache)
    BY <2>1
  <2> QED BY <1>a, <2>1, <2>2, <2>3 DEF Sound
<1>3. CASE Erase
  <2>1. /\ UNCHANGED <<on, bound, used, mapped>> /\ chip' = chip /\ on
        /\ \A b \in Slot \cup Data : cache'[b] = cache[b]
    BY <1>3, EraseSpares DEF Erase
  <2>2. Taken(cache') = Taken(cache)
    BY <2>1, SameImage DEF IInv, ShimOK
  <2>3. Fit(chip)' /\ Fit(cache)'
    BY <2>1 DEF Sound, Fit
  <2> QED BY <1>a, <2>1, <2>2, <2>3 DEF Sound
<1>4. CASE Reset
  <2>1. chip' = chip /\ cache' = chip /\ ~bound'
    BY <1>4 DEF Reset, Lose
  <2> QED BY <1>a, <2>1 DEF Sound, Fit
<1>5. CASE PowerFail
  <2>1. PICK image : Lose(image) /\ Fit(image)
    BY <1>5, PowerLeaves DEF Sound
  <2>2. chip' = image /\ cache' = image /\ ~bound'
    BY <2>1 DEF Lose
  <2> QED BY <1>a, <2>1, <2>2 DEF Sound, Fit
<1>6. ASSUME NEW k \in Key, NEW v \in Value[k], Store(k, v), on, UNCHANGED <<on, bound>>
      PROVE  Sound'
  <2>1. Fit(chip)' /\ Fit(cache)'
    BY <1>6, StoreFit DEF Sound
  <2>2. mapped' => mapped
    BY <1>6, StoreOutcomes, Zenon DEF NoRoom, CarriedOut, Store
  <2>3. ASSUME ~astray', bound', mapped' PROVE used' = Taken(cache')
    <3>1. ~Clash(cache) /\ ~Clash(cache') /\ bound /\ mapped /\ used = Taken(cache)
      BY <1>6, <1>a, <2>2, <2>3 DEF Sound
    <3> QED BY <1>6, <2>3, <3>1, StoreExact
  <2> QED BY <1>a, <2>1, <2>3 DEF Sound
<1>7. ASSUME NEW k \in Key, Load(k) PROVE Sound'
  <2>1. UNCHANGED <<on, bound>> /\ on /\ Default[k] \in Value[k]
    BY <1>7, NvAssumption DEF Load, NvAssumption
  <2>2. CASE Store(k, Default[k])
    BY <1>6, <2>1, <2>2
  <2>3. CASE UNCHANGED <<shimVars, used, mapped>>
    <3>1. chip' = chip /\ cache' = cache /\ UNCHANGED <<used, mapped>>
      BY <2>3 DEF shimVars
    <3> QED BY <1>a, <2>1, <3>1 DEF Sound, Fit
  <2> QED BY <1>7, <2>2, <2>3 DEF Load
<1>8. ASSUME NEW k \in Key, NEW v \in Value[k], Save(k, v) PROVE Sound'
  BY <1>6, <1>8 DEF Save
<1> QED BY <1>1, <1>2, <1>3, <1>4, <1>5, <1>7, <1>8 DEF Step

(* In every state entries, map and the history of clashes are sound.       *)
THEOREM Soundness == Spec => []Sound
BY SoundInit, SoundNext, Invariance, PTL DEF Spec

(* The map of a store that can be written and is not astray holds the      *)
(* blocks of every setting and no other, for volumes and values of every   *)
(* size, any failures and settings of equal bytes.                         *)
THEOREM MapCorrect == Spec => []MapExact
<1>1. Sound => MapExact
  BY DEF Sound, MapExact, Taken
<1> QED BY <1>1, Soundness, PTL

-----------------------------------------------------------------------------
(* What leads a store astray.                                              *)

(* Every entry of the table can be read.                                   *)
Whole(image) == \A s \in Slot : image[s].name \in Key => Valid(image, s)

Uncut == ~cut => Whole(cache) /\ ~astray

(* A put into a table whose entries can all be read.                       *)
LEMMA PutWhole ==
  ASSUME IInv, NEW k \in Key, NEW v \in Value[k], NEW s, NEW at, CarriedOut(k, v, s, at),
         used = Taken(cache), ~Clash(cache), Whole(cache)
  PROVE  Whole(cache') /\ ~Clash(cache')
<1>1. /\ s \in Slot /\ cache'[s] = Entry(k, at, v) /\ Valid(cache', s)
      /\ Range(at) \subseteq Data \ (used \ Blocks(cache, s))
      /\ \A b \in Block \ ({s} \cup Range(at)) : cache'[b] = cache[b]
  BY PutWrites
<1>2. ASSUME NEW t \in Slot \ {s}, cache[t].name = k PROVE FALSE
  <2>1. t \in Live(cache, k) /\ Valid(cache, t)
    BY <1>2 DEF Whole, Live, Matches
  <2>2. s \in Live(cache, k)
    BY <2>1 DEF CarriedOut, SlotFor, Lowest
  <2>3. s \in Slot /\ Valid(cache, s) /\ cache[s].name = k
    BY <2>2 DEF Live, Matches
  <2> QED BY <1>2, <2>1, <2>3 DEF Clash
<1>3. ASSUME NEW t \in Slot \ {s} PROVE cache'[t] = cache[t]
  BY <1>1, <1>3, Layout
<1>4. ASSUME NEW t \in Slot \ {s}, Valid(cache, t)
      PROVE  Valid(cache', t) /\ Blocks(cache', t) = Blocks(cache, t)
             /\ Blocks(cache, t) \cap Range(at) = {}
  <2> DEFINE e == cache[t]
  <2>1. Blocks(cache, t) = Range(e.at)
    BY <1>4 DEF Blocks
  <2>2. Range(e.at) \subseteq used
    BY <2>1 DEF Taken
  <2>3. Range(e.at) \cap Blocks(cache, s) = {}
    <3>1. Blocks(cache, s) # {} => Valid(cache, s)
      BY DEF Blocks
    <3> QED BY <1>1, <1>4, <2>1, <3>1 DEF Clash
  <2>4. Range(e.at) \cap Range(at) = {}
    BY <1>1, <2>2, <2>3
  <2>5. \A i \in DOMAIN e.at : e.at[i] \in Range(e.at) /\ e.at[i] \in Data
    BY DEF Range, IInv, ShimOK, Placed
  <2>6. \A i \in DOMAIN e.at : cache'[e.at[i]] = cache[e.at[i]]
    BY <1>1, <2>4, <2>5, Layout
  <2>7. Valid(cache', t)
    BY <1>3, <1>4, <2>6 DEF Valid
  <2> QED BY <1>3, <2>1, <2>4, <2>7 DEF Blocks
<1>5. Whole(cache')
  BY <1>1, <1>3, <1>4 DEF Whole
<1>6. Blocks(cache', s) = Range(at)
  BY <1>1 DEF Blocks, Entry
<1>7. \A t \in Slot : Valid(cache', t) /\ t # s => Valid(cache, t) /\ cache'[t].name # k
  BY <1>2, <1>3 DEF Whole, Valid
<1>8. cache'[s].name = k
  BY <1>1 DEF Entry
<1>9. ASSUME NEW t \in Slot, NEW u \in Slot, t # u, Valid(cache', t), Valid(cache', u)
      PROVE  cache'[t].name # cache'[u].name /\ Blocks(cache', t) \cap Blocks(cache', u) = {}
  <2>1. CASE t = s
    BY <1>4, <1>6, <1>7, <1>8, <1>9, <2>1
  <2>2. CASE u = s
    BY <1>4, <1>6, <1>7, <1>8, <1>9, <2>2
  <2>3. CASE t # s /\ u # s
    <3>1. Valid(cache, t) /\ Valid(cache, u)
      BY <1>7, <1>9, <2>3
    <3> QED BY <1>3, <1>4, <1>9, <2>3, <3>1 DEF Clash
  <2> QED BY <2>1, <2>2, <2>3
<1>10. ~Clash(cache')
  BY <1>9 DEF Clash
<1> QED BY <1>5, <1>10

LEMMA UncutNext ==
  ASSUME IInv, Sound, Uncut, [Next]_vars
  PROVE  Uncut'
<1>0. CASE UNCHANGED vars
  BY <1>0 DEF vars, Uncut, Whole, Valid
<1> SUFFICES ASSUME Step, Watched, ~cut' PROVE Whole(cache') /\ ~astray'
  BY <1>0 DEF Next, Uncut
<1>a. ~cut /\ ~(on /\ ~on' /\ dirty # {})
  BY Zenon DEF Watched
<1>b. Whole(cache) /\ ~astray /\ ~Clash(cache)
  BY <1>a DEF Uncut, Sound
<1>c. ~Clash(cache') => ~astray'
  BY <1>b, Zenon DEF Watched
<1>d. ASSUME \A b \in Slot \cup Data : cache'[b] = cache[b]
      PROVE  Whole(cache') /\ ~astray'
  <2>1. ~Clash(cache') /\ \A s \in Slot : Valid(cache', s) <=> Valid(cache, s)
    BY <1>b, <1>d, SameImage DEF IInv, ShimOK
  <2> QED BY <1>b, <1>c, <1>d, <2>1 DEF Whole
<1>1. CASE Boot
  <2>1. CASE cache' = cache
    BY <1>d, <2>1
  <2>2. CASE Write(Formatted)
    <3>1. ~Clash(cache') /\ \A s \in Slot : cache'[s] = NoEntry
      BY <2>2, FormatWrites, EmptySound
    <3>2. Whole(cache')
      BY <3>1, NvAssumption DEF Whole, NoEntry, NvAssumption
    <3> QED BY <1>c, <3>1, <3>2
  <2> QED BY <1>1, <2>1, <2>2 DEF Boot, shimVars
<1>2. CASE Poll
  BY <1>2, <1>d DEF Poll
<1>3. CASE Erase
  BY <1>3, <1>d, EraseSpares
<1>4. CASE Reset
  <2>1. cache' = chip /\ on /\ ~on' /\ \A b \in Block \ dirty : chip[b] = cache[b]
    BY <1>4, ResetLeaves DEF Lose
  <2>2. \A b \in Slot \cup Data : cache'[b] = cache[b]
    BY <1>a, <2>1, Layout
  <2> QED BY <1>d, <2>2
<1>5. CASE PowerFail
  <2>1. dirty # {} /\ on /\ ~on'
    BY <1>5, PowerLeaves DEF Lose
  <2> QED BY <1>a, <2>1
<1>6. ASSUME NEW k \in Key, NEW v \in Value[k], Store(k, v)
      PROVE  Whole(cache') /\ ~astray'
  <2>1. CASE UNCHANGED shimVars
    BY <1>d, <2>1 DEF shimVars
  <2>2. ASSUME NEW s, NEW at, CarriedOut(k, v, s, at) PROVE Whole(cache') /\ ~astray'
    <3>1. used = Taken(cache)
      BY <1>b, <2>2 DEF Sound, CarriedOut
    <3> QED BY <1>b, <1>c, <2>2, <3>1, PutWhole
  <2> QED BY <1>6, <2>1, <2>2, StoreOutcomes DEF NoRoom
<1>7. ASSUME NEW k \in Key, Load(k) PROVE Whole(cache') /\ ~astray'
  <2>1. CASE Store(k, Default[k])
    BY <1>6, <2>1, NvAssumption DEF NvAssumption
  <2>2. CASE UNCHANGED shimVars
    BY <1>d, <2>2 DEF shimVars
  <2> QED BY <1>7, <2>1, <2>2 DEF Load
<1>8. ASSUME NEW k \in Key, NEW v \in Value[k], Save(k, v)
      PROVE  Whole(cache') /\ ~astray'
  BY <1>6, <1>8 DEF Save
<1> QED BY <1>1, <1>2, <1>3, <1>4, <1>5, <1>7, <1>8 DEF Step

(* Only a failure that loses bytes leads a store astray: puts of whatever  *)
(* size and bytes, formats, and resets once all is written back never do.  *)
THEOREM OnlyLossMisleads == Spec => []AstrayAfterCut
<1>1. Init => Uncut
  <2> SUFFICES ASSUME Init PROVE Uncut
    OBVIOUS
  <2>1. ~astray /\ \A s \in Slot : cache[s] = NoEntry
    BY Layout DEF Init, Formatted
  <2> QED BY <2>1, NvAssumption DEF Uncut, Whole, NoEntry, NvAssumption
<1>2. IInv /\ Sound /\ Uncut /\ [Next]_vars => Uncut'
  BY UncutNext
<1>3. Uncut => AstrayAfterCut
  BY Zenon DEF Uncut, AstrayAfterCut
<1> QED BY <1>1, <1>2, <1>3, Invariance, Soundness, PTL DEF Spec

-----------------------------------------------------------------------------
(* Names in two slots: as long as no table that holds names is formatted,  *)
(* no name is ever in two, through the first format, any put, reset and    *)
(* power failure.                                                          *)

Distinct(image) ==
  \A s, t \in Slot : image[s].name \in Key /\ image[s].name = image[t].name => s = t

Fresh == ~on /\ cache[Names] = "bad" => \A s \in Slot : cache[s].name = Empty

(* The device lags behind the cache, but knows no other names.             *)
Lag == \A s \in Slot : chip[s].name \in {Empty, Junk, cache[s].name}

(* The slot a put writes is the only one of that name.                     *)
LEMMA OneSlot ==
  ASSUME Distinct(cache), NEW k \in Key, NEW s \in SlotFor(k)
  PROVE  /\ s \in Slot /\ cache[s].name \in {k, Empty}
         /\ \A t \in Slot \ {s} : cache[t].name # k
BY DEF SlotFor, Lowest, Live, Matches, Distinct

(* A put gives its slot the name k, and no other slot has it.              *)
LEMMA PutNames ==
  ASSUME IInv, Distinct(cache), Lag, NEW k \in Key, NEW v \in Value[k], Store(k, v)
  PROVE  Distinct(cache)' /\ Lag'
<1>1. CASE UNCHANGED shimVars
  BY <1>1 DEF shimVars, Distinct, Lag
<1>2. ASSUME NEW s, NEW at, CarriedOut(k, v, s, at) PROVE Distinct(cache)' /\ Lag'
  <2>1. s \in SlotFor(k)
    BY <1>2 DEF CarriedOut
  <2>2. /\ s \in Slot /\ cache[s].name \in {k, Empty}
        /\ \A t \in Slot \ {s} : cache[t].name # k
    BY <2>1, OneSlot
  <2>3. /\ cache'[s] = Entry(k, at, v) /\ chip' = chip /\ Range(at) \subseteq Data
        /\ \A b \in Block \ ({s} \cup Range(at)) : cache'[b] = cache[b]
    BY <1>2, PutWrites
  <2>4. \A t \in Slot \ {s} : cache'[t] = cache[t]
    BY <2>3, Layout
  <2>5. cache'[s].name = k
    BY <2>3 DEF Entry
  <2> QED BY <2>2, <2>3, <2>4, <2>5 DEF Distinct, Lag
<1> QED BY <1>1, <1>2, StoreOutcomes DEF NoRoom

LEMMA NamesNext ==
  ASSUME IInv, Distinct(cache), Lag, Fresh, [Next]_vars
  PROVE  Distinct(cache)' /\ Lag'
<1> USE DEF Distinct, Lag
<1>1. CASE Boot
  <2>1. CASE cache[Names] = "good"
    BY <1>1, <2>1 DEF Boot, shimVars
  <2>2. CASE Write(Formatted) /\ cache[Names] = "bad"
    <3>1. chip' = chip /\ \A s \in Slot : cache'[s] = NoEntry
      BY <2>2, Layout DEF Write, Formatted
    <3>2. \A s \in Slot : cache[s].name = Empty
      BY <1>1, <2>2 DEF Boot, Fresh
    <3> QED BY <3>1, <3>2, NvAssumption DEF NoEntry, NvAssumption
  <2> QED BY <1>1, <2>1, <2>2 DEF Boot
<1>2. CASE Poll
  <2>1. cache' = cache /\ \A s \in Slot : chip'[s] \in {chip[s], cache[s]}
    BY <1>2, Layout DEF Poll, IInv, ShimOK
  <2> QED BY <2>1
<1>3. CASE Erase
  <2>1. chip' = chip /\ \A s \in Slot : cache'[s] = cache[s]
    BY <1>3, Layout DEF Erase, Write
  <2> QED BY <2>1
<1>4. CASE Reset
  <2>1. chip' = chip /\ cache' = chip
    BY <1>4 DEF Reset, Lose
  <2> QED BY <2>1, NvAssumption DEF NvAssumption
<1>5. CASE PowerFail
  <2>1. PICK b \in dirty : \E x \in Tears(b) : Lose([chip EXCEPT ![b] = x])
    BY <1>5 DEF PowerFail
  <2>2. PICK x \in Tears(b) : Lose([chip EXCEPT ![b] = x])
    BY <2>1
  <2>3. /\ cache' = [chip EXCEPT ![b] = x] /\ chip' = cache'
        /\ DOMAIN chip = Block /\ b \in Block
    BY <2>2 DEF Lose, IInv, ShimOK
  <2>4. ASSUME NEW s \in Slot PROVE cache'[s].name \in {Empty, Junk, cache[s].name}
    <3>1. CASE s = b
      <4>1. x.name \in {chip[s].name, cache[s].name, Junk}
        BY <2>2, <3>1 DEF Tears, TornEntry, NoEntry
      <4> QED BY <2>3, <3>1, <4>1
    <3>2. CASE s # b
      BY <2>3, <3>2
    <3> QED BY <3>1, <3>2
  <2> QED BY <2>3, <2>4, NvAssumption DEF NvAssumption
<1>6. ASSUME NEW k \in Key, Load(k) PROVE Distinct(cache)' /\ Lag'
  <2>1. CASE Store(k, Default[k])
    BY <2>1, PutNames, NvAssumption DEF NvAssumption
  <2>2. CASE UNCHANGED shimVars
    BY <2>2 DEF shimVars
  <2> QED BY <1>6, <2>1, <2>2 DEF Load
<1>7. ASSUME NEW k \in Key, NEW v \in Value[k], Save(k, v) PROVE Distinct(cache)' /\ Lag'
  BY <1>7, PutNames DEF Save
<1>8. CASE UNCHANGED vars
  BY <1>8 DEF vars
<1> QED BY <1>1, <1>2, <1>3, <1>4, <1>5, <1>6, <1>7, <1>8 DEF Next, Step

(* No setting's name is ever in two slots as long as no table that holds   *)
(* names is formatted, whatever is lost, torn or reset.                    *)
THEOREM NamesApart == Spec /\ []Fresh => []Distinct(cache)
<1>1. Init => Distinct(cache) /\ Lag
  <2> SUFFICES ASSUME Init PROVE Distinct(cache) /\ Lag
    OBVIOUS
  <2>1. cache = chip /\ \A s \in Slot : chip[s] = NoEntry
    BY Layout DEF Init, Formatted
  <2> QED BY <2>1, NvAssumption DEF Distinct, Lag, NoEntry, NvAssumption
<1>2. IInv /\ Distinct(cache) /\ Lag /\ Fresh /\ [Next]_vars => Distinct(cache)' /\ Lag'
  BY NamesNext
<1> QED BY <1>1, <1>2, Invariance, PTL DEF Spec

-----------------------------------------------------------------------------
(* What a get returns.                                                     *)

(* Slots are numbers, and of some of them one is the lowest.               *)
LEMMA Least ==
  ASSUME NEW S \in SUBSET Slot, S # {}
  PROVE  \E s \in S : \A t \in S : s <= t
<1> DEFINE N == Slot
           Below(x) == {y \in N : y <= x}
           T == {Below(x) : x \in S}
           R == StrictSubsetOrdering(N)
<1>1. IsWellFoundedOn(R, SUBSET N)
  <2>1. IsFiniteSet(N)
    BY FS_Interval, NvAssumption DEF Slot, NvAssumption
  <2> HIDE DEF N
  <2>2. FiniteSubsetsOf(N) = SUBSET N
    BY <2>1, FS_FiniteSubsetsOfFinite
  <2> QED BY <2>2, FS_StrictSubsetOrderingWellFounded
<1>2. T \subseteq SUBSET N /\ T # {}
  OBVIOUS
<1>3. PICK B \in T : \A C \in T : ~(<<C, B>> \in R)
  <2> HIDE DEF R, T, N
  <2> QED BY <1>1, <1>2, WFMin
<1>4. PICK s \in S : B = Below(s)
  OBVIOUS
<1>0. N \subseteq Int
  BY NvAssumption DEF Slot, NvAssumption
<1>5. ASSUME NEW t \in S, t < s PROVE FALSE
  <2>0. s \in N /\ s \in Int /\ t \in Int /\ t < s
    BY <1>0, <1>5
  <2>a. ASSUME NEW y \in N, y <= t PROVE y <= s
    BY <1>0, <2>0, <2>a
  <2>b. s <= s /\ ~(s <= t)
    BY <2>0
  <2>1. Below(t) \subseteq Below(s) /\ s \in Below(s) /\ s \notin Below(t)
    <3> HIDE DEF N
    <3> QED BY <2>0, <2>a, <2>b, Zenon
  <2>2. Below(t) \in T
    OBVIOUS
  <2>3. <<Below(t), Below(s)>> \in R
    BY <2>1 DEF StrictSubsetOrdering
  <2> QED BY <1>3, <1>4, <2>2, <2>3
<1>6. \A t \in S : s <= t
  BY <1>0, <1>5
<1> QED BY <1>6

(* A get reads a slot of that name.                                        *)
LEMMA FirstLive ==
  ASSUME NEW image, NEW k, Live(image, k) # {}
  PROVE  First(Live(image, k)) \in Live(image, k)
<1> DEFINE L == Live(image, k)
<1>1. L \in SUBSET Slot
  BY DEF Live, Matches
<1> HIDE DEF L
<1>2. Lowest(L) # {}
  BY <1>1, Least DEF Lowest, L
<1>3. First(L) \in Lowest(L)
  BY <1>2 DEF First
<1> QED BY <1>3 DEF Lowest, L

(* It is the only one, if no two entries clash.                            *)
LEMMA Alone ==
  ASSUME NEW image, ~Clash(image), NEW k, NEW s \in Live(image, k)
  PROVE  Live(image, k) = {s} /\ First(Live(image, k)) = s
<1>1. Live(image, k) = {s}
  BY DEF Live, Matches, Clash
<1> QED BY <1>1, FirstLive

(* What is read there is the value put there.                              *)
LEMMA StoredIs ==
  ASSUME NEW image, Fit(image), NEW k \in Key, NEW s \in Live(image, k),
         s = First(Live(image, k))
  PROVE  Stored(image, k) = image[s].val /\ image[s].val \in Value[k]
<1> DEFINE e == image[s]
           f == [i \in DOMAIN e.at |-> image[e.at[i]]]
<1>1. s \in Slot /\ e.name = k /\ Valid(image, s)
  BY DEF Live, Matches
<1>2. e.val \in Value[k] /\ DOMAIN e.at = DOMAIN e.val.body
  BY <1>1 DEF Valid, Fit
<1>3. e.val = [head |-> e.val.head, body |-> e.val.body]
      /\ e.val.body = [i \in DOMAIN e.val.body |-> e.val.body[i]]
  BY <1>2, Numbered
<1>4. f = e.val.body
  <2>1. \A i \in DOMAIN e.at : image[e.at[i]] = e.val.body[i]
    BY <1>1 DEF Valid
  <2> HIDE DEF e
  <2>2. f = [i \in DOMAIN e.val.body |-> e.val.body[i]]
    BY <1>2, <2>1
  <2> QED BY <1>3, <2>2, Zenon
<1>5. Stored(image, k) = [head |-> e.val.head, body |-> f]
  BY DEF Stored
<1> QED BY <1>2, <1>3, <1>4, <1>5, Zenon

(* A get returns a value that was put, or none.                            *)
LEMMA StoredTyped ==
  ASSUME NEW image, Fit(image), NEW k \in Key
  PROVE  Stored(image, k) \in Value[k] \cup {None}
<1>1. CASE Live(image, k) = {}
  BY <1>1 DEF Stored
<1>2. CASE Live(image, k) # {}
  BY <1>2, FirstLive, StoredIs
<1> QED BY <1>1, <1>2

(* After a put that is carried out, a get of that setting returns it.      *)
LEMMA PutThenGet ==
  ASSUME IInv, Sound', ~Clash(cache'), NEW k \in Key, NEW v \in Value[k],
         NEW s, NEW at, CarriedOut(k, v, s, at), UNCHANGED bound
  PROVE  Now'[k] = v
<1>1. s \in Slot /\ cache'[s] = Entry(k, at, v) /\ Valid(cache', s)
  BY PutWrites
<1>2. s \in Live(cache', k)
  BY <1>1 DEF Live, Matches, Entry
<1>3. First(Live(cache', k)) = s
  BY <1>2, Alone
<1>4. Stored(cache', k) = v
  BY <1>1, <1>2, <1>3, StoredIs DEF Sound, Entry
<1>5. bound'
  BY DEF CarriedOut
<1> QED BY <1>4, <1>5 DEF Now

(* What is put is what the next get returns: in a store that the put does  *)
(* not lead astray no stale slot of the same name and no block of another  *)
(* setting comes between, whatever its size, full or not, after any        *)
(* failures.                                                               *)
THEOREM PutsRead == Spec => PutReads
<1> DEFINE A == cache' # cache /\ ~astray' =>
                  \A k \in Key : \A v \in Value[k] : Puts(k, v) => Now'[k] = v
<1>1. ASSUME IInv, Sound', [Next]_vars PROVE [A]_vars
  <2> SUFFICES ASSUME cache' # cache, ~astray', NEW k \in Key, NEW v \in Value[k], Puts(k, v)
               PROVE  Now'[k] = v
    BY Zenon
  <2>1. Store(k, v) /\ UNCHANGED bound
    BY DEF Puts, Save, Load, shimVars
  <2>2. PICK s, at : CarriedOut(k, v, s, at)
    BY <2>1, StoreOutcomes DEF NoRoom, shimVars
  <2>3. ~Clash(cache')
    BY <1>1 DEF Sound
  <2> QED BY <1>1, <2>1, <2>2, <2>3, PutThenGet
<1> HIDE DEF A
<1>2. PutReads <=> [][A]_vars
  BY DEF PutReads, A
<1> QED BY <1>1, <1>2, Invariance, Soundness, PTL DEF Spec

-----------------------------------------------------------------------------
(* The promise.                                                            *)

(* An entry that is the same in two images, its blocks too, reads the same *)
(* in both, if none clashes with it in the second.                         *)
LEMMA SameEntry ==
  ASSUME NEW old, NEW new, Fit(old), Fit(new), ~Clash(new), NEW k \in Key,
         NEW s \in Live(old, k), s = First(Live(old, k)), new[s] = old[s],
         \A b \in Range(old[s].at) : new[b] = old[b]
  PROVE  /\ Live(new, k) = {s} /\ First(Live(new, k)) = s
         /\ Stored(new, k) = Stored(old, k)
<1>1. s \in Slot /\ old[s].name = k /\ Valid(old, s)
  BY DEF Live, Matches
<1>2. \A i \in DOMAIN old[s].at : new[old[s].at[i]] = old[old[s].at[i]]
  BY DEF Range
<1>3. Valid(new, s)
  BY <1>1, <1>2 DEF Valid
<1>4. s \in Live(new, k)
  BY <1>1, <1>3 DEF Live, Matches
<1>5. Live(new, k) = {s} /\ First(Live(new, k)) = s
  BY <1>4, Alone
<1>6. Stored(old, k) = old[s].val /\ Stored(new, k) = new[s].val
  BY <1>4, <1>5, StoredIs
<1> QED BY <1>5, <1>6

(* Nothing is put: what is written back only adds to what is settled.      *)
LEMMA Unput ==
  ASSUME cache' = cache, dirty' \subseteq dirty, UNCHANGED <<on, bound>>
  PROVE  Promise!WriteBack
<1>1. Now' = Now
  BY DEF Now
<1>2. \A k : Settled(k) => Settled(k)'
  BY DEF Settled
<1> QED BY <1>1, <1>2 DEF Sure, Promise!WriteBack

(* What a failure leaves on the device agrees with the cache but for       *)
(* blocks that waited.                                                     *)
LEMMA LoseFails ==
  ASSUME IInv, Sound, NEW image, Fit(image), ~Clash(image), Lose(image), on,
         \A b \in Block \ dirty : image[b] = cache[b]
  PROVE  Promise!Fail
<1>1. cache' = image /\ dirty' = {} /\ on' = FALSE /\ bound' = FALSE
  BY DEF Lose
<1>2. \A k \in Key : Now'[k] = Stored(image, k)
  BY <1>1 DEF Now
<1>3. \A k \in Key : Now'[k] \in Value[k] \cup {None}
  BY <1>2, StoredTyped
<1>4. ASSUME NEW k \in Sure PROVE Now'[k] = Now[k] /\ k \in Sure'
  <2>1. k \in Key /\ bound /\ Settled(k)
    BY DEF Sure
  <2> DEFINE s == First(Live(cache, k))
  <2>2. Live(cache, k) # {} /\ s \notin dirty /\ \A b \in Range(cache[s].at) : b \notin dirty
    BY <2>1 DEF Settled
  <2>3. s \in Live(cache, k)
    BY <2>2, FirstLive
  <2>4. s \in Slot
    BY <2>3 DEF Live, Matches
  <2>5. s \in Block /\ Range(cache[s].at) \subseteq Block
    BY <2>4, Layout DEF IInv, ShimOK, Placed
  <2>6. image[s] = cache[s] /\ \A b \in Range(cache[s].at) : image[b] = cache[b]
    BY <2>2, <2>5
  <2>7. Live(image, k) # {} /\ Stored(image, k) = Stored(cache, k)
    <3>1. s = First(Live(cache, k))
      OBVIOUS
    <3> HIDE DEF s
    <3> QED BY <2>1, <2>3, <2>6, <3>1, SameEntry DEF Sound
  <2>8. Settled(k)'
    BY <1>1, <2>7 DEF Settled
  <2>9. Now'[k] = Stored(image, k) /\ Now[k] = Stored(cache, k)
    BY <1>2, <2>1 DEF Now
  <2> QED BY <1>1, <2>1, <2>7, <2>8, <2>9 DEF Sure
<1> QED BY <1>3, <1>4 DEF Promise!Fail

(* A put that is carried out is one of the promised ones.                  *)
LEMMA PutPromised ==
  ASSUME IInv, Sound, Sound', used = Taken(cache), ~Clash(cache), ~Clash(cache'),
         NEW k \in Key, NEW v \in Value[k],
         NEW s, NEW at, CarriedOut(k, v, s, at), UNCHANGED <<on, bound>>
  PROVE  Promise!Put(k)
<1>1. /\ s \in Slot /\ Range(at) \subseteq Data
      /\ cache'[s] = Entry(k, at, v) /\ chip' = chip
      /\ \A b \in Block \ ({s} \cup Range(at)) :
           cache'[b] = cache[b] /\ (b \in dirty' => b \in dirty)
  BY PutWrites
<1>2. bound /\ bound' /\ cache[s].name \in {k, Empty}
  BY DEF CarriedOut, SlotFor, Lowest, Live, Matches
<1>3. Now'[k] = v
  BY PutThenGet
<1>4. ASSUME NEW j \in Key, j # k
      PROVE  Now'[j] = Now[j] /\ (j \in Sure => j \in Sure')
  <2>1. Now'[j] = Stored(cache', j) /\ Now[j] = Stored(cache, j)
    BY <1>2 DEF Now
  <2>2. ASSUME NEW t \in Live(cache', j) PROVE t \in Live(cache, j)
    <3>1. t \in Slot /\ cache'[t].name = j /\ Valid(cache', t)
      BY DEF Live, Matches
    <3>2. t # s
      BY <1>1, <1>4, <3>1 DEF Entry
    <3> QED BY <3>1, <3>2, PutSpares DEF Live, Matches
  <2>3. CASE Live(cache, j) = {}
    <3>1. Live(cache', j) = {}
      BY <2>2, <2>3
    <3>2. j \notin Sure
      BY <2>3 DEF Sure, Settled
    <3> QED BY <2>1, <2>3, <3>1, <3>2 DEF Stored
  <2>4. CASE Live(cache, j) # {}
    <3> DEFINE t == First(Live(cache, j))
    <3>1. t \in Live(cache, j)
      BY <2>4, FirstLive
    <3>0. t = First(Live(cache, j))
      OBVIOUS
    <3> HIDE DEF t
    <3>2. t \in Slot /\ cache[t].name = j /\ Valid(cache, t)
      BY <3>1 DEF Live, Matches
    <3>3. t # s
      BY <1>2, <1>4, <3>2, NvAssumption DEF NvAssumption
    <3>4. cache'[t] = cache[t] /\ \A b \in Range(cache[t].at) : b \in Block \ ({s} \cup Range(at))
      BY <3>2, <3>3, PutSpares
    <3>5. \A b \in Range(cache[t].at) : cache'[b] = cache[b]
      BY <1>1, <3>4
    <3>6. /\ Live(cache', j) = {t} /\ First(Live(cache', j)) = t
          /\ Stored(cache', j) = Stored(cache, j)
      BY <3>0, <3>1, <3>4, <3>5, SameEntry DEF Sound
    <3>7. ASSUME j \in Sure PROVE j \in Sure'
      <4>1. t \notin dirty /\ \A b \in Range(cache[t].at) : b \notin dirty
        BY <3>0, <3>7 DEF Sure, Settled
      <4>2. t \in Block \ ({s} \cup Range(at))
        BY <1>1, <3>2, <3>3, Layout
      <4>3. t \notin dirty' /\ \A b \in Range(cache'[t].at) : b \notin dirty'
        BY <1>1, <3>4, <4>1, <4>2
      <4>4. Settled(j)'
        BY <3>6, <4>3 DEF Settled
      <4> QED BY <1>2, <4>4 DEF Sure
    <3> QED BY <2>1, <3>6, <3>7
  <2> QED BY <2>3, <2>4
<1>5. Due' = Due
  <2>1. {Names, PartNames} \cap ({s} \cup Range(at)) = {} /\ {Names, PartNames} \subseteq Block
    BY <1>1, NvAssumption DEF Slot, Data, Block, Names, PartNames, NvAssumption
  <2>2. cache'[Names] = cache[Names] /\ cache'[PartNames] = cache[PartNames]
    BY <1>1, <2>1
  <2> QED BY <1>1, <2>2 DEF Due
<1>6. Sure \subseteq Key
  BY DEF Sure
<1> QED BY <1>3, <1>4, <1>5, <1>6 DEF Promise!Put

LEMMA InitPromised == Init => Promise!Init
<1> SUFFICES ASSUME Init PROVE Promise!Init
  OBVIOUS
<1>1. \A k \in Key : Live(cache, k) = {}
  <2>1. \A s \in Slot : cache[s] = NoEntry
    BY Layout DEF Init, Formatted
  <2> QED BY <2>1, EmptySound DEF Live, Matches
<1>2. Now = [k \in Key |-> None]
  BY <1>1 DEF Init, Now, Stored
<1>3. Sure = {}
  BY <1>1 DEF Init, Sure, Settled
<1>4. Due
  <2>1. chip[PartNames] = "bad"
    BY Layout DEF Init, Formatted, PartNames
  <2> QED BY <2>1 DEF Due
<1>5. Due = TRUE /\ astray = FALSE
  BY <1>4, Zenon DEF Init, Due
<1> QED BY <1>2, <1>3, <1>5 DEF Promise!Init

(* A start reads what is stored, or clears a volume that is spoiled.       *)
LEMMA BootPromised ==
  ASSUME IInv, Boot
  PROVE  Promise!WriteBack \/ Promise!Clear
<1>1. ~on /\ on' = TRUE /\ Sure' \in SUBSET Key
  BY DEF Boot, Sure
<1>2. CASE cache[Names] = "good" /\ cache[PartNames] = "good"
  <2>1. chip' = chip /\ cache' = cache /\ dirty' = dirty /\ bound'
    BY <1>2 DEF Boot, shimVars
  <2>2. Now' = Now /\ Sure' = Sure
    BY <1>1, <2>1 DEF Now, Sure, Settled
  <2> QED BY <2>2 DEF Promise!WriteBack
<1>3. CASE cache[Names] = "good" /\ cache[PartNames] # "good"
  <2>1. ~bound'
    BY <1>3 DEF Boot
  <2>2. Now' = [k \in Key |-> None]
    BY <1>1, <2>1 DEF Now
  <2>3. Due
    BY <1>3 DEF Due
  <2> QED BY <1>1, <2>2, <2>3 DEF Promise!Clear
<1>4. CASE cache[Names] # "good"
  <2>1. cache[Names] = "bad" /\ bound' = TRUE /\ Write(Formatted)
    BY <1>4 DEF Boot
  <2>2. \A s \in Slot : cache'[s] = NoEntry
    BY <2>1, FormatWrites
  <2>3. \A k \in Key : Live(cache', k) = {}
    BY <2>2, EmptySound DEF Live, Matches
  <2>4. Now' = [k \in Key |-> None]
    BY <2>1, <2>3 DEF Now, Stored
  <2>5. Due
    BY <1>4 DEF Due
  <2> QED BY <1>1, <2>4, <2>5 DEF Promise!Clear
<1> QED BY <1>2, <1>3, <1>4

(* A reset that is asked for touches no setting.                           *)
LEMMA ErasePromised ==
  ASSUME IInv, Erase
  PROVE  Promise!WriteBack
<1>1. /\ UNCHANGED <<on, bound>> /\ dirty' \subseteq dirty \cup {Names}
      /\ Names \notin Slot \cup Data
      /\ \A b \in Slot \cup Data : cache'[b] = cache[b]
  BY EraseSpares
<1>2. \A k : Live(cache', k) = Live(cache, k)
  BY <1>1, SameImage DEF IInv, ShimOK
<1>3. ASSUME NEW k \in Key, Live(cache, k) # {}
      PROVE  Stored(cache', k) = Stored(cache, k) /\ (Settled(k) => Settled(k)')
  <2> DEFINE t == First(Live(cache, k))
  <2>1. t \in Slot /\ t = First(Live(cache, k)) /\ t = First(Live(cache', k))
    BY <1>2, <1>3, FirstLive DEF Live, Matches
  <2> HIDE DEF t
  <2>2. Range(cache[t].at) \subseteq Data /\ \A i \in DOMAIN cache[t].at : cache[t].at[i] \in Data
    BY <2>1 DEF IInv, ShimOK, Placed, Range
  <2>3. /\ cache'[t] = cache[t]
        /\ \A i \in DOMAIN cache[t].at : cache'[cache[t].at[i]] = cache[cache[t].at[i]]
    BY <1>1, <2>1, <2>2
  <2>4. Stored(cache', k) = Stored(cache, k)
    BY <1>2, <1>3, <2>1, <2>3 DEF Stored
  <2>5. Settled(k) => Settled(k)'
    BY <1>1, <1>2, <2>1, <2>2, <2>3 DEF Settled
  <2> QED BY <2>4, <2>5
<1>4. \A k \in Key : Stored(cache', k) = Stored(cache, k) /\ (Settled(k) => Settled(k)')
  BY <1>2, <1>3 DEF Stored, Settled
<1>5. Now' = Now /\ Sure \subseteq Sure'
  BY <1>1, <1>4 DEF Now, Sure
<1> QED BY <1>5 DEF Promise!WriteBack

(* Every step of the store is a promised one, or changes nothing of it.    *)
LEMMA NextPromised ==
  ASSUME IInv, Sound, Sound', [Next]_vars
  PROVE  [Promise!Next]_(Promise!vars)
<1>0. CASE UNCHANGED vars
  <2>1. UNCHANGED <<chip, cache, dirty, on, bound, astray>>
    BY <1>0 DEF vars
  <2>2. Promise!WriteBack
    BY <2>1, Unput
  <2> QED BY <2>2 DEF Promise!Next
<1>a. CASE astray'
  BY <1>a DEF Promise!Next
<1> SUFFICES ASSUME Step, Watched, ~astray' PROVE Promise!Next
  BY <1>0, <1>a DEF Next
<1>b. ~Clash(cache') /\ (on /\ on' => ~astray)
  BY Zenon DEF Watched
<1> USE DEF Promise!Next
<1>1. CASE Boot
  BY <1>1, BootPromised
<1>2. CASE Poll
  BY <1>2, Unput DEF Poll
<1>3. CASE Erase
  BY <1>3, ErasePromised
<1>4. CASE Reset
  <2>1. Lose(chip) /\ on /\ \A b \in Block \ dirty : chip[b] = cache[b]
    BY <1>4, ResetLeaves
  <2>2. Fit(chip) /\ ~Clash(chip)
    BY <1>b, <2>1 DEF Lose, Sound
  <2> QED BY <2>1, <2>2, LoseFails
<1>5. CASE PowerFail
  <2>1. PICK image : /\ Lose(image) /\ on /\ (Fit(chip) => Fit(image))
                     /\ \A b \in Block \ dirty : image[b] = cache[b]
    BY <1>5, PowerLeaves
  <2>2. Fit(image) /\ ~Clash(image)
    BY <1>b, <2>1 DEF Lose, Sound
  <2> QED BY <2>1, <2>2, LoseFails
<1>6. ASSUME NEW k \in Key, NEW v \in Value[k], Store(k, v), on, UNCHANGED <<on, bound>>
      PROVE  Promise!Next
  <2>1. CASE UNCHANGED shimVars
    BY <1>6, <2>1, Unput DEF shimVars
  <2>2. ASSUME NEW s, NEW at, CarriedOut(k, v, s, at) PROVE Promise!Next
    <3>1. ~Clash(cache) /\ used = Taken(cache)
      BY <1>6, <1>b, <2>2 DEF Sound, CarriedOut
    <3> QED BY <1>6, <1>b, <2>2, <3>1, PutPromised
  <2> QED BY <1>6, <2>1, <2>2, StoreOutcomes DEF NoRoom
<1>7. ASSUME NEW k \in Key, Load(k) PROVE Promise!Next
  <2>1. UNCHANGED <<on, bound>> /\ on /\ Default[k] \in Value[k]
    BY <1>7, NvAssumption DEF Load, NvAssumption
  <2>2. CASE Store(k, Default[k])
    BY <1>6, <2>1, <2>2
  <2>3. CASE UNCHANGED shimVars
    BY <2>1, <2>3, Unput DEF shimVars
  <2> QED BY <1>7, <2>2, <2>3 DEF Load
<1>8. ASSUME NEW k \in Key, NEW v \in Value[k], Save(k, v) PROVE Promise!Next
  BY <1>6, <1>8 DEF Save
<1> QED BY <1>1, <1>2, <1>3, <1>4, <1>5, <1>7, <1>8 DEF Step

(* The settings change as NvPromise says, for any settings, sizes, bytes   *)
(* and failures: a put touches its own setting alone, what is written back *)
(* outlives every failure, and no get returns a mixture of two puts, but   *)
(* for the time two entries clash.                                         *)
THEOREM PromiseKept == Spec => ImplementsPromise
<1>1. IInv /\ Sound /\ Sound' /\ [Next]_vars => [Promise!Next]_(Promise!vars)
  BY NextPromised
<1> QED BY <1>1, InitPromised, Invariance, Soundness, PTL
       DEF Spec, ImplementsPromise, Promise!Spec

=============================================================================
