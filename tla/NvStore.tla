------------------------------ MODULE NvStore ------------------------------
(***************************************************************************)
(* Non-volatile storage of the OnStepX firmware: the named settings of its *)
(* components (NvKvPartition16) in a volume of 16-byte blocks (NvVolume),  *)
(* behind a cache in RAM that a task writes back block by block            *)
(* (NvShimCached). Power may fail, and the firmware may be reset, between  *)
(* any two of these steps; a block being written at that moment is torn.   *)
(*                                                                         *)
(* Blocks 0 and 1 describe the volume, then come the slots of the table    *)
(* of names, then the data blocks. The CRC of a slot covers its data       *)
(* blocks: here a slot carries the value it was computed for, and is valid *)
(* while its data blocks hold that value's bytes, whoever put them there:  *)
(* settings of different names may well have equal bytes.                  *)
(***************************************************************************)
EXTENDS Integers, FiniteSets, Functions

CONSTANTS
  Key,         \* names of settings, components' and sites'
  Value,       \* Value[k]: records [head, body], body in blocks of its own
  Default,     \* Default[k]: the value a component starts with
  Before,      \* Before[k]: the settings whose component starts before k's
  SlotCount,   \* slots of the table of names
  DataCount,   \* data blocks
  MaxFaults    \* bound: resets, power failures and erasures in a run

Names == 0                      \* SB0: the layout of the volume ...
PartNames == 1                  \* SB1: ... and the names of its partitions
Slot == 2 .. SlotCount + 1
Data == SlotCount + 2 .. SlotCount + DataCount + 1
Block == 0 .. SlotCount + DataCount + 1

None == [head |-> -1, body |-> <<>>]
Empty == "empty"                \* EMPTY_NAME24
Junk == "junk"                  \* a name torn before it was all written

NoEntry == [name |-> Empty, at |-> <<>>, val |-> None]
TornEntry(n) == [NoEntry EXCEPT !.name = n]
Blank == 255                    \* bytes 0xFF, as a format leaves them
Torn == -1                      \* bytes nobody put

NvAssumption ==
  /\ SlotCount \in Nat /\ DataCount \in Nat /\ MaxFaults \in Nat
  /\ Key \cap {Empty, Junk} = {}
  /\ \A k \in Key : Default[k] \in Value[k] /\ None \notin Value[k]
ASSUME NvAssumption

(* A value is its head and a body of numbered blocks.                      *)
ValueAssumption ==
  \A k \in Key : \A v \in Value[k] :
    /\ v = [head |-> v.head, body |-> v.body]
    /\ Cardinality(DOMAIN v.body) \in Nat
    /\ v.body = [i \in 1 .. Cardinality(DOMAIN v.body) |-> v.body[i]]
ASSUME ValueAssumption

VARIABLES
  chip,        \* what the device holds
  cache,       \* what the firmware reads: the device through the shim
  dirty,       \* blocks with bytes waiting to be written back
  scan,        \* the block the service task looked at last, or -1
  clean,       \* cacheClean: the task has nothing to do
  cleanPass,   \* cacheCleanThisPass
  on,          \* the firmware is running
  bound,       \* the volume is mounted and its partition "KV" was found
  used,        \* the allocation map of the data blocks
  mapped,      \* allocInit_: the map can be trusted
  loaded,      \* the settings whose component has started
  faults,      \* resets, power failures and erasures so far
  astray,      \* history: since the last start or failure two entries clash
  cut          \* history: a failure has lost bytes that waited

vars == <<chip, cache, dirty, scan, clean, cleanPass, on, bound, used, mapped, loaded,
          faults, astray, cut>>
shimVars == <<chip, cache, dirty, scan, clean, cleanPass>>

-----------------------------------------------------------------------------
(* Reading: which slots are valid, and what a get returns.                 *)

(* Variant: the CRC covers the slot alone.                                 *)
ValidUncovered(image, s) ==
  LET e == image[s]
  IN /\ e.name \in Key
     /\ e.val # None
     /\ \A b \in Range(e.at) : image[b] \notin {Blank, Torn}

(* validateEntryCrc_                                                       *)
Valid(image, s) ==
  LET e == image[s]
  IN /\ e.name \in Key
     /\ e.val # None
     /\ \A i \in DOMAIN e.at : image[e.at[i]] = e.val.body[i]

Matches(image, k) == {s \in Slot : image[s].name = k}
Lowest(S) == {s \in S : \A t \in S : s <= t}
First(S) == CHOOSE s \in Lowest(S) : TRUE

(* findSlot_: the first valid slot of that name.                           *)
Live(image, k) == {s \in Matches(image, k) : Valid(image, s)}

Blocks(image, s) == IF Valid(image, s) THEN Range(image[s].at) ELSE {}

(* get: the part kept in the slot, and the rest from the data blocks.      *)
Stored(image, k) ==
  LET live == Live(image, k)
  IN IF live = {} THEN None
     ELSE LET e == image[First(live)]
          IN [head |-> e.val.head,
              body |-> [i \in DOMAIN e.at |-> image[e.at[i]]]]

(* Two entries that can be read are of one setting, or share a block.      *)
Clash(image) ==
  \E s, t \in Slot :
    /\ s # t /\ Valid(image, s) /\ Valid(image, t)
    /\ \/ image[s].name = image[t].name
       \/ Blocks(image, s) \cap Blocks(image, t) # {}

(* findOrAllocSlot_: no slot, or the one a put of k writes.                *)
SlotFor(k) ==
  LET live == Live(cache, k)
      matches == Matches(cache, k)
      empty == {s \in Slot : cache[s].name = Empty}
  IN Lowest(IF live # {} THEN live ELSE IF matches # {} THEN matches ELSE empty)

(* Variant: the map is not looked at.                                      *)
PlacementsUnmapped(F, n) ==
  {at \in [1..n -> Data] :
     /\ \A i, j \in 1..n : i < j => at[i] > at[j]
     /\ \A b \in Data : b \in Range(at) \/ \A i \in 1..n : b < at[i]}

(* allocDataBlocks_: the n highest of the free blocks F, from the top.     *)
Placements(F, n) ==
  {at \in [1..n -> F] :
     /\ \A i, j \in 1..n : i < j => at[i] > at[j]
     /\ \A b \in F : b \in Range(at) \/ \A i \in 1..n : b < at[i]}

-----------------------------------------------------------------------------
(* The cache.                                                              *)

(* Variant: a write wakes the task and lets its pass count as clean.       *)
WriteKeepingPass(w) ==
  /\ cache' = [b \in Block |-> IF b \in DOMAIN w THEN w[b] ELSE cache[b]]
  /\ dirty' = dirty \cup {b \in DOMAIN w : w[b] # cache[b]}
  /\ clean' = FALSE
  /\ UNCHANGED <<chip, scan, cleanPass>>

(* Variant: a write passes over a block that waits already.                *)
WriteSkipsWaiting(w) ==
  /\ cache' = [b \in Block |-> IF b \in DOMAIN w \ dirty THEN w[b] ELSE cache[b]]
  /\ dirty' = dirty \cup {b \in DOMAIN w : w[b] # cache[b]}
  /\ clean' = FALSE /\ cleanPass' = FALSE
  /\ UNCHANGED <<chip, scan>>

(* Variant: a write does not wake the task.                                *)
WriteAsleep(w) ==
  /\ cache' = [b \in Block |-> IF b \in DOMAIN w THEN w[b] ELSE cache[b]]
  /\ dirty' = dirty \cup {b \in DOMAIN w : w[b] # cache[b]}
  /\ cleanPass' = FALSE
  /\ UNCHANGED <<chip, scan, clean>>

(* writeByteCached_ over whole blocks, w[b] the new content of block b.    *)
Write(w) ==
  /\ cache' = [b \in Block |-> IF b \in DOMAIN w THEN w[b] ELSE cache[b]]
  /\ dirty' = dirty \cup {b \in DOMAIN w : w[b] # cache[b]}
  /\ clean' = FALSE /\ cleanPass' = FALSE
  /\ UNCHANGED <<chip, scan>>

(* NvShimCached::poll, one block of its scan at a time.                    *)
Poll ==
  /\ on /\ ~clean
  /\ LET wrapped == scan + 1 \notin Block
         b == IF wrapped THEN 0 ELSE scan + 1
     IN /\ scan' = b
        /\ clean' = (wrapped /\ cleanPass)
        /\ cleanPass' = ((wrapped \/ cleanPass) /\ b \notin dirty)
        /\ chip' = IF b \in dirty THEN [chip EXCEPT ![b] = cache[b]] ELSE chip
        /\ dirty' = dirty \ {b}
  /\ UNCHANGED <<cache, on, bound, used, mapped, loaded, faults>>

-----------------------------------------------------------------------------
(* The store of settings.                                                  *)

Entry(k, at, v) == [name |-> k, at |-> at, val |-> v]

(* KvPartition16::put. The old entry's blocks are free before the new ones *)
(* are taken; a put that finds no room after that spoils the map.          *)
Store(k, v) ==
  \/ /\ ~(bound /\ mapped) \/ SlotFor(k) = {}
     /\ UNCHANGED <<shimVars, used, mapped>>
  \/ /\ bound /\ mapped
     /\ \E s \in SlotFor(k) :
          LET kept == used \ Blocks(cache, s)
              placed == Placements(Data \ kept, Cardinality(DOMAIN v.body))
          IN IF placed = {}
             THEN /\ used' = kept /\ mapped' = ~Valid(cache, s)
                  /\ UNCHANGED shimVars
             ELSE \E at \in placed :
                    /\ used' = kept \cup Range(at)
                    /\ Write([b \in {s} \cup Range(at) |->
                                IF b = s THEN Entry(k, at, v)
                                ELSE v.body[CHOOSE i \in DOMAIN at : at[i] = b]])
                    /\ UNCHANGED mapped

(* A component starts, in its turn: getOrInit gets its setting or puts the *)
(* default.                                                                *)
Load(k) ==
  /\ on /\ k \notin loaded /\ Before[k] \subseteq loaded
  /\ loaded' = loaded \cup {k}
  /\ IF bound /\ Live(cache, k) = {} THEN Store(k, Default[k])
     ELSE UNCHANGED <<shimVars, used, mapped>>
  /\ UNCHANGED <<on, bound, faults>>

(* A component puts a changed setting; commands are heard when all have    *)
(* started.                                                                *)
Save(k, v) ==
  /\ on /\ loaded = Key
  /\ Store(k, v)
  /\ UNCHANGED <<on, bound, loaded, faults>>

Fault == faults < MaxFaults /\ faults' = faults + 1

(* :ENVRESET#, NvVolume::invalidateNextMount: one bit of SB0's CRC is      *)
(* turned over.                                                            *)
Erase ==
  /\ on /\ Fault
  /\ Write([b \in {Names} |-> IF cache[b] = "good" THEN "bad" ELSE "good"])
  /\ UNCHANGED <<on, bound, used, mapped, loaded>>

-----------------------------------------------------------------------------
(* Starting and stopping.                                                  *)

(* Variants: the table is read from its second slot on, or data addresses  *)
(* are taken for block numbers.                                            *)
MapOfTable(image) == UNION {Blocks(image, s) : s \in Slot \ {First(Slot)}}
MapOfAddresses(image) ==
  {b - (SlotCount + 2) : b \in UNION {Blocks(image, s) : s \in Slot}}

(* initAllocMap_                                                           *)
MapOf(image) == UNION {Blocks(image, s) : s \in Slot}

(* formatAll: both super blocks, and every block of the partition.         *)
Formatted == [b \in Block |-> IF b \in Slot THEN NoEntry
                              ELSE IF b \in Data THEN Blank ELSE "good"]

(* Telescope::init: mount, or format and mount; then find the partition    *)
(* by its name and build the map.                                          *)
Boot ==
  /\ ~on /\ on' = TRUE
  /\ \/ /\ cache[Names] = "good"
        /\ bound' = (cache[PartNames] = "good")
        /\ used' = IF bound' THEN MapOf(cache) ELSE {}
        /\ UNCHANGED shimVars
     \/ /\ cache[Names] = "bad"
        /\ bound' = TRUE
        /\ used' = {}
        /\ Write(Formatted)
  /\ mapped' = bound'
  /\ UNCHANGED <<loaded, faults>>

(* RAM is lost. The shim starts again with nothing cached.                 *)
Lose(image) ==
  /\ chip' = image /\ cache' = image
  /\ dirty' = {} /\ scan' = -1 /\ clean' = FALSE /\ cleanPass' = TRUE
  /\ on' = FALSE /\ bound' = FALSE /\ used' = {} /\ mapped' = FALSE
  /\ loaded' = {}

(* :ERESET# waits for the bare device, which has never anything to wait    *)
(* for, not for the shim.                                                  *)
Reset == on /\ Fault /\ Lose(chip)

(* What a block may hold that was being written when power failed: the     *)
(* outcomes are the device's, outside this program.                        *)
Tears(b) ==
  IF b \in Slot THEN {TornEntry(n) : n \in {chip[b].name, cache[b].name, Junk} \ {Empty}}
  ELSE IF b \in Data THEN {Torn} ELSE {"bad"}

PowerFail ==
  on /\ Fault /\ \E b \in dirty : \E x \in Tears(b) : Lose([chip EXCEPT ![b] = x])

Init ==
  /\ chip = [Formatted EXCEPT ![Names] = "bad", ![PartNames] = "bad"]
  /\ cache = chip
  /\ dirty = {} /\ scan = -1 /\ clean = FALSE /\ cleanPass = TRUE
  /\ on = FALSE /\ bound = FALSE /\ used = {} /\ mapped = FALSE /\ loaded = {}
  /\ faults = 0 /\ astray = FALSE /\ cut = FALSE

(* The two history variables. A start builds the map again from whatever   *)
(* can be read, so that only what comes after it counts.                   *)
Watched ==
  /\ astray' = ((astray /\ on /\ on') \/ Clash(cache'))
  /\ cut' = (cut \/ (on /\ ~on' /\ dirty # {}))

Step ==
  \/ Boot \/ Poll \/ Erase \/ Reset \/ PowerFail
  \/ \E k \in Key : Load(k) \/ \E v \in Value[k] : Save(k, v)

Next == Step /\ Watched

Spec == Init /\ [][Next]_vars /\ WF_vars(Poll /\ Watched)

-----------------------------------------------------------------------------
(* Types of the store, its cache and its map: the map is of data blocks,   *)
(* and so is every entry of the table of names.                            *)
TypeOK ==
  /\ DOMAIN chip = Block /\ DOMAIN cache = Block
  /\ \A s \in Slot : Range(chip[s].at) \cup Range(cache[s].at) \subseteq Data
  /\ dirty \subseteq Block /\ scan \in Block \cup {-1} /\ used \subseteq Data
  /\ {clean, cleanPass, on, bound, mapped, astray, cut} \subseteq BOOLEAN
  /\ loaded \subseteq Key /\ faults \in 0..MaxFaults

(* The service task sleeps only when nothing waits, and a block that does  *)
(* not wait reads the same from the device as from the cache: the bytes    *)
(* put while the task goes round are not passed over.                      *)
CleanAgrees ==
  /\ clean => dirty = {}
  /\ \A b \in Block \ dirty : chip[b] = cache[b]

(* The map of a store that can be written is what a scan of the table      *)
(* would make of it, through puts that fit, puts that do not, and          *)
(* failures: no block of a setting is free, and no free block is lost. The *)
(* exception is a store gone astray since it started.                      *)
MapExact ==
  bound /\ mapped /\ ~astray => used = UNION {Blocks(cache, s) : s \in Slot}

(* A store goes astray only when a failure has lost bytes that waited: by  *)
(* puts, formats, and resets once all is written back, no two settings     *)
(* come to share a block, and none is in the table twice.                  *)
AstrayAfterCut == astray => cut

(* A byte of a setting that waits to be written back is written back, or   *)
(* lost to a failure.                                                      *)
WrittenBack == \A b \in Slot \cup Data : []<>(b \notin dirty)

(* The settings the firmware can read.                                     *)
Now == [k \in Key |-> IF on /\ ~bound THEN None ELSE Stored(cache, k)]

(* A put that is carried out is what the next get returns, in a store that *)
(* it does not lead astray.                                                *)
Puts(k, v) == Save(k, v) \/ (v = Default[k] /\ Load(k))

PutReads ==
  [][cache' # cache /\ ~astray' =>
       \A k \in Key : \A v \in Value[k] : Puts(k, v) => Now'[k] = v]_vars

(* The settings that outlive a reset: entry and data blocks written back.  *)
Settled(k) ==
  LET live == Live(cache, k)
  IN live # {} /\ LET s == First(live) IN ({s} \cup Range(cache[s].at)) \cap dirty = {}

Sure == IF on /\ ~bound THEN {} ELSE {k \in Key : Settled(k)}

(* A block that describes the volume is spoiled, on the device or in RAM.  *)
Due == \E b \in {Names, PartNames} : {chip[b], cache[b]} # {"good"}

Promise == INSTANCE NvPromise WITH now <- Now, sure <- Sure, asked <- Due, void <- astray

(* Whatever is put, written back, lost or formatted in whatever order, the *)
(* settings change as NvPromise says: a put touches no other setting, what *)
(* is written back outlives resets, and no get returns a mixture of two    *)
(* puts. Only while two entries clash nothing is promised.                 *)
ImplementsPromise == Promise!Spec
=============================================================================
