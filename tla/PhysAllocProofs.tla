--------------------------- MODULE PhysAllocProofs ---------------------------
(***************************************************************************)
(* The kernel heap, for all sizes of its headers, all callers and every    *)
(* address.                                                                *)
(***************************************************************************)
EXTENDS PhysAllocProps, VectorTheorems, SequenceTheorems

-----------------------------------------------------------------------------
(* The operators of the model.                                             *)

LEMMA AlignUpRises ==
    ASSUME NEW a \in Nat, NEW alignment \in Nat \ {0}
    PROVE  /\ AlignUp(a, alignment) \in Nat
           /\ AlignUp(a, alignment) >= a
           /\ a % alignment # 0 => AlignUp(a, alignment) > a
<1>1. a % alignment \in 0 .. alignment - 1
  OBVIOUS
<1> DEFINE r == a % alignment
<1>2. r \in 0 .. alignment - 1
  BY <1>1
<1> HIDE DEF r
<1>3. IF r = 0 THEN a >= a ELSE a + (alignment - r) \in Nat /\ a + (alignment - r) > a
  BY <1>2
<1>4. AlignUp(a, alignment) = IF r = 0 THEN a ELSE a + (alignment - r)
  BY DEF AlignUp, r
<1> QED
  BY <1>3, <1>4 DEF r

LEMMA FunctionIsSeq ==
    ASSUME NEW S, NEW n \in Nat, NEW f \in [1 .. n -> S]
    PROVE  f \in Seq(S) /\ Len(f) = n
  OBVIOUS

LEMMA RemoveAtParts ==
    ASSUME NEW S, NEW s \in Seq(S), NEW i \in 1 .. Len(s)
    PROVE  /\ RemoveAt(s, i) \in Seq(S)
           /\ Len(RemoveAt(s, i)) = Len(s) - 1
           /\ \A k \in 1 .. Len(s) - 1 : RemoveAt(s, i)[k] = IF k < i THEN s[k] ELSE s[k + 1]
<1> DEFINE front == SubSeq(s, 1, i - 1)
           back == SubSeq(s, i + 1, Len(s))
<1>1. Len(s) \in Nat /\ i \in Nat /\ \A k \in 1 .. Len(s) : s[k] \in S
  OBVIOUS
<1>2. /\ front \in Seq(S) /\ Len(front) = i - 1
      /\ \A k \in 1 .. i - 1 : front[k] = s[k]
  <2>1. \A k \in 1 .. i - 1 : s[k] \in S
    BY <1>1
  <2> QED
    BY <1>1, <2>1, SubSeqProperties
<1>3. /\ back \in Seq(S) /\ Len(back) = Len(s) - i
      /\ \A k \in 1 .. Len(s) - i : back[k] = s[i + k]
  <2>1. \A k \in i + 1 .. Len(s) : s[k] \in S
    BY <1>1
  <2>2. i + 1 \in Int /\ Len(s) \in Int
    BY <1>1
  <2>3. /\ back \in Seq(S) /\ Len(back) = IF i + 1 <= Len(s) THEN Len(s) - (i + 1) + 1 ELSE 0
        /\ \A k \in 1 .. Len(s) - (i + 1) + 1 : back[k] = s[i + 1 + k - 1]
    BY <2>1, <2>2, SubSeqProperties
  <2> QED
    BY <1>1, <2>3
<1>4. RemoveAt(s, i) = front \o back
  BY DEF RemoveAt
<1> HIDE DEF front, back
<1>5. /\ front \o back \in Seq(S)
      /\ Len(front \o back) = Len(s) - 1
      /\ \A k \in 1 .. Len(s) - 1 :
            (front \o back)[k] = IF k <= i - 1 THEN front[k] ELSE back[k - (i - 1)]
  <2>1. Len(front) + Len(back) = Len(s) - 1
    BY <1>1, <1>2, <1>3
  <2>2. /\ front \o back \in Seq(S)
        /\ Len(front \o back) = Len(front) + Len(back)
        /\ \A k \in 1 .. Len(front) + Len(back) :
              (front \o back)[k] = IF k <= Len(front) THEN front[k] ELSE back[k - Len(front)]
    BY <1>2, <1>3, ConcatProperties
  <2> QED
    BY <1>2, <2>1, <2>2
<1>6. ASSUME NEW k \in 1 .. Len(s) - 1
      PROVE  (front \o back)[k] = IF k < i THEN s[k] ELSE s[k + 1]
  <2>1. CASE k < i
    BY <1>1, <1>2, <1>5, <2>1
  <2>2. CASE ~(k < i)
    <3>1. k - (i - 1) \in 1 .. Len(s) - i /\ i + (k - (i - 1)) = k + 1
      BY <1>1, <2>2
    <3> QED
      BY <1>1, <1>3, <1>5, <2>2, <3>1
  <2> QED
    BY <2>1, <2>2
<1> QED
  BY <1>4, <1>5, <1>6

(* Taking one header out of a list without repetitions.                    *)
LEMMA RemoveAtKeeps ==
    ASSUME NEW S, NEW s \in Seq(S), NEW i \in 1 .. Len(s), IsInjective(s)
    PROVE  /\ RemoveAt(s, i) \in Seq(S)
           /\ IsInjective(RemoveAt(s, i))
           /\ ToSet(RemoveAt(s, i)) = ToSet(s) \ {s[i]}
<1> DEFINE r == RemoveAt(s, i)
           Old(k) == IF k < i THEN k ELSE k + 1
<1>1. Len(s) \in Nat /\ i \in Nat /\ DOMAIN s = 1 .. Len(s)
  OBVIOUS
<1>2. r \in Seq(S) /\ Len(r) = Len(s) - 1 /\ \A k \in 1 .. Len(s) - 1 : r[k] = s[Old(k)]
  BY RemoveAtParts
<1> HIDE DEF r
<1>3. DOMAIN r = 1 .. Len(s) - 1
  BY <1>2
<1>4. \A k \in 1 .. Len(s) - 1 : Old(k) \in 1 .. Len(s) /\ Old(k) # i
  BY <1>1
<1>5. \A k, m \in 1 .. Len(s) - 1 : Old(k) = Old(m) => k = m
  BY <1>1
<1>6. \A k \in 1 .. Len(s) : k # i => \E m \in 1 .. Len(s) - 1 : Old(m) = k
  <2> TAKE k \in 1 .. Len(s)
  <2> HAVE k # i
  <2>1. CASE k < i
    <3>1. k \in 1 .. Len(s) - 1 /\ Old(k) = k
      BY <1>1, <2>1
    <3> QED
      BY <3>1
  <2>2. CASE k > i
    <3>1. k - 1 \in 1 .. Len(s) - 1 /\ Old(k - 1) = k
      BY <1>1, <2>2
    <3> QED
      BY <3>1
  <2> QED
    BY <1>1, <2>1, <2>2
<1> HIDE DEF Old
<1>7. IsInjective(r)
  BY <1>1, <1>2, <1>3, <1>4, <1>5 DEF IsInjective
<1>8. ToSet(r) \subseteq ToSet(s) \ {s[i]}
  <2> SUFFICES ASSUME NEW k \in 1 .. Len(s) - 1
               PROVE  r[k] \in ToSet(s) \ {s[i]}
    BY <1>3 DEF ToSet
  <2>1. Old(k) \in 1 .. Len(s) /\ Old(k) # i /\ r[k] = s[Old(k)]
    BY <1>2, <1>4
  <2> QED
    BY <1>1, <2>1 DEF IsInjective, ToSet
<1>9. ToSet(s) \ {s[i]} \subseteq ToSet(r)
  <2> SUFFICES ASSUME NEW k \in 1 .. Len(s), s[k] # s[i]
               PROVE  s[k] \in ToSet(r)
    BY <1>1 DEF ToSet
  <2>1. PICK m \in 1 .. Len(s) - 1 : Old(m) = k
    BY <1>6
  <2> QED
    BY <1>2, <1>3, <2>1 DEF ToSet
<1> QED
  BY <1>2, <1>7, <1>8, <1>9 DEF r

(* Putting a new one at the end.                                           *)
LEMMA AppendKeeps ==
    ASSUME NEW S, NEW s \in Seq(S), NEW x \in S
    PROVE  /\ Append(s, x) \in Seq(S)
           /\ ToSet(Append(s, x)) = ToSet(s) \cup {x}
           /\ IsInjective(s) /\ x \notin ToSet(s) => IsInjective(Append(s, x))
<1> DEFINE r == Append(s, x)
<1>1. Len(s) \in Nat /\ DOMAIN s = 1 .. Len(s)
  OBVIOUS
<1>2. /\ r \in Seq(S) /\ Len(r) = Len(s) + 1
      /\ \A k \in 1 .. Len(s) : r[k] = s[k]
      /\ r[Len(s) + 1] = x
  BY AppendProperties
<1> HIDE DEF r
<1>3. DOMAIN r = 1 .. Len(s) + 1
  BY <1>2
<1>4. DOMAIN r = 1 .. Len(s) \cup {Len(s) + 1}
  BY <1>1, <1>3
<1>5. ToSet(r) = ToSet(s) \cup {x}
  BY <1>1, <1>2, <1>4 DEF ToSet
<1>6. ASSUME IsInjective(s), x \notin ToSet(s)
      PROVE  IsInjective(r)
  BY <1>1, <1>2, <1>4, <1>6 DEF IsInjective, ToSet
<1> QED
  BY <1>2, <1>5, <1>6 DEF r

LEMMA SparedParts ==
    ASSUME NEW f, NEW length, NEW a, NEW n
    PROVE  /\ \A x : x \in DOMAIN Spared(f, length, a, n)
                        <=> x \in DOMAIN f /\ ~Overlap(x, length, a, n)
           /\ \A x \in DOMAIN Spared(f, length, a, n) : Spared(f, length, a, n)[x] = f[x]
BY DEF Spared

LEMMA WrittenParts ==
    ASSUME NEW f, NEW length, NEW h, NEW value, NEW b
    PROVE  /\ \A x : x \in DOMAIN Written(f, length, h, value, b)
                        <=> /\ x = h \/ (x \in DOMAIN f /\ ~Overlap(x, length, h, length))
                            /\ ~Overlap(x, length, b.at, b.size)
           /\ \A x \in DOMAIN Written(f, length, h, value, b) :
                 Written(f, length, h, value, b)[x] = IF x = h THEN value ELSE f[x]
<1> DEFINE g == [x \in DOMAIN Spared(f, length, h, length) \cup {h} |->
                   IF x = h THEN value ELSE f[x]]
<1>1. Written(f, length, h, value, b) = Spared(g, length, b.at, b.size)
  BY DEF Written
<1>2. \A x : x \in DOMAIN g <=> x = h \/ (x \in DOMAIN f /\ ~Overlap(x, length, h, length))
  BY SparedParts
<1>3. \A x \in DOMAIN g : g[x] = IF x = h THEN value ELSE f[x]
  OBVIOUS
<1> HIDE DEF g
<1>4. /\ \A x : x \in DOMAIN Spared(g, length, b.at, b.size)
                   <=> x \in DOMAIN g /\ ~Overlap(x, length, b.at, b.size)
      /\ \A x \in DOMAIN Spared(g, length, b.at, b.size) :
            Spared(g, length, b.at, b.size)[x] = g[x]
  BY DEF Spared
<1> QED
  BY <1>1, <1>2, <1>3, <1>4
-----------------------------------------------------------------------------
(* The invariant.  A header, that of a block held or of one in the free    *)
(* list, may have been written over; then it is no longer in the domain of *)
(* BlockSize, but it is where it was.                                      *)
Headers == HeldHeaders \cup ToSet(FreeList)

Blocks == [at : Nat, size : Nat \ {0}, alignment : Nat]

Types ==
    /\ callers \in Callers
    /\ HeapHead \in Begin .. Limit
    /\ FreeList \in Seq(Nat) /\ FreeAlignedList \in Seq(Nat)
    /\ live \subseteq Blocks
    /\ \A b \in live : b.size \in Sizes /\ b.alignment \in Alignments \cup {0}
    /\ broken \in BOOLEAN

(* Everything lies between the start of the region and HeapHead.           *)
Within ==
    /\ \A h \in Headers : h \in Nat /\ Begin <= h /\ h + BlockHdr <= HeapHead
    /\ \A h \in DOMAIN BlockSize :
          /\ h \in Headers
          /\ BlockSize[h] \in Nat \ {0}
          /\ h + BlockHdr + BlockSize[h] <= HeapHead
    /\ \A h \in ToSet(FreeAlignedList) \cup DOMAIN Trailer : h \in 0 .. HeapHead
    /\ \A b \in live : b.alignment # 0 =>
          /\ Begin <= b.at
          /\ (\A a \in Alignments : Begin % a # 0) => Begin < b.at
          /\ b.at + b.size + AlignedHdr <= HeapHead

(* SplitBlocks puts the new header less than the old size behind the old   *)
(* header, and up to there no other header is found: it makes one block    *)
(* more and never a header where one is.                                   *)
Separate ==
    /\ \A h \in DOMAIN BlockSize, p \in Headers : p # h => p < h \/ h + BlockSize[h] <= p
    /\ HeldOrFree
    /\ \A b, c \in live : b.alignment = 0 /\ c.alignment = 0 /\ b.at = c.at => b = c

HeapInv == Types /\ Within /\ Separate

(* For the callers that the heap serves well, the blocks with their        *)
(* headers do not touch each other, and all headers are intact.            *)
Apart(a, n, b, m) == a + n <= b \/ b + m <= a

Tidy ==
    /\ Headers \subseteq DOMAIN BlockSize
    /\ \A b \in live : b.alignment = 0 => BlockSize[b.at - BlockHdr] = b.size
    /\ \A h, k \in DOMAIN BlockSize :
          h # k => Apart(h, BlockHdr + BlockSize[h], k, BlockHdr + BlockSize[k])
    /\ \A h \in DOMAIN BlockSize, b \in live :
          b.alignment # 0 => Apart(h, BlockHdr + BlockSize[h], b.at, b.size + AlignedHdr)
    /\ \A b, c \in live :
          b.alignment # 0 /\ c.alignment # 0 /\ b # c
              => Apart(b.at, b.size + AlignedHdr, c.at, c.size + AlignedHdr)

OneSize == Cardinality(Sizes) = 1

TameInv ==
    /\ "Free" \notin Calls => FreeList = <<>>
    /\ "AlignedFree" \notin Calls => FreeAlignedList = <<>>
    /\ OneSize => \A h \in DOMAIN BlockSize : BlockSize[h] \in Sizes
    /\ Tame => Tidy
    /\ OneSize /\ "AlignedFree" \notin Calls => ~broken

-----------------------------------------------------------------------------
(* What the callers' habits are, and what follows of the invariant.        *)
LEMMA CallersParts ==
    ASSUME callers \in Callers
    PROVE  /\ Begin \in Nat \ {0} /\ BlockHdr \in Nat \ {0} /\ AlignedHdr \in Nat \ {0}
           /\ Limit \in Nat /\ Begin <= Limit
           /\ Sizes \subseteq Nat \ {0} /\ Alignments \subseteq Nat \ {0}
           /\ IsFiniteSet(Sizes)
BY HeapAssumption DEF Limit, Sizes, Alignments

LEMMA OnlySize ==
    ASSUME callers \in Callers, OneSize, NEW x \in Sizes, NEW y \in Sizes
    PROVE  x = y
BY CallersParts, FS_Singleton DEF OneSize

LEMMA InvImpliesTypeOK == HeapInv => TypeOK
<1> SUFFICES ASSUME HeapInv PROVE TypeOK
  OBVIOUS
<1>1. Types /\ Within /\ HeapHead \in Nat /\ HeapHead <= Limit /\ Limit \in Nat /\ BlockHdr \in Nat
  BY CallersParts DEF HeapInv, Types
<1>2. \A h \in ToSet(FreeList) : h \in Addresses
  BY <1>1 DEF Within, Headers, Addresses
<1>3. \A h \in ToSet(FreeAlignedList) \cup DOMAIN Trailer : h \in Addresses
  BY <1>1 DEF Within, Addresses
<1>4. \A h \in DOMAIN BlockSize : h \in Addresses /\ BlockSize[h] \in Nat \ {0}
  BY <1>1 DEF Within, Addresses, Headers
<1> QED
  BY <1>1, <1>2, <1>3, <1>4 DEF Types, TypeOK

LEMMA InitHeapInv == Init => HeapInv /\ TameInv
<1> SUFFICES ASSUME Init PROVE HeapInv /\ TameInv
  OBVIOUS
<1>1. /\ Begin \in Nat \ {0} /\ BlockHdr \in Nat \ {0} /\ Limit \in Nat /\ Begin <= Limit
      /\ callers \in Callers
  BY CallersParts DEF Init
<1>2. /\ HeapHead = Begin /\ FreeList = <<>> /\ FreeAlignedList = <<>> /\ live = {}
      /\ broken = FALSE
  BY DEF Init
<1>3. DOMAIN BlockSize = {} /\ DOMAIN Trailer = {}
  BY DEF Init
<1>4. <<>> \in Seq(Nat) /\ DOMAIN <<>> = {} /\ ToSet(<<>>) = {} /\ IsInjective(<<>>)
  <2>1. <<>> \in Seq(Nat) /\ DOMAIN <<>> = {}
    OBVIOUS
  <2> QED
    BY <2>1 DEF ToSet, IsInjective
<1>5. HeldHeaders = {} /\ Headers = {}
  BY <1>2, <1>4 DEF HeldHeaders, Headers
<1>6. Types
  <2>1. HeapHead \in Begin .. Limit
    BY <1>1, <1>2, CallersParts
  <2> QED
    BY <1>1, <1>2, <1>4, <2>1 DEF Types
<1>7. Within
  <2>1. ToSet(FreeAlignedList) \cup DOMAIN Trailer = {}
    BY <1>2, <1>3, <1>4
  <2> QED
    BY <1>2, <1>3, <1>5, <2>1 DEF Within
<1>9. Separate
  <2>1. HeldOrFree
    BY <1>2, <1>4, <1>5 DEF HeldOrFree
  <2> QED
    BY <1>2, <1>3, <2>1 DEF Separate
<1>8. TameInv
  BY <1>2, <1>3, <1>5 DEF TameInv, Tidy
<1> QED
  BY <1>6, <1>7, <1>8, <1>9 DEF HeapInv

(* The bump pointer.                                                       *)
LEMMA BumpKeeps ==
    ASSUME HeapInv, TameInv, NEW bytes \in Sizes, Bump(bytes), UNCHANGED callers
    PROVE  HeapInv' /\ TameInv'
<1> DEFINE b == Block(HeapHead + BlockHdr, bytes, 0)
<1>0. /\ BlockHdr \in Nat \ {0} /\ AlignedHdr \in Nat \ {0} /\ Begin \in Nat /\ Limit \in Nat
      /\ HeapHead \in Nat /\ Begin <= HeapHead /\ bytes \in Nat \ {0}
      /\ Types /\ Within /\ Separate
  BY CallersParts DEF HeapInv, Types
<1>1. /\ HeapHead' = HeapHead + bytes + BlockHdr /\ HeapHead + BlockHdr + bytes <= Limit
      /\ BlockSize' = Written(BlockSize, BlockHdr, HeapHead, bytes, b)
      /\ live' = live \cup {b}
      /\ UNCHANGED <<FreeList, FreeAlignedList, Trailer, broken>>
  BY DEF Bump
<1>2. /\ b.at = HeapHead + BlockHdr /\ b.size = bytes /\ b.alignment = 0
      /\ b \in Blocks
  BY <1>0 DEF Block, Blocks
<1> HIDE DEF b
<1>3. UNCHANGED <<Limit, Sizes, Alignments, Calls>>
  BY DEF Limit, Sizes, Alignments, Calls
<1>4. \A h \in Headers : h \in Nat /\ Begin <= h /\ h + BlockHdr <= HeapHead
  BY <1>0 DEF Within
<1>5. /\ DOMAIN BlockSize' = DOMAIN BlockSize \cup {HeapHead}
      /\ BlockSize'[HeapHead] = bytes
      /\ \A h \in DOMAIN BlockSize : BlockSize'[h] = BlockSize[h] /\ h # HeapHead
  <2>1. \A h \in DOMAIN BlockSize : /\ ~Overlap(h, BlockHdr, HeapHead, BlockHdr)
                                    /\ ~Overlap(h, BlockHdr, b.at, b.size)
                                    /\ h # HeapHead
    BY <1>0, <1>2, <1>4 DEF Within, Overlap
  <2>2. ~Overlap(HeapHead, BlockHdr, b.at, b.size)
    BY <1>0, <1>2 DEF Overlap
  <2>3. PICK g : g = Written(BlockSize, BlockHdr, HeapHead, bytes, b)
    OBVIOUS
  <2>4. /\ \A x : x \in DOMAIN g
                     <=> /\ \/ x = HeapHead
                            \/ x \in DOMAIN BlockSize /\ ~Overlap(x, BlockHdr, HeapHead, BlockHdr)
                         /\ ~Overlap(x, BlockHdr, b.at, b.size)
        /\ \A x \in DOMAIN g : g[x] = IF x = HeapHead THEN bytes ELSE BlockSize[x]
    BY <2>3, WrittenParts
  <2> QED
    BY <1>1, <2>1, <2>2, <2>3, <2>4
<1>6. HeldHeaders' = HeldHeaders \cup {HeapHead} /\ Headers' = Headers \cup {HeapHead}
  <2>1. b.at - BlockHdr = HeapHead
    BY <1>0, <1>2
  <2>2. HeldHeaders' = HeldHeaders \cup {HeapHead}
    BY <1>1, <1>2, <2>1 DEF HeldHeaders
  <2> QED
    BY <1>1, <2>2 DEF Headers
<1>7. HeapHead \notin Headers
  BY <1>0, <1>4
<1>8. Types'
  BY <1>0, <1>1, <1>2, <1>3 DEF Types
<1>9. Within'
  <2>1. \A h \in Headers' : h \in Nat /\ Begin <= h /\ h + BlockHdr <= HeapHead'
    BY <1>0, <1>1, <1>4, <1>6
  <2>2. \A h \in DOMAIN BlockSize' :
          /\ h \in Headers'
          /\ BlockSize'[h] \in Nat \ {0}
          /\ h + BlockHdr + BlockSize'[h] <= HeapHead'
    <3> TAKE h \in DOMAIN BlockSize'
    <3>1. CASE h = HeapHead
      BY <1>0, <1>1, <1>5, <1>6, <3>1
    <3>2. CASE h # HeapHead
      <4>1. /\ h \in DOMAIN BlockSize /\ BlockSize'[h] = BlockSize[h] /\ h \in Nat
            /\ h \in Headers /\ BlockSize[h] \in Nat \ {0}
            /\ h + BlockHdr + BlockSize[h] <= HeapHead
        BY <1>0, <1>4, <1>5, <3>2 DEF Within
      <4> QED
        BY <1>0, <1>1, <1>6, <4>1
    <3> QED
      BY <3>1, <3>2
  <2>3. \A h \in ToSet(FreeAlignedList)' \cup DOMAIN Trailer' : h \in 0 .. HeapHead'
    BY <1>0, <1>1 DEF Within
  <2>4. \A c \in live' : c.alignment # 0 =>
          /\ Begin <= c.at
          /\ (\A a \in Alignments' : Begin % a # 0) => Begin < c.at
          /\ c.at + c.size + AlignedHdr <= HeapHead'
    <3> TAKE c \in live'
    <3> HAVE c.alignment # 0
    <3>1. c \in live /\ c \in Blocks
      BY <1>0, <1>1, <1>2 DEF Types
    <3>2. /\ Begin <= c.at
          /\ (\A a \in Alignments : Begin % a # 0) => Begin < c.at
          /\ c.at + c.size + AlignedHdr <= HeapHead
      BY <1>0, <3>1 DEF Within
    <3>3. c.at \in Nat /\ c.size \in Nat
      BY <3>1 DEF Blocks
    <3> QED
      BY <1>0, <1>1, <1>3, <3>2, <3>3
  <2> QED
    BY <2>1, <2>2, <2>3, <2>4 DEF Within
<1>10. Separate'
  <2>1. \A h \in DOMAIN BlockSize', p \in Headers' : p # h => p < h \/ h + BlockSize'[h] <= p
    <3> TAKE h \in DOMAIN BlockSize', p \in Headers'
    <3> HAVE p # h
    <3>1. CASE h = HeapHead
      BY <1>0, <1>4, <1>6, <3>1
    <3>2. CASE h # HeapHead /\ p = HeapHead
      <4>1. /\ h \in DOMAIN BlockSize /\ BlockSize'[h] = BlockSize[h] /\ h \in Nat
            /\ BlockSize[h] \in Nat \ {0} /\ h + BlockHdr + BlockSize[h] <= HeapHead
        BY <1>0, <1>4, <1>5, <3>2 DEF Within
      <4> QED
        BY <1>0, <3>2, <4>1
    <3>3. CASE h # HeapHead /\ p # HeapHead
      BY <1>0, <1>5, <1>6, <3>3 DEF Separate
    <3> QED
      BY <3>1, <3>2, <3>3
  <2>2. HeldOrFree'
    BY <1>0, <1>1, <1>6, <1>7 DEF Separate, HeldOrFree, Headers
  <2>3. \A c, d \in live' : c.alignment = 0 /\ d.alignment = 0 /\ c.at = d.at => c = d
    <3>1. \A c \in live : c.alignment = 0 => c.at # b.at
      <4> SUFFICES ASSUME NEW c \in live, c.alignment = 0, c.at = b.at PROVE FALSE
        OBVIOUS
      <4>1. c.at - BlockHdr \in Headers
        BY DEF Headers, HeldHeaders
      <4>2. c.at - BlockHdr = HeapHead
        BY <1>0, <1>2
      <4> QED
        BY <1>7, <4>1, <4>2
    <3> QED
      BY <1>0, <1>1, <3>1 DEF Separate
  <2> QED
    BY <2>1, <2>2, <2>3 DEF Separate
<1>11. TameInv'
  <2>1. Tidy => Tidy'
    <3> SUFFICES ASSUME Tidy PROVE Tidy'
      OBVIOUS
    <3>1. Headers' \subseteq DOMAIN BlockSize'
      BY <1>5, <1>6 DEF Tidy
    <3>2. \A c \in live' : c.alignment = 0 => BlockSize'[c.at - BlockHdr] = c.size
      <4>1. b.at - BlockHdr = HeapHead
        BY <1>0, <1>2
      <4>2. \A c \in live : c.alignment = 0 => c.at - BlockHdr \in DOMAIN BlockSize
        BY DEF Tidy, Headers, HeldHeaders
      <4> QED
        BY <1>1, <1>2, <1>5, <4>1, <4>2 DEF Tidy
    <3>3. \A h \in DOMAIN BlockSize : /\ h \in Nat /\ BlockSize[h] \in Nat
                                      /\ h + BlockHdr + BlockSize[h] <= HeapHead
      BY <1>0, <1>4 DEF Within
    <3>4. \A h, k \in DOMAIN BlockSize' :
            h # k => Apart(h, BlockHdr + BlockSize'[h], k, BlockHdr + BlockSize'[k])
      <4> TAKE h, k \in DOMAIN BlockSize'
      <4> HAVE h # k
      <4>1. CASE h # HeapHead /\ k # HeapHead
        BY <1>5, <4>1 DEF Tidy
      <4>2. CASE h = HeapHead
        <5>1. k \in DOMAIN BlockSize /\ BlockSize'[k] = BlockSize[k]
          BY <1>5, <4>2
        <5>2. k + (BlockHdr + BlockSize[k]) <= HeapHead
          BY <1>0, <3>3, <5>1
        <5> QED
          BY <4>2, <5>1, <5>2 DEF Apart
      <4>3. CASE k = HeapHead
        <5>1. h \in DOMAIN BlockSize /\ BlockSize'[h] = BlockSize[h]
          BY <1>5, <4>3
        <5>2. h + (BlockHdr + BlockSize[h]) <= HeapHead
          BY <1>0, <3>3, <5>1
        <5> QED
          BY <4>3, <5>1, <5>2 DEF Apart
      <4> QED
        BY <4>1, <4>2, <4>3
    <3>5. \A c \in live' : c.alignment # 0 => c \in live /\ c.at + (c.size + AlignedHdr) <= HeapHead
      <4> SUFFICES ASSUME NEW c \in live', c.alignment # 0
                   PROVE  c \in live /\ c.at + (c.size + AlignedHdr) <= HeapHead
        OBVIOUS
      <4>1. c \in live /\ c \in Blocks /\ c.at + c.size + AlignedHdr <= HeapHead
        BY <1>0, <1>1, <1>2 DEF Types, Within
      <4>2. c.at \in Nat /\ c.size \in Nat
        BY <4>1 DEF Blocks
      <4> QED
        BY <1>0, <4>1, <4>2
    <3>6. \A h \in DOMAIN BlockSize', c \in live' :
            c.alignment # 0 => Apart(h, BlockHdr + BlockSize'[h], c.at, c.size + AlignedHdr)
      <4> TAKE h \in DOMAIN BlockSize', c \in live'
      <4> HAVE c.alignment # 0
      <4>1. CASE h # HeapHead
        BY <1>5, <3>5, <4>1 DEF Tidy
      <4>2. CASE h = HeapHead
        BY <3>5, <4>2 DEF Apart
      <4> QED
        BY <4>1, <4>2
    <3>7. \A c, d \in live' :
            c.alignment # 0 /\ d.alignment # 0 /\ c # d
                => Apart(c.at, c.size + AlignedHdr, d.at, d.size + AlignedHdr)
      BY <3>5 DEF Tidy
    <3> QED
      BY <3>1, <3>2, <3>4, <3>6, <3>7 DEF Tidy
  <2>2. (Tame' <=> Tame) /\ (OneSize' <=> OneSize)
    BY <1>3 DEF Tame, OneSize
  <2>3. OneSize => \A h \in DOMAIN BlockSize' : BlockSize'[h] \in Sizes
    BY <1>5 DEF TameInv
  <2> QED
    BY <1>1, <1>3, <2>1, <2>2, <2>3 DEF TameInv
<1> QED
  BY <1>8, <1>9, <1>10, <1>11 DEF HeapInv

(* The block that a search of a list that is not empty ends with.          *)
LEMMA FoundIsIn ==
    ASSUME NEW bytes, FreeList \in Seq(Nat), FreeList # <<>>
    PROVE  Found(bytes) \in 1 .. Len(FreeList) /\ FreeList[Found(bytes)] \in ToSet(FreeList)
<1> DEFINE fits == {i \in 1 .. Len(FreeList) - 1 : BlockSize[FreeList[i]] >= bytes}
<1>1. Len(FreeList) \in Nat /\ Len(FreeList) >= 1 /\ DOMAIN FreeList = 1 .. Len(FreeList)
  OBVIOUS
<1>2. Found(bytes) = IF fits = {} THEN Len(FreeList) ELSE First(fits)
  BY DEF Found
<1>3. fits # {} => First(fits) \in fits
  <2> HAVE fits # {}
  <2>1. fits \in SUBSET (0 .. Len(FreeList) - 1)
    BY <1>1
  <2> HIDE DEF fits
  <2> QED
    BY <1>1, <2>1, FirstIsFirst
<1>4. Found(bytes) \in 1 .. Len(FreeList)
  <2>1. \A i \in fits : i \in 1 .. Len(FreeList)
    BY <1>1
  <2> HIDE DEF fits
  <2> QED
    BY <1>1, <1>2, <1>3, <2>1
<1> QED
  BY <1>1, <1>4 DEF ToSet

(* For callers of one size no walk over the free list goes astray, and no  *)
(* block is split.                                                         *)
LEMMA OneSizeIsSafe ==
    ASSUME HeapInv, TameInv, OneSize, NEW bytes \in Sizes
    PROVE  Walkable(FreeList, BlockSize) /\ (FreeList # <<>> => ~Splits(bytes))
<1>0. /\ BlockHdr \in Nat \ {0} /\ callers \in Callers /\ Sizes \subseteq Nat \ {0}
      /\ FreeList \in Seq(Nat)
  BY CallersParts DEF HeapInv, Types
<1>1. Tidy
  BY DEF TameInv, Tame, OneSize
<1>2. \A i \in DOMAIN FreeList : FreeList[i] \in DOMAIN BlockSize
  BY <1>1 DEF Tidy, Headers, ToSet
<1>3. Walkable(FreeList, BlockSize)
  BY <1>2 DEF Walkable
<1>4. ASSUME FreeList # <<>> PROVE ~Splits(bytes)
  <2>1. FreeList[Found(bytes)] \in DOMAIN BlockSize
    BY <1>0, <1>1, <1>4, FoundIsIn DEF Tidy, Headers
  <2>2. BlockSize[FreeList[Found(bytes)]] \in Sizes
    BY <2>1 DEF TameInv
  <2>3. BlockSize[FreeList[Found(bytes)]] = bytes
    BY <1>0, <2>2, OnlySize
  <2>4. ~(bytes - bytes > BlockHdr)
    BY <1>0
  <2> QED
    BY <2>3, <2>4 DEF Splits
<1> QED
  BY <1>3, <1>4

(* A walk that goes astray.                                                *)
LEMMA BreaksKeep ==
    ASSUME HeapInv, TameInv, Breaks, UNCHANGED callers,
           ~(OneSize /\ "AlignedFree" \notin Calls)
    PROVE  HeapInv' /\ TameInv'
<1>1. /\ broken' = TRUE
      /\ UNCHANGED <<HeapHead, FreeList, FreeAlignedList, BlockSize, Trailer, live, callers>>
  BY DEF Breaks, heap
<1>2. UNCHANGED <<Limit, Sizes, Alignments, Calls, HeldHeaders>>
  BY <1>1 DEF Limit, Sizes, Alignments, Calls, HeldHeaders
<1>3. UNCHANGED Headers
  BY <1>1, <1>2 DEF Headers
<1>4. Types'
  BY <1>1, <1>2 DEF HeapInv, Types
<1>5. Within'
  BY <1>1, <1>2, <1>3 DEF HeapInv, Within
<1>6. Separate'
  BY <1>1, <1>2, <1>3 DEF HeapInv, Separate, HeldOrFree
<1>7. Tidy => Tidy'
  BY <1>1, <1>3 DEF Tidy
<1>8. (Tame' <=> Tame) /\ (OneSize' <=> OneSize)
  BY <1>2 DEF Tame, OneSize
<1>9. TameInv'
  BY <1>1, <1>2, <1>7, <1>8 DEF TameInv
<1> QED
  BY <1>4, <1>5, <1>6, <1>9 DEF HeapInv

(* pm::Free.                                                               *)
LEMMA FreeKeeps ==
    ASSUME HeapInv, TameInv, NEW b \in live, Free(b), UNCHANGED callers
    PROVE  HeapInv' /\ TameInv'
<1> DEFINE h == b.at - BlockHdr
<1>0. /\ BlockHdr \in Nat \ {0} /\ AlignedHdr \in Nat \ {0} /\ Begin \in Nat /\ Limit \in Nat
      /\ Types /\ Within /\ Separate /\ b \in Blocks /\ b.alignment = 0 /\ "Free" \in Calls
  BY CallersParts DEF HeapInv, Types, Free
<1>1. CASE ~Walkable(FreeList, BlockSize) /\ Breaks
  <2>1. PICK bytes \in Sizes : bytes = b.size
    BY <1>0 DEF Types
  <2>2. ~OneSize
    BY <1>1, <2>1, OneSizeIsSafe
  <2> QED
    BY <1>1, <2>2, BreaksKeep
<1>2. CASE /\ FreeList' = Append(FreeList, h)
           /\ live' = live \ {b}
           /\ UNCHANGED <<HeapHead, FreeAlignedList, BlockSize, Trailer, broken>>
  <2>1. h \in HeldHeaders /\ h \in Nat /\ h \notin ToSet(FreeList)
    <3>1. h \in HeldHeaders
      BY <1>0 DEF HeldHeaders
    <3> QED
      BY <1>0, <3>1 DEF Within, Headers, Separate, HeldOrFree
  <2>2. HeldHeaders' = HeldHeaders \ {h}
    <3>1. \A c \in live : c.alignment = 0 /\ c.at - BlockHdr = h => c = b
      <4> SUFFICES ASSUME NEW c \in live, c.alignment = 0, c.at - BlockHdr = h PROVE c = b
        OBVIOUS
      <4>1. c.at \in Nat /\ b.at \in Nat
        BY <1>0 DEF Types, Blocks
      <4>2. c.at = b.at
        BY <1>0, <4>1
      <4> QED
        BY <1>0, <4>2 DEF Separate
    <3> QED
      BY <1>0, <1>2, <3>1 DEF HeldHeaders
  <2> HIDE DEF h
  <2>3. /\ FreeList' \in Seq(Nat)
        /\ ToSet(FreeList)' = ToSet(FreeList) \cup {h}
        /\ IsInjective(FreeList)'
    <3>1. FreeList \in Seq(Nat) /\ IsInjective(FreeList) /\ h \in Nat /\ h \notin ToSet(FreeList)
      BY <1>0, <2>1 DEF Types, Separate, HeldOrFree
    <3>2. PICK s : s = FreeList'
      OBVIOUS
    <3>3. s \in Seq(Nat) /\ ToSet(s) = ToSet(FreeList) \cup {h} /\ IsInjective(s)
      BY <1>2, <3>1, <3>2, AppendKeeps
    <3>4. ToSet(FreeList)' = ToSet(s) /\ IsInjective(FreeList)' = IsInjective(s)
      BY <3>2 DEF ToSet, IsInjective
    <3> QED
      BY <3>2, <3>3, <3>4
  <2>4. UNCHANGED <<Limit, Sizes, Alignments, Calls, Headers>>
    BY <2>1, <2>2, <2>3 DEF Limit, Sizes, Alignments, Calls, Headers
  <2>5. Types'
    BY <1>0, <1>2, <2>3, <2>4 DEF Types
  <2>6. Within'
    BY <1>0, <1>2, <2>4 DEF Within
  <2>7. Separate'
    <3>1. HeldOrFree'
      BY <1>0, <2>2, <2>3 DEF Separate, HeldOrFree
    <3> QED
      BY <1>0, <1>2, <2>4, <3>1 DEF Separate
  <2>8. Tidy => Tidy'
    BY <1>2, <2>4 DEF Tidy
  <2>9. (Tame' <=> Tame) /\ (OneSize' <=> OneSize)
    BY <2>4 DEF Tame, OneSize
  <2>10. TameInv'
    BY <1>0, <1>2, <2>4, <2>8, <2>9 DEF TameInv
  <2> QED
    BY <2>5, <2>6, <2>7, <2>10 DEF HeapInv
<1> QED
  BY <1>1, <1>2 DEF Free

(* pm::AlignedFree.                                                        *)
LEMMA AlignedFreeKeeps ==
    ASSUME HeapInv, TameInv, NEW b \in live, AlignedFree(b), UNCHANGED callers
    PROVE  HeapInv' /\ TameInv'
<1>0. /\ AlignedHdr \in Nat \ {0} /\ Begin \in Nat /\ Limit \in Nat
      /\ Types /\ Within /\ Separate /\ b \in Blocks /\ b.alignment # 0
      /\ "AlignedFree" \in Calls
  BY CallersParts DEF HeapInv, Types, AlignedFree
<1>1. CASE ~Walkable(FreeAlignedList, Trailer) /\ Breaks
  BY <1>0, <1>1, BreaksKeep
<1>2. CASE /\ FreeAlignedList' = Append(FreeAlignedList, b.at + b.size)
           /\ live' = live \ {b}
           /\ UNCHANGED <<HeapHead, FreeList, BlockSize, Trailer, broken>>
  <2>1. UNCHANGED <<Limit, Sizes, Alignments, Calls, HeldHeaders>>
    BY <1>0, <1>2 DEF Limit, Sizes, Alignments, Calls, HeldHeaders
  <2>2. UNCHANGED Headers
    BY <1>2, <2>1 DEF Headers
  <2>3. b.at + b.size \in Nat /\ b.at + b.size <= HeapHead /\ HeapHead \in Nat
    <3>1. /\ b.at \in Nat /\ b.size \in Nat /\ b.at + b.size + AlignedHdr <= HeapHead
          /\ HeapHead \in Nat
      BY <1>0 DEF Within, Blocks, Types
    <3> QED
      BY <1>0, <3>1
  <2>4. /\ FreeAlignedList' \in Seq(Nat)
        /\ ToSet(FreeAlignedList)' = ToSet(FreeAlignedList) \cup {b.at + b.size}
    <3>1. FreeAlignedList \in Seq(Nat)
      BY <1>0 DEF Types
    <3>2. PICK s : s = FreeAlignedList'
      OBVIOUS
    <3>3. PICK x \in Nat : x = b.at + b.size
      BY <2>3
    <3>4. s \in Seq(Nat) /\ ToSet(s) = ToSet(FreeAlignedList) \cup {x}
      BY <1>2, <3>1, <3>2, <3>3, AppendKeeps
    <3>5. ToSet(FreeAlignedList)' = ToSet(s)
      BY <3>2 DEF ToSet
    <3> QED
      BY <3>2, <3>3, <3>4, <3>5
  <2>5. Types'
    BY <1>0, <1>2, <2>1, <2>4 DEF Types
  <2>6. Within'
    <3>1. \A h \in ToSet(FreeAlignedList)' \cup DOMAIN Trailer' : h \in 0 .. HeapHead'
      BY <1>0, <1>2, <2>3, <2>4 DEF Within
    <3> QED
      BY <1>0, <1>2, <2>1, <2>2, <3>1 DEF Within
  <2>7. Separate'
    BY <1>0, <1>2, <2>1, <2>2 DEF Separate, HeldOrFree
  <2>8. Tidy => Tidy'
    BY <1>2, <2>2 DEF Tidy
  <2>9. (Tame' <=> Tame) /\ (OneSize' <=> OneSize)
    BY <2>1 DEF Tame, OneSize
  <2>10. TameInv'
    BY <1>0, <1>2, <2>1, <2>8, <2>9 DEF TameInv
  <2> QED
    BY <2>5, <2>6, <2>7, <2>10 DEF HeapInv
<1> QED
  BY <1>1, <1>2 DEF AlignedFree

(* What AlignedAlloc leaves in its free list was there before.             *)
LEMMA SearchedParts ==
    ASSUME NEW bytes, NEW alignment, FreeAlignedList \in Seq(Nat)
    PROVE  /\ Searched(bytes, alignment) \in Seq(Nat)
           /\ ToSet(Searched(bytes, alignment)) \subseteq ToSet(FreeAlignedList)
           /\ FreeAlignedList = <<>> => Searched(bytes, alignment) = <<>>
<1> DEFINE n == Len(FreeAlignedList)
           kept == {i \in 1 .. n : i < n => ~Discards(FreeAlignedList[i], bytes, alignment)}
           At(k) == CHOOSE i \in kept : Rank(kept, i) = k - 1
           T == ToSet(FreeAlignedList)
<1>1. n \in Nat /\ \A i \in 1 .. n : FreeAlignedList[i] \in T /\ FreeAlignedList[i] \in Nat
  BY DEF ToSet
<1>2. Searched(bytes, alignment) = [k \in 1 .. Cardinality(kept) |-> FreeAlignedList[At(k)]]
  BY DEF Searched
<1>3. kept \in SUBSET (0 .. (n + 1) - 1) /\ kept \subseteq 1 .. n /\ n + 1 \in Nat
  BY <1>1
<1> HIDE DEF kept, n
<1>4. IsFiniteSet(kept) /\ Cardinality(kept) \in Nat
  BY <1>3, CountFromZero, FS_Subset, FS_CardinalityType
<1>5. \A k \in 1 .. Cardinality(kept) : At(k) \in kept
  <2> TAKE k \in 1 .. Cardinality(kept)
  <2>1. k - 1 \in 0 .. Cardinality(kept) - 1
    BY <1>4
  <2>2. \E i \in kept : Rank(kept, i) = k - 1
    BY <1>3, <2>1, RankOnto
  <2> QED
    BY <2>2
<1> HIDE DEF At, T
<1>6. /\ Searched(bytes, alignment) \in [1 .. Cardinality(kept) -> Nat \cap T]
  BY <1>1, <1>2, <1>3, <1>5
<1> DEFINE S == Searched(bytes, alignment)
<1>7. S \in Seq(Nat \cap T) /\ Len(S) = Cardinality(kept)
  BY <1>4, <1>6, FunctionIsSeq
<1>8. \A i \in DOMAIN S : S[i] \in T
  BY <1>4, <1>6, <1>7
<1>9. S \in Seq(Nat)
  BY <1>4, <1>6, FunctionIsSeq
<1>10. FreeAlignedList = <<>> => S = <<>>
  <2> HAVE FreeAlignedList = <<>>
  <2>1. kept = {}
    BY <1>1, <1>3 DEF n
  <2>2. Cardinality(kept) = 0
    BY <2>1, FS_EmptySet
  <2>3. Len(S) = 0
    BY <1>7, <2>2
  <2> HIDE DEF S
  <2> QED
    BY <1>9, <2>3, EmptySeq
<1> QED
  BY <1>8, <1>9, <1>10 DEF ToSet, T

(* pm::AlignedAlloc.                                                       *)
LEMMA AlignedAllocKeeps ==
    ASSUME HeapInv, TameInv, NEW bytes \in Sizes, NEW alignment \in Alignments,
           AlignedAlloc(bytes, alignment), UNCHANGED callers
    PROVE  HeapInv' /\ TameInv'
<1> DEFINE at == AlignUp(HeapHead, alignment)
           b == Block(at, bytes, alignment)
           trailer == [Alignment |-> alignment, BlockSize |-> bytes]
<1>0. /\ AlignedHdr \in Nat \ {0} /\ BlockHdr \in Nat \ {0} /\ Begin \in Nat /\ Limit \in Nat
      /\ HeapHead \in Nat /\ Begin <= HeapHead
      /\ bytes \in Nat \ {0} /\ alignment \in Nat \ {0}
      /\ Types /\ Within /\ Separate
  BY CallersParts DEF HeapInv, Types
<1>1. /\ at \in Nat /\ at >= HeapHead
      /\ HeapHead % alignment # 0 => at > HeapHead
  BY <1>0, AlignUpRises
<1>2. b.at = at /\ b.size = bytes /\ b.alignment = alignment /\ at + bytes + AlignedHdr <= Limit
  BY DEF Block, AlignedAlloc
<1>3. b \in Blocks
  BY <1>0, <1>1 DEF Block, Blocks
<1>4. CASE ~Walkable(FreeAlignedList, Trailer) /\ Breaks
  <2>1. FreeAlignedList # <<>>
    BY <1>4 DEF Walkable
  <2>2. ~(OneSize /\ "AlignedFree" \notin Calls)
    BY <2>1 DEF TameInv
  <2> QED
    BY <1>4, <2>2, BreaksKeep
<1>5. CASE /\ FreeAlignedList' = Searched(bytes, alignment)
           /\ HeapHead' = b.at + bytes + AlignedHdr
           /\ Trailer' = Written(Trailer, AlignedHdr, HeapHead + bytes, trailer, b)
           /\ live' = live \cup {b}
           /\ UNCHANGED <<FreeList, BlockSize, broken>>
  <2> HIDE DEF b, at, trailer
  <2>1. UNCHANGED <<Limit, Sizes, Alignments, Calls, HeldHeaders>>
    BY <1>0, <1>2, <1>5 DEF Limit, Sizes, Alignments, Calls, HeldHeaders
  <2>2. UNCHANGED Headers
    BY <1>5, <2>1 DEF Headers
  <2>3. /\ HeapHead' = at + bytes + AlignedHdr /\ HeapHead' \in Nat
        /\ HeapHead <= HeapHead' /\ HeapHead + bytes <= HeapHead' /\ HeapHead' <= Limit
    BY <1>0, <1>1, <1>2, <1>5
  <2>4. /\ FreeAlignedList' \in Seq(Nat)
        /\ ToSet(FreeAlignedList)' \subseteq ToSet(FreeAlignedList)
        /\ FreeAlignedList = <<>> => FreeAlignedList' = <<>>
    <3>1. PICK s : s = FreeAlignedList'
      OBVIOUS
    <3>2. FreeAlignedList \in Seq(Nat)
      BY <1>0 DEF Types
    <3>3. /\ s \in Seq(Nat) /\ ToSet(s) \subseteq ToSet(FreeAlignedList)
          /\ FreeAlignedList = <<>> => s = <<>>
      BY <1>5, <3>1, <3>2, SearchedParts
    <3>4. ToSet(FreeAlignedList)' = ToSet(s)
      BY <3>1 DEF ToSet
    <3> QED
      BY <3>1, <3>3, <3>4
  <2>5. DOMAIN Trailer' \subseteq DOMAIN Trailer \cup {HeapHead + bytes}
    <3>1. PICK g : g = Written(Trailer, AlignedHdr, HeapHead + bytes, trailer, b)
      OBVIOUS
    <3>2. \A x \in DOMAIN g : x = HeapHead + bytes \/ x \in DOMAIN Trailer
      BY <3>1, WrittenParts
    <3> QED
      BY <1>5, <3>1, <3>2
  <2>6. Types'
    BY <1>0, <1>2, <1>3, <1>5, <2>1, <2>3, <2>4 DEF Types
  <2>7. \A h \in Headers : h \in Nat /\ Begin <= h /\ h + BlockHdr <= HeapHead
    BY <1>0 DEF Within
  <2>8. \A h \in DOMAIN BlockSize :
          /\ h \in Headers /\ h \in Nat /\ BlockSize[h] \in Nat \ {0}
          /\ h + BlockHdr + BlockSize[h] <= HeapHead
    BY <1>0, <2>7 DEF Within
  <2>9. \A c \in live : c.alignment # 0 =>
          /\ c.at \in Nat /\ c.size \in Nat
          /\ Begin <= c.at
          /\ (\A a \in Alignments : Begin % a # 0) => Begin < c.at
          /\ c.at + c.size + AlignedHdr <= HeapHead
    BY <1>0 DEF Within, Types, Blocks
  <2>10. (\A a \in Alignments : Begin % a # 0) => Begin < at
    <3> HAVE \A a \in Alignments : Begin % a # 0
    <3>1. CASE HeapHead = Begin
      BY <1>0, <1>1, <3>1
    <3>2. CASE HeapHead # Begin
      BY <1>0, <1>1, <3>2
    <3> QED
      BY <3>1, <3>2
  <2>11. Within'
    <3>1. \A h \in Headers' : h \in Nat /\ Begin <= h /\ h + BlockHdr <= HeapHead'
      BY <1>0, <2>2, <2>3, <2>7
    <3>2. \A h \in DOMAIN BlockSize' :
            h \in Headers' /\ BlockSize'[h] \in Nat \ {0} /\ h + BlockHdr + BlockSize'[h] <= HeapHead'
      BY <1>0, <1>5, <2>2, <2>3, <2>8
    <3>3. \A h \in ToSet(FreeAlignedList)' \cup DOMAIN Trailer' : h \in 0 .. HeapHead'
      <4>1. \A h \in ToSet(FreeAlignedList)' \cup DOMAIN Trailer' :
              h \in ToSet(FreeAlignedList) \cup DOMAIN Trailer \/ h = HeapHead + bytes
        BY <2>4, <2>5
      <4>2. \A h \in ToSet(FreeAlignedList) \cup DOMAIN Trailer : h \in 0 .. HeapHead
        BY <1>0 DEF Within
      <4> QED
        BY <1>0, <2>3, <4>1, <4>2
    <3>4. \A c \in live' : c.alignment # 0 =>
            /\ Begin <= c.at
            /\ (\A a \in Alignments' : Begin % a # 0) => Begin < c.at
            /\ c.at + c.size + AlignedHdr <= HeapHead'
      <4> TAKE c \in live'
      <4> HAVE c.alignment # 0
      <4>1. CASE c = b
        BY <1>0, <1>1, <1>2, <2>1, <2>3, <2>10, <4>1
      <4>2. CASE c \in live
        <5>1. /\ c.at \in Nat /\ c.size \in Nat /\ Begin <= c.at
              /\ (\A a \in Alignments : Begin % a # 0) => Begin < c.at
              /\ c.at + c.size + AlignedHdr <= HeapHead
          BY <2>9, <4>2
        <5> QED
          BY <1>0, <2>1, <2>3, <5>1
      <4> QED
        BY <1>5, <4>1, <4>2
    <3> QED
      BY <3>1, <3>2, <3>3, <3>4 DEF Within
  <2>12. Separate'
    <3>1. \A c \in live' : c.alignment = 0 => c \in live
      BY <1>0, <1>2, <1>5
    <3> QED
      BY <1>0, <1>5, <2>1, <2>2, <3>1 DEF Separate, HeldOrFree
  <2>13. Tidy => Tidy'
    <3> SUFFICES ASSUME Tidy PROVE Tidy'
      OBVIOUS
    <3>1. \A c \in live' : c.alignment = 0 => c \in live
      BY <1>0, <1>2, <1>5
    <3>2. \A h \in DOMAIN BlockSize', c \in live' :
            c.alignment # 0 => Apart(h, BlockHdr + BlockSize'[h], c.at, c.size + AlignedHdr)
      <4> TAKE h \in DOMAIN BlockSize', c \in live'
      <4> HAVE c.alignment # 0
      <4>1. CASE c = b
        <5>1. h + (BlockHdr + BlockSize[h]) <= at
          BY <1>0, <1>1, <1>5, <2>8
        <5> QED
          BY <1>2, <1>5, <4>1, <5>1 DEF Apart
      <4>2. CASE c \in live
        BY <1>5, <4>2 DEF Tidy
      <4> QED
        BY <1>5, <4>1, <4>2
    <3>3. \A c, d \in live' :
            c.alignment # 0 /\ d.alignment # 0 /\ c # d
                => Apart(c.at, c.size + AlignedHdr, d.at, d.size + AlignedHdr)
      <4>1. \A c \in live : c.alignment # 0 => c.at + (c.size + AlignedHdr) <= b.at
        BY <1>0, <1>1, <1>2, <2>9
      <4>2. \A c \in live : c.alignment # 0
              => /\ Apart(c.at, c.size + AlignedHdr, b.at, b.size + AlignedHdr)
                 /\ Apart(b.at, b.size + AlignedHdr, c.at, c.size + AlignedHdr)
        BY <4>1 DEF Apart
      <4> QED
        BY <1>5, <4>2 DEF Tidy
    <3> QED
      BY <1>5, <2>2, <3>1, <3>2, <3>3 DEF Tidy
  <2>14. (Tame' <=> Tame) /\ (OneSize' <=> OneSize)
    BY <2>1 DEF Tame, OneSize
  <2>15. TameInv'
    BY <1>5, <2>1, <2>4, <2>13, <2>14 DEF TameInv
  <2> QED
    BY <2>6, <2>11, <2>12, <2>15 DEF HeapInv
<1> QED
  BY <1>4, <1>5 DEF AlignedAlloc

(* The free list, when it has a block to give and is walked safely.        *)
LEMMA LinkKeeps ==
    ASSUME HeapInv, TameInv, NEW bytes \in Sizes, FreeList # <<>>, Link(bytes),
           UNCHANGED callers
    PROVE  HeapInv' /\ TameInv'
<1> DEFINE i == Found(bytes)
           h == FreeList[i]
           b == Block(h + BlockHdr, bytes, 0)
           others == RemoveAt(FreeList, i)
<1>0. /\ BlockHdr \in Nat \ {0} /\ AlignedHdr \in Nat \ {0} /\ Begin \in Nat /\ Limit \in Nat
      /\ HeapHead \in Nat /\ bytes \in Nat \ {0}
      /\ FreeList \in Seq(Nat) /\ IsInjective(FreeList)
      /\ Types /\ Within /\ Separate
  BY CallersParts DEF HeapInv, Types, Separate, HeldOrFree
<1>1. i \in 1 .. Len(FreeList) /\ h \in ToSet(FreeList) /\ h \in Nat
  BY <1>0, FoundIsIn DEF Within, Headers
<1>2. h \in Headers /\ h \notin HeldHeaders /\ h \in DOMAIN BlockSize
  <2>1. h \in DOMAIN BlockSize
    BY <1>0, <1>1 DEF Link, Walkable
  <2> QED
    BY <1>0, <1>1, <2>1 DEF Headers, Separate, HeldOrFree
<1>3. /\ others \in Seq(Nat) /\ IsInjective(others)
      /\ ToSet(others) = ToSet(FreeList) \ {h}
  BY <1>0, <1>1, RemoveAtKeeps
<1>4. b.at = h + BlockHdr /\ b.size = bytes /\ b.alignment = 0 /\ b \in Blocks
  BY <1>0, <1>1 DEF Block, Blocks
<1>5. /\ live' = live \cup {b}
      /\ Trailer' = Spared(Trailer, AlignedHdr, b.at, b.size)
      /\ UNCHANGED <<HeapHead, FreeAlignedList, broken>>
      /\ Splits(bytes) =>
           /\ FreeList' = Append(others, h + bytes)
           /\ BlockSize' = Written([BlockSize EXCEPT ![h] = bytes], BlockHdr, h + bytes,
                                   BlockSize[h] - bytes, b)
      /\ ~Splits(bytes) =>
           /\ FreeList' = others
           /\ BlockSize' = Spared(BlockSize, BlockHdr, b.at, b.size)
  BY DEF Link, SplitAt
<1>6. Splits(bytes) => BlockSize[h] - bytes > BlockHdr
  BY DEF Splits
<1> HIDE DEF b, h, i, others
<1>7. UNCHANGED <<Limit, Sizes, Alignments, Calls>>
  BY DEF Limit, Sizes, Alignments, Calls
<1>8. HeldHeaders' = HeldHeaders \cup {h}
  <2>1. b.at - BlockHdr = h
    BY <1>0, <1>1, <1>4
  <2> QED
    BY <1>4, <1>5, <2>1 DEF HeldHeaders
<1>9. \A c \in live : c.alignment = 0 => c.at # b.at
  <2> SUFFICES ASSUME NEW c \in live, c.alignment = 0, c.at = b.at PROVE FALSE
    OBVIOUS
  <2>1. c.at - BlockHdr \in HeldHeaders
    BY DEF HeldHeaders
  <2>2. c.at - BlockHdr = h
    BY <1>0, <1>1, <1>4
  <2> QED
    BY <1>2, <2>1, <2>2
<1>10. \A c, d \in live' : c.alignment = 0 /\ d.alignment = 0 /\ c.at = d.at => c = d
  BY <1>0, <1>5, <1>9 DEF Separate
<1>11. \A x \in DOMAIN Trailer' : x \in DOMAIN Trailer
  <2>1. PICK g : g = Trailer'
    OBVIOUS
  <2>2. \A x \in DOMAIN g : x \in DOMAIN Trailer
    BY <1>5, <2>1, SparedParts
  <2> QED
    BY <2>1, <2>2
<1>12. \A k \in Headers : k \in Nat /\ Begin <= k /\ k + BlockHdr <= HeapHead
  BY <1>0 DEF Within
<1>13. \A k \in DOMAIN BlockSize :
         /\ k \in Headers /\ BlockSize[k] \in Nat \ {0}
         /\ k + BlockHdr + BlockSize[k] <= HeapHead
  BY <1>0 DEF Within
<1>14. \A c \in live' : c.alignment # 0 => c \in live
  BY <1>4, <1>5
<1>15. (Tame' <=> Tame) /\ (OneSize' <=> OneSize)
  BY <1>7 DEF Tame, OneSize
<1>16. "Free" \in Calls /\ (Tame => OneSize)
  BY DEF TameInv, Tame, OneSize
<1>17. CASE ~Splits(bytes)
  <2>1. /\ ToSet(FreeList)' = ToSet(FreeList) \ {h}
        /\ FreeList' \in Seq(Nat) /\ IsInjective(FreeList)'
    <3>1. PICK s : s = FreeList'
      OBVIOUS
    <3>2. ToSet(FreeList)' = ToSet(s) /\ IsInjective(FreeList)' = IsInjective(s)
      BY <3>1 DEF ToSet, IsInjective
    <3> QED
      BY <1>3, <1>5, <1>17, <3>1, <3>2
  <2>2. Headers' = Headers
    BY <1>1, <1>8, <2>1 DEF Headers
  <2>3. /\ \A x : x \in DOMAIN BlockSize'
                    <=> x \in DOMAIN BlockSize /\ ~Overlap(x, BlockHdr, b.at, b.size)
        /\ \A x \in DOMAIN BlockSize' : BlockSize'[x] = BlockSize[x]
    <3>1. PICK g : g = BlockSize'
      OBVIOUS
    <3>2. /\ \A x : x \in DOMAIN g
                      <=> x \in DOMAIN BlockSize /\ ~Overlap(x, BlockHdr, b.at, b.size)
          /\ \A x \in DOMAIN g : g[x] = BlockSize[x]
      BY <1>5, <1>17, <3>1, SparedParts
    <3> QED
      BY <3>1, <3>2
  <2>4. Types'
    BY <1>0, <1>4, <1>5, <1>7, <2>1 DEF Types
  <2>5. Within'
    BY <1>0, <1>5, <1>7, <1>11, <1>14, <2>2, <2>3 DEF Within
  <2>6. Separate'
    <3>1. HeldOrFree'
      BY <1>0, <1>2, <1>8, <2>1 DEF Separate, HeldOrFree
    <3> QED
      BY <1>0, <1>10, <2>2, <2>3, <3>1 DEF Separate
  <2>7. Tame => Tidy'
    <3> SUFFICES ASSUME Tame PROVE Tidy'
      OBVIOUS
    <3>1. Tidy /\ OneSize
      BY <1>16 DEF TameInv
    <3>2. BlockSize[h] = bytes
      BY <1>0, <1>2, <3>1, OnlySize DEF TameInv, Types
    <3>3. DOMAIN BlockSize' = DOMAIN BlockSize
      <4> SUFFICES ASSUME NEW k \in DOMAIN BlockSize PROVE ~Overlap(k, BlockHdr, b.at, b.size)
        BY <2>3
      <4>1. CASE k = h
        BY <1>0, <1>1, <1>4, <4>1 DEF Overlap
      <4>2. CASE k # h
        <5>1. Apart(k, BlockHdr + BlockSize[k], h, BlockHdr + bytes)
          BY <1>2, <3>1, <3>2, <4>2 DEF Tidy
        <5>2. k \in Nat /\ BlockSize[k] \in Nat
          BY <1>12, <1>13
        <5> QED
          BY <1>0, <1>1, <1>4, <5>1, <5>2 DEF Apart, Overlap
      <4> QED
        BY <4>1, <4>2
    <3>4. \A c \in live' : c.alignment = 0 => BlockSize'[c.at - BlockHdr] = c.size
      <4> TAKE c \in live'
      <4> HAVE c.alignment = 0
      <4>1. CASE c = b
        <5>1. c.at - BlockHdr = h
          BY <1>0, <1>1, <1>4, <4>1
        <5> QED
          BY <1>2, <1>4, <2>3, <3>2, <3>3, <4>1, <5>1
      <4>2. CASE c \in live
        <5>1. c.at - BlockHdr \in DOMAIN BlockSize /\ BlockSize[c.at - BlockHdr] = c.size
          BY <3>1, <4>2 DEF Tidy, Headers, HeldHeaders
        <5> QED
          BY <2>3, <3>3, <5>1
      <4> QED
        BY <1>5, <4>1, <4>2
    <3> QED
      BY <1>14, <2>2, <2>3, <3>1, <3>3, <3>4 DEF Tidy
  <2>8. TameInv'
    BY <1>5, <1>7, <1>15, <1>16, <2>3, <2>7 DEF TameInv
  <2> QED
    BY <2>4, <2>5, <2>6, <2>8 DEF HeapInv
<1>18. CASE Splits(bytes)
  <2> DEFINE p == h + bytes
  <2>1. /\ p \in Nat /\ h < p /\ BlockSize[h] \in Nat \ {0}
        /\ p + BlockHdr < h + BlockSize[h] /\ h + BlockSize[h] <= HeapHead
    <3>1. BlockSize[h] \in Nat \ {0} /\ h + BlockHdr + BlockSize[h] <= HeapHead
      BY <1>2, <1>13
    <3> QED
      BY <1>0, <1>1, <1>6, <1>18, <3>1
  <2>2. ~OneSize /\ ~Tame
    <3>1. ~OneSize
      BY <1>18, OneSizeIsSafe
    <3> QED
      BY <1>16, <3>1
  <2>3. p \notin Headers
    <3> SUFFICES ASSUME p \in Headers PROVE FALSE
      OBVIOUS
    <3>1. p # h
      BY <1>1, <2>1
    <3>2. p < h \/ h + BlockSize[h] <= p
      BY <1>0, <1>2, <3>1 DEF Separate
    <3> QED
      BY <1>0, <1>1, <2>1, <3>2
  <2>4. /\ \A x \in DOMAIN BlockSize' :
             x \in DOMAIN BlockSize /\ BlockSize'[x] = IF x = h THEN bytes ELSE BlockSize[x]
    <3>1. PICK f : f = [BlockSize EXCEPT ![h] = bytes]
      OBVIOUS
    <3>2. /\ DOMAIN f = DOMAIN BlockSize
          /\ \A x \in DOMAIN f : f[x] = IF x = h THEN bytes ELSE BlockSize[x]
      BY <1>2, <3>1
    <3>3. PICK g : g = BlockSize'
      OBVIOUS
    <3>4. g = Written(f, BlockHdr, p, BlockSize[h] - bytes, b)
      BY <1>5, <1>18, <3>1, <3>3
    <3>5. Overlap(p, BlockHdr, b.at, b.size)
      BY <1>0, <1>1, <1>4 DEF Overlap
    <3>6. \A x \in DOMAIN g :
            /\ x = p \/ x \in DOMAIN f
            /\ ~Overlap(x, BlockHdr, b.at, b.size)
            /\ x # p => g[x] = f[x]
      BY <3>4, WrittenParts
    <3>7. \A x \in DOMAIN g : x \in DOMAIN f /\ g[x] = f[x]
      BY <3>5, <3>6
    <3> QED
      BY <3>2, <3>3, <3>7
  <2>5. /\ ToSet(FreeList)' = (ToSet(FreeList) \ {h}) \cup {p}
        /\ FreeList' \in Seq(Nat) /\ IsInjective(FreeList)'
    <3>1. PICK s : s = FreeList'
      OBVIOUS
    <3>2. s = Append(others, p) /\ p \notin ToSet(others)
      BY <1>3, <1>5, <1>18, <2>3, <3>1 DEF Headers
    <3>3. /\ s \in Seq(Nat) /\ IsInjective(s)
          /\ ToSet(s) = (ToSet(FreeList) \ {h}) \cup {p}
      BY <1>3, <2>1, <3>2, AppendKeeps
    <3>4. ToSet(FreeList)' = ToSet(s) /\ IsInjective(FreeList)' = IsInjective(s)
      BY <3>1 DEF ToSet, IsInjective
    <3> QED
      BY <3>1, <3>3, <3>4
  <2>6. Headers' = Headers \cup {p}
    BY <1>1, <1>8, <2>5 DEF Headers
  <2> HIDE DEF p
  <2>7. Types'
    BY <1>0, <1>4, <1>5, <1>7, <2>5 DEF Types
  <2>8. Within'
    <3>1. \A k \in Headers' : k \in Nat /\ Begin <= k /\ k + BlockHdr <= HeapHead'
      <4>1. Begin <= p /\ p + BlockHdr <= HeapHead
        BY <1>0, <1>1, <1>2, <1>12, <2>1
      <4> QED
        BY <1>5, <1>12, <2>1, <2>6, <4>1
    <3>2. \A k \in DOMAIN BlockSize' :
            /\ k \in Headers'
            /\ BlockSize'[k] \in Nat \ {0}
            /\ k + BlockHdr + BlockSize'[k] <= HeapHead'
      <4> TAKE k \in DOMAIN BlockSize'
      <4>1. k \in Headers /\ k \in Headers'
        BY <1>13, <2>4, <2>6
      <4>2. CASE k = h
        <5>1. h + BlockHdr + bytes <= HeapHead /\ BlockSize'[k] = bytes
          <6>1. h + BlockHdr + BlockSize[h] <= HeapHead /\ bytes < BlockSize[h]
            BY <1>0, <1>1, <1>2, <1>6, <1>13, <1>18, <2>1
          <6> QED
            BY <1>0, <1>1, <2>1, <2>4, <4>2, <6>1
        <5> QED
          BY <1>0, <1>5, <4>1, <4>2, <5>1
      <4>3. CASE k # h
        BY <1>5, <1>13, <2>4, <4>1, <4>3
      <4> QED
        BY <4>2, <4>3
    <3> QED
      BY <1>0, <1>5, <1>7, <1>11, <1>14, <3>1, <3>2 DEF Within
  <2>9. Separate'
    <3>1. \A k \in DOMAIN BlockSize', q \in Headers' : q # k => q < k \/ k + BlockSize'[k] <= q
      <4> TAKE k \in DOMAIN BlockSize', q \in Headers'
      <4> HAVE q # k
      <4>1. /\ k \in DOMAIN BlockSize /\ k \in Headers /\ k \in Nat /\ BlockSize[k] \in Nat
            /\ q \in Nat
        BY <1>12, <1>13, <2>1, <2>4, <2>6
      <4>2. CASE q \in Headers
        <5>1. q < k \/ k + BlockSize[k] <= q
          BY <1>0, <4>1, <4>2 DEF Separate
        <5>2. CASE k = h
          <6>1. BlockSize'[k] = bytes /\ bytes < BlockSize[h]
            BY <1>0, <1>6, <1>18, <2>1, <2>4, <5>2
          <6> QED
            BY <1>0, <4>1, <5>1, <5>2, <6>1
        <5>3. CASE k # h
          BY <2>4, <5>1, <5>3
        <5> QED
          BY <5>2, <5>3
      <4>3. CASE q = p
        <5>1. CASE k = h
          <6>1. BlockSize'[k] = bytes
            BY <2>4, <5>1
          <6> QED
            BY <1>0, <1>1, <4>3, <5>1, <6>1 DEF p
        <5>2. CASE k # h
          <6>1. h < k \/ k + BlockSize[k] <= h
            BY <1>0, <1>2, <4>1, <5>2 DEF Separate
          <6>2. k < h \/ h + BlockSize[h] <= k
            BY <1>0, <1>2, <4>1, <5>2 DEF Separate
          <6>3. BlockSize'[k] = BlockSize[k]
            BY <2>4, <5>2
          <6> QED
            BY <1>0, <1>1, <2>1, <4>1, <4>3, <6>1, <6>2, <6>3
        <5> QED
          BY <5>1, <5>2
      <4> QED
        BY <2>6, <4>2, <4>3
    <3>2. HeldOrFree'
      <4>1. p \notin HeldHeaders /\ p # h
        BY <1>1, <2>1, <2>3 DEF Headers
      <4> QED
        BY <1>0, <1>2, <1>8, <2>5, <4>1 DEF Separate, HeldOrFree
    <3> QED
      BY <1>10, <3>1, <3>2 DEF Separate
  <2>10. TameInv'
    BY <1>5, <1>7, <1>15, <1>16, <2>2 DEF TameInv
  <2> QED
    BY <2>7, <2>8, <2>9, <2>10 DEF HeapInv
<1> QED
  BY <1>17, <1>18

-----------------------------------------------------------------------------
(* The invariant holds in every state.                                     *)
LEMMA AllocKeeps ==
    ASSUME HeapInv, TameInv, NEW bytes \in Sizes, Alloc(bytes), UNCHANGED callers
    PROVE  HeapInv' /\ TameInv'
<1>1. CASE FreeList = <<>>
  <2>1. Bump(bytes)
    BY <1>1 DEF Alloc
  <2> QED
    BY <2>1, BumpKeeps
<1>2. CASE FreeList # <<>> /\ Link(bytes)
  BY <1>2, LinkKeeps
<1>3. CASE FreeList # <<>> /\ Breaks /\ (~Walkable(FreeList, BlockSize) \/ Severs(bytes))
  <2>1. ~OneSize
    BY <1>3, OneSizeIsSafe DEF Severs
  <2> QED
    BY <1>3, <2>1, BreaksKeep
<1> QED
  BY <1>1, <1>2, <1>3 DEF Alloc

LEMMA StutterKeeps ==
    ASSUME HeapInv, TameInv, UNCHANGED vars
    PROVE  HeapInv' /\ TameInv'
<1>1. UNCHANGED <<HeapHead, FreeList, FreeAlignedList, BlockSize, Trailer, live, broken, callers>>
  BY DEF vars, heap
<1>2. UNCHANGED <<Limit, Sizes, Alignments, Calls, HeldHeaders>>
  BY <1>1 DEF Limit, Sizes, Alignments, Calls, HeldHeaders
<1>3. UNCHANGED Headers
  BY <1>1, <1>2 DEF Headers
<1>4. (Tidy => Tidy') /\ (Tame' <=> Tame) /\ (OneSize' <=> OneSize)
  BY <1>1, <1>2, <1>3 DEF Tidy, Tame, OneSize
<1>5. Types' /\ Within'
  BY <1>1, <1>2, <1>3 DEF HeapInv, Types, Within
<1>6. Separate'
  BY <1>1, <1>2, <1>3 DEF HeapInv, Separate, HeldOrFree
<1>7. TameInv'
  BY <1>1, <1>2, <1>4 DEF TameInv
<1> QED
  BY <1>5, <1>6, <1>7 DEF HeapInv

LEMMA HeapInductive == HeapInv /\ TameInv /\ [Next]_vars => HeapInv' /\ TameInv'
<1> SUFFICES ASSUME HeapInv, TameInv, [Next]_vars
             PROVE  HeapInv' /\ TameInv'
  OBVIOUS
<1>1. ASSUME NEW bytes \in Sizes, Alloc(bytes), UNCHANGED callers
      PROVE  HeapInv' /\ TameInv'
  BY <1>1, AllocKeeps
<1>2. ASSUME NEW bytes \in Sizes, NEW alignment \in Alignments, AlignedAlloc(bytes, alignment),
             UNCHANGED callers
      PROVE  HeapInv' /\ TameInv'
  BY <1>2, AlignedAllocKeeps
<1>3. ASSUME NEW b \in live, Free(b), UNCHANGED callers
      PROVE  HeapInv' /\ TameInv'
  BY <1>3, FreeKeeps
<1>4. ASSUME NEW b \in live, AlignedFree(b), UNCHANGED callers
      PROVE  HeapInv' /\ TameInv'
  BY <1>4, AlignedFreeKeeps
<1>5. CASE UNCHANGED vars
  BY <1>5, StutterKeeps
<1> QED
  BY <1>1, <1>2, <1>3, <1>4, <1>5 DEF Next

LEMMA InvAlways == Spec => [](HeapInv /\ TameInv)
<1>1. Init => HeapInv /\ TameInv
  BY InitHeapInv
<1>2. (HeapInv /\ TameInv) /\ [Next]_vars => (HeapInv /\ TameInv)'
  BY HeapInductive
<1> QED
  BY <1>1, <1>2, PTL DEF Spec

-----------------------------------------------------------------------------
(* The types of the heap's variables, for all callers: in particular the   *)
(* bump pointer and every header in a list stay between the start of the   *)
(* region and its limit.                                                   *)
THEOREM TypeCorrect == Spec => []TypeOK
<1>1. HeapInv => TypeOK
  BY InvImpliesTypeOK
<1> QED
  BY <1>1, InvAlways, PTL

(* For all callers, splits and reuses included: pm::Alloc and pm::Free     *)
(* never make two blocks of one header.                                    *)
THEOREM HeldOrFreeAlways == Spec => []HeldOrFree
<1>1. HeapInv => HeldOrFree
  BY DEF HeapInv, Separate
<1> QED
  BY <1>1, InvAlways, PTL

(* To tame callers pm::Alloc and pm::AlignedAlloc never give out a byte    *)
(* that another block, or its header, is using.                            *)
THEOREM BlocksNeverOverlap == Spec => []BlocksDisjoint
<1>1. HeapInv /\ TameInv => BlocksDisjoint
  <2> SUFFICES ASSUME HeapInv, TameInv, Tame,
                      NEW b \in live, NEW c \in live, b # c
               PROVE  ~DataOverlaps(b, c)
    BY DEF BlocksDisjoint
  <2>1. Tidy /\ Types /\ Separate /\ BlockHdr \in Nat \ {0} /\ AlignedHdr \in Nat \ {0}
    BY CallersParts DEF TameInv, HeapInv, Types
  <2>2. /\ b.at \in Nat /\ b.size \in Nat \ {0} /\ c.at \in Nat /\ c.size \in Nat \ {0}
    BY <2>1 DEF Types, Blocks
  <2>3. \A d \in live : d.alignment = 0 =>
          d.at - BlockHdr \in DOMAIN BlockSize /\ BlockSize[d.at - BlockHdr] = d.size
    BY <2>1 DEF Tidy, Headers, HeldHeaders
  <2>4. CASE b.alignment = 0 /\ c.alignment = 0
    <3>1. b.at - BlockHdr # c.at - BlockHdr
      <4>1. b.at # c.at
        BY <2>1, <2>4 DEF Separate
      <4> QED
        BY <2>1, <2>2, <4>1
    <3>2. Apart(b.at - BlockHdr, BlockHdr + b.size, c.at - BlockHdr, BlockHdr + c.size)
      BY <2>1, <2>3, <2>4, <3>1 DEF Tidy
    <3>3. ~Overlap(b.at, b.size, c.at - BlockHdr, BlockHdr + c.size)
      BY <2>1, <2>2, <3>2 DEF Apart, Overlap
    <3> QED
      BY <2>4, <3>3 DEF DataOverlaps
  <2>5. CASE b.alignment # 0 /\ c.alignment = 0
    <3>1. Apart(c.at - BlockHdr, BlockHdr + c.size, b.at, b.size + AlignedHdr)
      BY <2>1, <2>3, <2>5 DEF Tidy
    <3>2. ~Overlap(b.at, b.size, c.at - BlockHdr, BlockHdr + c.size)
      BY <2>1, <2>2, <3>1 DEF Apart, Overlap
    <3> QED
      BY <2>5, <3>2 DEF DataOverlaps
  <2>6. CASE b.alignment = 0 /\ c.alignment # 0
    <3>1. Apart(b.at - BlockHdr, BlockHdr + b.size, c.at, c.size + AlignedHdr)
      BY <2>1, <2>3, <2>6 DEF Tidy
    <3>2. ~Overlap(b.at, b.size, c.at, c.size + AlignedHdr)
      BY <2>1, <2>2, <3>1 DEF Apart, Overlap
    <3> QED
      BY <2>6, <3>2 DEF DataOverlaps
  <2>7. CASE b.alignment # 0 /\ c.alignment # 0
    <3>1. Apart(b.at, b.size + AlignedHdr, c.at, c.size + AlignedHdr)
      BY <2>1, <2>7 DEF Tidy
    <3>2. ~Overlap(b.at, b.size, c.at, c.size + AlignedHdr)
      BY <2>1, <2>2, <3>1 DEF Apart, Overlap
    <3> QED
      BY <2>7, <3>2 DEF DataOverlaps
  <2> QED
    BY <2>4, <2>5, <2>6, <2>7
<1> QED
  BY <1>1, InvAlways, PTL

(* The page fault handler knows every byte tame callers hold, when no      *)
(* alignment they use divides the place of the first block: there          *)
(* pm::AlignedAlloc puts its block at Begin itself, which WasAlloqued does  *)
(* not take for the heap's.                                                *)
THEOREM AllocatedKnown ==
    ASSUME \A c \in Callers, a \in Nat : a \in c.alignments => Begin % a # 0
    PROVE  Spec => []AllocatedIsKnown
<1>1. HeapInv /\ TameInv => AllocatedIsKnown
  <2> SUFFICES ASSUME HeapInv, TameInv, Tame, NEW b \in live
               PROVE  WasAlloqued(b.at) /\ WasAlloqued(b.at + b.size - 1)
    BY DEF AllocatedIsKnown
  <2>1. /\ Tidy /\ Types /\ Within /\ BlockHdr \in Nat \ {0} /\ AlignedHdr \in Nat \ {0}
        /\ Begin \in Nat /\ HeapHead \in Nat
    BY CallersParts DEF TameInv, HeapInv, Types
  <2>2. b.at \in Nat /\ b.size \in Nat \ {0}
    BY <2>1 DEF Types, Blocks
  <2>3. Begin < b.at /\ b.at + b.size <= HeapHead
    <3>1. CASE b.alignment = 0
      <4>1. b.at - BlockHdr \in DOMAIN BlockSize /\ BlockSize[b.at - BlockHdr] = b.size
        BY <2>1, <3>1 DEF Tidy, Headers, HeldHeaders
      <4>2. /\ b.at - BlockHdr \in Headers
            /\ (b.at - BlockHdr) + BlockHdr + b.size <= HeapHead
        BY <2>1, <4>1 DEF Within
      <4>3. Begin <= b.at - BlockHdr
        BY <2>1, <4>2 DEF Within
      <4> QED
        BY <2>1, <2>2, <4>2, <4>3
    <3>2. CASE b.alignment # 0
      <4>1. \A a \in Alignments : Begin % a # 0
        BY <2>1, CallersParts DEF Types, Alignments
      <4>2. Begin < b.at /\ b.at + b.size + AlignedHdr <= HeapHead
        BY <2>1, <3>2, <4>1 DEF Within
      <4> QED
        BY <2>1, <2>2, <4>2
    <3> QED
      BY <3>1, <3>2
  <2> QED
    BY <2>1, <2>2, <2>3 DEF WasAlloqued
<1> QED
  BY <1>1, InvAlways, PTL

(* For callers of one size no walk over the free list ever meets a header  *)
(* that was written over.                                                  *)
THEOREM FreeListWalks == Spec => []FreeListIntact
<1>1. HeapInv /\ TameInv => FreeListIntact
  <2> SUFFICES ASSUME HeapInv, TameInv, OneSize, "AlignedFree" \notin Calls
               PROVE  ~broken /\ Walkable(FreeList, BlockSize)
    BY DEF FreeListIntact, OneSize
  <2>1. PICK bytes \in Sizes : TRUE
    <3>1. Sizes # {}
      BY FS_EmptySet DEF OneSize
    <3> QED
      BY <3>1
  <2> QED
    BY <2>1, OneSizeIsSafe DEF TameInv
<1> QED
  BY <1>1, InvAlways, PTL

(* To tame callers no block is lost: the headers ever written are those of *)
(* the blocks held and of those in the free list.                          *)
THEOREM NoBlockLost == Spec => []NothingLost
<1>1. HeapInv /\ TameInv => NothingLost
  BY DEF HeapInv, TameInv, Within, Tidy, NothingLost, Headers
<1> QED
  BY <1>1, InvAlways, PTL
=============================================================================
