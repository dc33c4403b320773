------------------------ MODULE ContentPackingProofs ------------------------
(***************************************************************************)
(* Proofs about ContentPacking: whatever the sizes of the blobs, of pages  *)
(* and of words, what packPart places is what blob() accepts, and what     *)
(* ff_page then shares with a mapping holds no foreign bytes.  The first   *)
(* part is arithmetic of pages; the inductive invariant says where blobs   *)
(* and holes lie while a part is being packed.  The second part is about   *)
(* femtofsSim, whose fold over sizes keeps up with the builder's steps.    *)
(***************************************************************************)
EXTENDS ContentPacking, FiniteSetTheorems, WellFoundedInduction, TLAPS

-----------------------------------------------------------------------------
(* Division.                                                               *)

\* What x / n and x % n are, with n a page or a word.
LEMMA DivMod ==
  ASSUME NEW x \in Int, NEW n \in Nat \ {0}
  PROVE  /\ x \div n \in Int /\ x % n \in 0..n - 1
         /\ x = n * (x \div n) + (x % n)
  OBVIOUS

\* x / n and x % n are the only quotient and remainder.
LEMMA Quotient ==
  ASSUME NEW x \in Int, NEW n \in Nat \ {0}, NEW q \in Int, NEW r \in 0..n - 1,
         x = n * q + r
  PROVE  x \div n = q /\ x % n = r
<1> DEFINE k == x \div n
<1>1. k \in Int /\ x % n \in 0..n - 1 /\ x = n * k + (x % n)
  BY DivMod
<1> HIDE DEF k
<1>2. k = q
  <2>1. CASE k < q
    <3>1. n * k + n <= n * q
      BY <1>1, <2>1
    <3> QED BY <1>1, <3>1
  <2>2. CASE q < k
    <3>1. n * q + n <= n * k
      BY <1>1, <2>2
    <3> QED BY <1>1, <3>1
  <2> QED BY <2>1, <2>2, <1>1
<1> QED BY <1>1, <1>2 DEF k

\* A page boundary moves whole pages: what lies n * q further has the same place
\* in its page.
LEMMA Shift ==
  ASSUME NEW x \in Int, NEW y \in Int, NEW n \in Nat \ {0}, x % n = 0
  PROVE  (x + y) % n = y % n /\ (x + y) \div n = x \div n + y \div n
<1> DEFINE p == x \div n
           q == y \div n
           r == y % n
<1>1. p \in Int /\ x = n * p
  BY DivMod
<1>2. q \in Int /\ r \in 0..n - 1 /\ y = n * q + r
  BY DivMod
<1> HIDE DEF p, q, r
<1>3. x + y = n * (p + q) + r
  BY <1>1, <1>2
<1>4. (x + y) \div n = p + q /\ (x + y) % n = r
  BY <1>1, <1>2, <1>3, Quotient
<1> QED BY <1>4 DEF p, q, r

\* A page is a whole number of words.
LEMMA PageIsWords ==
  ASSUME NEW x \in Int, x % Page = 0
  PROVE  x % Word = 0
<1> DEFINE j == Page \div Word
           k == x \div Page
<1>1. j \in Int /\ Page = Word * j
  BY DivMod, PagesAssumption
<1>2. k \in Int /\ x = Page * k
  BY DivMod, PagesAssumption
<1> HIDE DEF j, k
<1>3. x = Word * (j * k) + 0 /\ j * k \in Int
  BY <1>1, <1>2, PagesAssumption
<1> QED BY <1>3, Quotient, PagesAssumption

\* checkedAlignUp goes to the page boundary at x or after it.
LEMMA AlignedUp ==
  ASSUME NEW x \in Nat
  PROVE  /\ AlignUp(x) = IF x % Page = 0 THEN x ELSE x - (x % Page) + Page
         /\ AlignUp(x) \in Nat /\ x <= AlignUp(x)
         /\ AlignUp(x) % Page = 0
<1> DEFINE q == x \div Page
           r == x % Page
<1>1. q \in Int /\ r \in 0..Page - 1 /\ x = Page * q + r
  BY DivMod, PagesAssumption
<1> HIDE DEF q, r
<1>2. CASE r = 0
  <2>1. x + Page - 1 = Page * q + (Page - 1)
    BY <1>1, <1>2, PagesAssumption
  <2>2. (x + Page - 1) \div Page = q
    BY <1>1, <2>1, Quotient, PagesAssumption
  <2>3. AlignUp(x) = Page * q + 0
    BY <1>1, <2>2, PagesAssumption DEF AlignUp
  <2> QED BY <1>1, <1>2, <2>3, Quotient, PagesAssumption DEF r
<1>3. CASE r # 0
  <2>1. x + Page - 1 = Page * (q + 1) + (r - 1)
    BY <1>1, <1>3, PagesAssumption
  <2>2. (x + Page - 1) \div Page = q + 1
    BY <1>1, <1>3, <2>1, Quotient, PagesAssumption
  <2>3. AlignUp(x) = Page * (q + 1) + 0
    BY <1>1, <2>2, PagesAssumption DEF AlignUp
  <2>4. AlignUp(x) = x - r + Page
    BY <1>1, <2>3, PagesAssumption
  <2>5. AlignUp(x) % Page = 0
    BY <1>1, <2>3, Quotient, PagesAssumption
  <2> QED BY <1>1, <1>3, <2>4, <2>5, PagesAssumption DEF r
<1> QED BY <1>2, <1>3

\* Stored bytes are whole words, and there is a zero byte after the content.
LEMMA EncodedWords ==
  ASSUME NEW s \in Nat
  PROVE  Encoded(s) \in Nat /\ Encoded(s) % Word = 0 /\ s < Encoded(s)
<1> DEFINE q == (s + Word) \div Word
           r == (s + Word) % Word
<1>1. q \in Int /\ r \in 0..Word - 1 /\ s + Word = Word * q + r
  BY DivMod, PagesAssumption
<1>2. Encoded(s) = q * Word
  BY DEF Encoded
<1> HIDE DEF q, r
<1>3. Encoded(s) = Word * q + 0 /\ Encoded(s) \in Int
  BY <1>1, <1>2, PagesAssumption
<1>4. Encoded(s) % Word = 0
  <2>1. 0 \in 0..Word - 1 /\ Word \in Nat \ {0}
    BY PagesAssumption
  <2> QED BY <1>1, <1>3, <2>1, Quotient
<1> QED BY <1>1, <1>3, <1>4, PagesAssumption

\* The kernel's way to say that n bytes stay inside a page, and fsck's.
LEMMA SamePage ==
  ASSUME NEW x \in Nat, NEW n \in Nat \ {0}
  PROVE  (x % Page) + n <= Page <=> x \div Page = (x + n - 1) \div Page
<1> DEFINE q == x \div Page
           r == x % Page
<1>1. q \in Int /\ r \in 0..Page - 1 /\ x = Page * q + r
  BY DivMod, PagesAssumption
<1> HIDE DEF q, r
<1>2. ASSUME r + n <= Page PROVE (x + n - 1) \div Page = q
  <2>1. x + n - 1 = Page * q + (r + n - 1)
    BY <1>1, PagesAssumption
  <2> QED BY <1>1, <1>2, <2>1, Quotient, PagesAssumption
<1>3. ASSUME (x + n - 1) \div Page = q PROVE r + n <= Page
  <2> DEFINE y == x + n - 1
             m == y % Page
  <2>1. y \in Int /\ Page \in Nat \ {0}
    BY PagesAssumption
  <2>2. m \in 0..Page - 1 /\ y = Page * (y \div Page) + m
    BY <2>1, DivMod
  <2>3. y = Page * q + m
    BY <1>3, <2>2
  <2>4. y = x + n - 1
    OBVIOUS
  <2> HIDE DEF y, m
  <2> QED BY <1>1, <2>1, <2>2, <2>3, <2>4
<1> QED BY <1>2, <1>3 DEF q, r

\* What is below the limit does not wrap.
LEMMA NoWrap ==
  ASSUME NEW n \in 0..Limit - 1
  PROVE  Wrap(n) = n
<1>1. n = Limit * 0 + n /\ n \in Int
  BY PagesAssumption
<1> QED BY <1>1, Quotient, PagesAssumption DEF Wrap

-----------------------------------------------------------------------------
(* The invariant.                                                          *)

\* n bytes at x are on a word, and on a page boundary or inside a page
Fits(x, n) ==
  x % Word = 0 /\ IF n >= Page THEN x % Page = 0 ELSE (x % Page) + n <= Page

\* m bytes at x and n bytes at y have none in common
Apart(x, m, y, n) == x + m <= y \/ y + n <= x

\* the blobs that have their place for good
Placed == (IF part = "public" THEN public ELSE Blobs) \ todo

PackTypeOK ==
  /\ size \in [Blobs -> Nat] /\ public \subseteq Blobs /\ metaEnd \in Nat
  /\ part \in {"public", "private"}
  /\ todo \subseteq (IF part = "public" THEN public ELSE Blobs \ public)
  /\ holes \subseteq [offset : Nat, size : Nat]
  /\ tail \in 0..Limit - 1
  /\ off \in [Blobs -> Nat]
  /\ publicOff \in Nat /\ privateOff \in Nat /\ imageSize \in Nat
  /\ pc \in {"pack", "packed", "error"}

\* the parts follow each other, from page boundary to page boundary
PartsInv ==
  /\ metaEnd <= publicOff /\ publicOff % Page = 0 /\ tail % Word = 0
  /\ part = "private" => publicOff <= privateOff /\ privateOff % Page = 0
  /\ pc = "packed" => part = "private" /\ todo = {} /\ privateOff + tail <= imageSize

\* a placed blob lies well, inside its part, and apart from the others
PlacedInv ==
  /\ \A b \in Placed :
       /\ Fits(off[b], Stored(b))
       /\ off[b] >= IF b \in public THEN publicOff ELSE privateOff
       /\ off[b] + Stored(b) <= Start + tail
       /\ b \in public /\ part = "private" => off[b] + Stored(b) <= privateOff
  /\ \A a, b \in Placed : a # b => Apart(off[a], Stored(a), off[b], Stored(b))

\* a hole is a gap before a page boundary, or what is left of one
HolesInv ==
  /\ \A h \in holes :
       /\ h.offset % Word = 0 /\ h.size > 0 /\ h.size < Page
       /\ (h.offset % Page) + h.size <= Page
       /\ h.offset + h.size <= tail
       /\ \A b \in Placed : Apart(Start + h.offset, h.size, off[b], Stored(b))
  /\ \A g, h \in holes : g # h => Apart(g.offset, g.size, h.offset, h.size)

PackInv == PackTypeOK /\ PartsInv /\ PlacedInv /\ HolesInv

-----------------------------------------------------------------------------
(* One blob.                                                               *)

\* Parts begin on a page, and every blob takes some words.
LEMMA Measures ==
  ASSUME PackTypeOK, PartsInv
  PROVE  /\ Start \in Nat /\ Start % Page = 0
         /\ \A b \in Blobs : Stored(b) \in Nat \ {0} /\ Stored(b) % Word = 0
<1>1. Start \in Nat /\ Start % Page = 0
  BY DEF PackTypeOK, PartsInv, Start
<1>2. ASSUME NEW b \in Blobs PROVE Stored(b) \in Nat \ {0} /\ Stored(b) % Word = 0
  <2>1. size[b] \in Nat
    BY DEF PackTypeOK
  <2>2. Encoded(size[b]) \in Nat /\ Encoded(size[b]) % Word = 0 /\ size[b] < Encoded(size[b])
    BY <2>1, EncodedWords
  <2> QED BY <2>1, <2>2 DEF Stored
<1> QED BY <1>1, <1>2

\* What lies well relative to its part lies well in the image.
LEMMA FitsInPart ==
  ASSUME NEW x \in Nat, NEW y \in Nat, NEW n \in Nat, x % Page = 0, Fits(y, n)
  PROVE  Fits(x + y, n)
<1>1. Page \in Nat \ {0} /\ Word \in Nat \ {0} /\ x \in Int /\ y \in Int
  BY PagesAssumption
<1>2. (x + y) % Page = y % Page
  BY <1>1, Shift
<1>3. x % Word = 0
  BY <1>1, PageIsWords
<1>4. (x + y) % Word = y % Word
  BY <1>1, <1>3, Shift
<1> QED BY <1>2, <1>4 DEF Fits

\* A blob that is put where it fits, apart from the placed ones and before the
\* part's new tail, keeps what the invariant says of types, parts and blobs.
LEMMA PutStep ==
  ASSUME PackInv, pc = "pack", NEW b \in todo, NEW relative \in Nat, Put(b, relative),
         Start + relative < Limit, Fits(relative, Stored(b)),
         \A a \in Placed : Apart(Start + relative, Stored(b), off[a], Stored(a)),
         holes' \subseteq [offset : Nat, size : Nat],
         tail' \in 0..Limit - 1, tail' % Word = 0,
         tail <= tail', relative + Stored(b) <= tail'
  PROVE  /\ PackTypeOK' /\ PartsInv' /\ PlacedInv'
         /\ Start' = Start /\ Placed' = Placed \cup {b}
         /\ \A a \in Placed : off'[a] = off[a]
         /\ off'[b] = Start + relative
         /\ \A a \in Blobs : Stored(a)' = Stored(a)
<1> USE DEF PackInv
<1>1. /\ UNCHANGED <<size, public, metaEnd, part, publicOff, privateOff, imageSize, pc>>
      /\ todo' = todo \ {b}
      /\ off' = [off EXCEPT ![b] = Wrap(Start + relative)]
  BY DEF Put, input, bounds
<1>2. Start \in Nat /\ Start % Page = 0 /\ \A a \in Blobs : Stored(a) \in Nat \ {0}
  BY Measures
<1>3. Wrap(Start + relative) = Start + relative
  <2>1. Start + relative \in 0..Limit - 1
    BY <1>2, PagesAssumption
  <2> QED BY <2>1, NoWrap
<1>4. b \in Blobs /\ (b \in public <=> part = "public") /\ b \notin Placed
  BY DEF PackTypeOK, Placed
<1>5. Start' = Start /\ Blobs' = Blobs /\ Placed' = Placed \cup {b}
  <2>1. Blobs' = Blobs
    BY <1>1 DEF Blobs
  <2>2. Start' = Start
    BY <1>1 DEF Start
  <2>3. Placed' = (IF part = "public" THEN public ELSE Blobs) \ (todo \ {b})
    BY <1>1, <2>1 DEF Placed
  <2>4. b \in IF part = "public" THEN public ELSE Blobs
    BY <1>4
  <2> QED BY <2>1, <2>2, <2>3, <2>4 DEF Placed
<1>6. Placed \subseteq Blobs
  BY DEF Placed, PackTypeOK
<1>7. /\ \A a \in Placed : off'[a] = off[a]
      /\ off'[b] = Start + relative
  BY <1>1, <1>3, <1>4, <1>6 DEF PackTypeOK
<1>8. \A a \in Blobs : Stored(a)' = Stored(a)
  BY <1>1 DEF Stored
<1>9. PackTypeOK'
  <2>1. off' \in [Blobs -> Nat]
    BY <1>1, <1>2, <1>3, <1>4 DEF PackTypeOK
  <2>2. todo' \subseteq IF part = "public" THEN public ELSE Blobs \ public
    BY <1>1 DEF PackTypeOK
  <2> QED BY <2>1, <2>2, <1>1, <1>5 DEF PackTypeOK
<1>10. PartsInv'
  BY <1>1 DEF PartsInv
<1>11. PlacedInv'
  <2>1. ASSUME NEW a \in Placed \cup {b}
        PROVE  /\ Fits(off'[a], Stored(a))
               /\ off'[a] >= IF a \in public THEN publicOff ELSE privateOff
               /\ off'[a] + Stored(a) <= Start + tail'
               /\ a \in public /\ part = "private" => off'[a] + Stored(a) <= privateOff
    <3>1. CASE a = b
      <4>1. Fits(Start + relative, Stored(b))
        BY <1>2, <1>4, FitsInPart
      <4>2. Start = IF b \in public THEN publicOff ELSE privateOff
        BY <1>4 DEF Start
      <4> QED BY <3>1, <4>1, <4>2, <1>2, <1>4, <1>7 DEF PackTypeOK
    <3>2. CASE a \in Placed
      <4>1. off[a] \in Nat /\ Stored(a) \in Nat /\ tail \in Nat /\ tail' \in Nat
        BY <3>2, <1>2, <1>6 DEF PackTypeOK
      <4> QED BY <3>2, <4>1, <1>2, <1>7 DEF PlacedInv
    <3> QED BY <3>1, <3>2
  <2>2. ASSUME NEW a \in Placed \cup {b}, NEW c \in Placed \cup {b}, a # c
        PROVE  Apart(off'[a], Stored(a), off'[c], Stored(c))
    <3>1. CASE a = b /\ c \in Placed
      BY <3>1, <1>7
    <3>2. CASE a \in Placed /\ c = b
      BY <3>2, <1>7 DEF Apart
    <3>3. CASE a \in Placed /\ c \in Placed
      BY <2>2, <3>3, <1>7 DEF PlacedInv
    <3> QED BY <2>2, <3>1, <3>2, <3>3
  <2> QED BY <2>1, <2>2, <1>1, <1>4, <1>5, <1>6, <1>8 DEF PlacedInv, Fits, Apart
<1> QED BY <1>5, <1>7, <1>8, <1>9, <1>10, <1>11

\* An error ends packing where it is.
LEMMA FailStep == ASSUME PackInv, Fail PROVE PackInv'
<1>1. /\ UNCHANGED <<size, public, metaEnd, part, todo, holes, tail, off,
                    publicOff, privateOff, imageSize>>
      /\ pc' = "error"
  BY DEF Fail, input, bounds
<1>2. Blobs' = Blobs /\ Start' = Start /\ Placed' = Placed /\ \A a \in Blobs : Stored(a)' = Stored(a)
  BY <1>1 DEF Blobs, Start, Placed, Stored
<1>3. PackTypeOK' /\ PartsInv'
  BY <1>1, <1>2 DEF PackInv, PackTypeOK, PartsInv
<1>4. Placed \subseteq Blobs
  BY DEF Placed, PackInv, PackTypeOK
<1>5. PlacedInv' /\ HolesInv'
  BY <1>1, <1>2, <1>4 DEF PackInv, PlacedInv, HolesInv, Fits, Apart
<1> QED BY <1>3, <1>5 DEF PackInv

\* What a blob leaves of a hole is as good as the hole.
LEMMA HoleLeft ==
  ASSUME NEW x \in Nat, NEW m \in Nat, NEW n \in Nat \ {0}, n < m,
         x % Word = 0, n % Word = 0, (x % Page) + m <= Page
  PROVE  (x + n) % Word = 0 /\ ((x + n) % Page) + (m - n) <= Page
<1> DEFINE q == x \div Page
           r == x % Page
<1>1. Page \in Nat \ {0} /\ Word \in Nat \ {0} /\ x \in Int /\ n \in Int
  BY PagesAssumption
<1>2. (x + n) % Word = 0
  BY <1>1, Shift
<1>3. q \in Int /\ r \in 0..Page - 1 /\ x = Page * q + r
  BY <1>1, DivMod
<1>4. r + m <= Page
  OBVIOUS
<1> HIDE DEF q, r
<1>5. x + n = Page * q + (r + n) /\ r + n \in 0..Page - 1 /\ x + n \in Int
  BY <1>1, <1>3, <1>4
<1>6. (x + n) % Page = r + n
  BY <1>1, <1>3, <1>5, Quotient
<1> QED BY <1>2, <1>3, <1>4, <1>6

\* A blob in a hole: the hole was apart from everything, so the blob and what is
\* left of the hole are.
LEMMA FillStep == ASSUME PackInv, FillHole PROVE PackInv'
<1> USE DEF PackInv
<1> DEFINE Filled(b, h) ==
             /\ Start + h.offset < Limit /\ Put(b, h.offset) /\ UNCHANGED tail
             /\ holes' = (holes \ {h}) \cup
                  (IF h.size = Stored(b) THEN {}
                   ELSE {[offset |-> h.offset + Stored(b), size |-> h.size - Stored(b)]})
<1>1. PICK b \in todo, h \in holes : h \in Fitting(b) /\ (Fail \/ Filled(b, h))
  <2>1. /\ Start \in Nat
        /\ \A h \in holes : h.offset \in Nat
    BY Measures DEF PackTypeOK
  <2> QED BY <2>1, PagesAssumption DEF FillHole, Fitting
<1>2. CASE Fail
  BY <1>2, FailStep
<1>3. CASE Filled(b, h)
  <2> DEFINE n == Stored(b)
             rest == [offset |-> h.offset + n, size |-> h.size - n]
  <2>1. pc = "pack" /\ b \in Blobs
    BY DEF FillHole, PackTypeOK
  <2>2. Start \in Nat /\ n \in Nat \ {0} /\ n % Word = 0
    BY <2>1, Measures
  <2>3. /\ h \in holes /\ h.offset \in Nat /\ h.size \in Nat
        /\ n <= h.size /\ tail \in 0..Limit - 1
    BY <1>1 DEF Fitting, PackTypeOK
  <2>4. /\ h.offset % Word = 0 /\ h.size < Page /\ (h.offset % Page) + h.size <= Page
        /\ h.offset + h.size <= tail
        /\ \A a \in Placed : Apart(Start + h.offset, h.size, off[a], Stored(a))
        /\ \A g \in holes \ {h} : Apart(g.offset, g.size, h.offset, h.size)
    BY <2>3 DEF HolesInv
  <2>5. Placed \subseteq Blobs /\ \A a \in Placed : off[a] \in Nat /\ Stored(a) \in Nat
    BY Measures DEF Placed, PackTypeOK
  <2>6. Page \in Nat \ {0} /\ h.offset % Page \in 0..Page - 1
    <3>1. Page \in Nat \ {0} /\ h.offset \in Int
      BY <2>3, PagesAssumption
    <3> QED BY <3>1, DivMod
  <2> HIDE DEF n
  <2>7. Fits(h.offset, n)
    BY <2>2, <2>3, <2>4, <2>6 DEF Fits
  <2>8. \A a \in Placed : Apart(Start + h.offset, n, off[a], Stored(a))
    BY <2>2, <2>3, <2>4, <2>5 DEF Apart
  <2>9. \A g \in holes' : g \in holes \ {h} \/ (g = rest /\ n < h.size)
    BY <1>3, <2>2, <2>3 DEF n
  <2>10. holes' \subseteq [offset : Nat, size : Nat]
    <3>1. n < h.size => rest \in [offset : Nat, size : Nat]
      BY <2>2, <2>3
    <3> QED BY <2>9, <3>1 DEF PackTypeOK
  <2>11. /\ PackTypeOK' /\ PartsInv' /\ PlacedInv'
         /\ Start' = Start /\ Placed' = Placed \cup {b}
         /\ \A a \in Placed : off'[a] = off[a]
         /\ off'[b] = Start + h.offset
         /\ \A a \in Blobs : Stored(a)' = Stored(a)
    <3>1. tail' = tail /\ tail' \in 0..Limit - 1 /\ tail' % Word = 0 /\ tail <= tail'
      BY <1>3, <2>3 DEF PartsInv
    <3>2. h.offset + n <= tail'
      BY <3>1, <2>2, <2>3, <2>4
    <3> QED BY <1>3, <2>1, <2>3, <2>7, <2>8, <2>10, <3>1, <3>2, PutStep DEF n
  <2>12. ASSUME NEW g \in holes \ {h}
         PROVE  /\ g.offset % Word = 0 /\ g.size > 0 /\ g.size < Page
                /\ (g.offset % Page) + g.size <= Page /\ g.offset + g.size <= tail
                /\ \A a \in Placed \cup {b} : Apart(Start + g.offset, g.size, off'[a], Stored(a))
    <3>1. g.offset \in Nat /\ g.size \in Nat
      BY DEF PackTypeOK
    <3>2. Apart(Start + g.offset, g.size, off'[b], n)
      BY <2>2, <2>3, <2>4, <2>11, <3>1 DEF Apart
    <3> QED BY <3>2, <2>11 DEF HolesInv, n
  <2>13. ASSUME n < h.size
         PROVE  /\ rest.offset % Word = 0 /\ rest.size > 0 /\ rest.size < Page
                /\ (rest.offset % Page) + rest.size <= Page /\ rest.offset + rest.size <= tail
                /\ \A a \in Placed \cup {b} :
                     Apart(Start + rest.offset, rest.size, off'[a], Stored(a))
    <3>1. rest.offset = h.offset + n /\ rest.size = h.size - n
      OBVIOUS
    <3> HIDE DEF rest
    <3>2. rest.offset % Word = 0 /\ (rest.offset % Page) + rest.size <= Page
      BY <2>2, <2>3, <2>4, <2>13, <3>1, HoleLeft
    <3>3. \A a \in Placed : Apart(Start + rest.offset, rest.size, off'[a], Stored(a))
      BY <2>2, <2>3, <2>4, <2>5, <2>11, <2>13, <3>1 DEF Apart
    <3>4. Apart(Start + rest.offset, rest.size, off'[b], n)
      BY <2>2, <2>3, <2>11, <3>1 DEF Apart
    <3>5. rest.size > 0 /\ rest.size < Page /\ rest.offset + rest.size <= tail
      BY <2>2, <2>3, <2>4, <2>6, <2>13, <3>1
    <3> QED BY <3>2, <3>3, <3>4, <3>5 DEF n
  <2>14. ASSUME NEW f \in holes', NEW g \in holes', f # g
         PROVE  Apart(f.offset, f.size, g.offset, g.size)
    <3>1. CASE f \in holes /\ g \in holes
      BY <2>14, <3>1 DEF HolesInv
    <3>2. ASSUME NEW e \in holes \ {h}, n < h.size
          PROVE  Apart(e.offset, e.size, rest.offset, rest.size)
      <4>1. e.offset \in Nat /\ e.size \in Nat
        BY DEF PackTypeOK
      <4> QED BY <2>2, <2>3, <2>4, <3>2, <4>1 DEF Apart
    <3>3. CASE f = rest /\ n < h.size /\ g \in holes \ {h}
      BY <3>2, <3>3 DEF Apart
    <3>4. CASE g = rest /\ n < h.size /\ f \in holes \ {h}
      BY <3>2, <3>4
    <3> QED BY <2>9, <2>14, <3>1, <3>3, <3>4
  <2>15. HolesInv'
    <3>1. \A a \in Placed \cup {b} : Stored(a)' = Stored(a)
      BY <2>1, <2>5, <2>11
    <3>2. tail' = tail
      BY <1>3
    <3>3. ASSUME NEW g \in holes'
          PROVE  /\ g.offset % Word = 0 /\ g.size > 0 /\ g.size < Page
                 /\ (g.offset % Page) + g.size <= Page /\ g.offset + g.size <= tail
                 /\ \A a \in Placed \cup {b} : Apart(Start + g.offset, g.size, off'[a], Stored(a))
      <4>1. CASE g \in holes \ {h}
        BY <4>1, <2>12
      <4>2. CASE g = rest /\ n < h.size
        BY <4>2, <2>13
      <4> QED BY <4>1, <4>2, <2>9
    <3> QED BY <2>11, <2>14, <3>1, <3>2, <3>3 DEF HolesInv, Apart
  <2> QED BY <2>11, <2>15
<1> QED BY <1>1, <1>2, <1>3

\* Where packPart appends a blob it lies well: aligned if MustAlign says so, or
\* inside the page that the tail is in.  What is skipped is less than a page.
LEMMA AppendedFits ==
  ASSUME NEW n \in Nat \ {0}, NEW at \in Nat, tail \in Nat, tail % Word = 0,
         at + n < Limit,
         \/ at = AlignUp(tail)
         \/ at = tail /\ n < Page /\ tail \div Page = Wrap(tail + n - 1) \div Page,
         at = AlignUp(tail) \/ n < Page
  PROVE  /\ Fits(at, n) /\ at % Word = 0 /\ tail <= at
         /\ at > tail => at - tail < Page /\ (tail % Page) + (at - tail) <= Page
<1>1. Page \in Nat \ {0} /\ tail % Page \in 0..Page - 1
  <2>1. Page \in Nat \ {0} /\ tail \in Int
    BY PagesAssumption
  <2> QED BY <2>1, DivMod
<1>2. CASE at = AlignUp(tail)
  <2>1. /\ at % Page = 0 /\ tail <= at
        /\ at = IF tail % Page = 0 THEN tail ELSE tail - (tail % Page) + Page
    BY <1>2, AlignedUp
  <2>2. at % Word = 0
    BY <2>1, PageIsWords
  <2>3. Fits(at, n)
    BY <1>1, <2>1, <2>2 DEF Fits
  <2> QED BY <1>1, <2>1, <2>2, <2>3
<1>3. CASE at = tail /\ n < Page /\ tail \div Page = Wrap(tail + n - 1) \div Page
  <2>1. Wrap(tail + n - 1) = tail + n - 1
    <3>1. tail + n - 1 \in 0..Limit - 1
      BY <1>3, PagesAssumption
    <3> QED BY <3>1, NoWrap
  <2>2. (tail % Page) + n <= Page
    BY <1>3, <2>1, SamePage
  <2> QED BY <1>1, <1>3, <2>2 DEF Fits
<1> QED BY <1>2, <1>3

\* A blob at the end: everything placed and every hole lies before the tail.
LEMMA AppendStep == ASSUME PackInv, AppendBlob PROVE PackInv'
<1> USE DEF PackInv
<1> DEFINE At(b) == IF MustAlign(b) THEN AlignUp(tail) ELSE tail
           Gap(at) == [offset |-> tail, size |-> at - tail]
           Appended(b) ==
             /\ At(b) < Limit /\ At(b) + Stored(b) < Limit /\ Start + At(b) < Limit
             /\ Put(b, At(b))
             /\ holes' = holes \cup (IF At(b) > tail THEN {Gap(At(b))} ELSE {})
             /\ tail' = Wrap(At(b) + Stored(b))
<1>1. PICK b \in todo : Fail \/ Appended(b)
  <2>1. Start \in Nat /\ tail \in Nat /\ \A b \in todo : b \in Blobs
    BY Measures DEF PackTypeOK
  <2>2. \A b \in todo : At(b) \in Nat /\ Stored(b) \in Nat
    BY <2>1, AlignedUp, Measures
  <2>3. PICK b \in todo :
          IF At(b) >= Limit \/ At(b) + Stored(b) >= Limit \/ Start + At(b) >= Limit
          THEN Fail
          ELSE /\ Put(b, At(b))
               /\ holes' = holes \cup (IF At(b) > tail THEN {Gap(At(b))} ELSE {})
               /\ tail' = Wrap(At(b) + Stored(b))
    BY DEF AppendBlob
  <2> HIDE DEF At, Gap
  <2> QED BY <2>1, <2>2, <2>3, PagesAssumption
<1>2. CASE Fail
  BY <1>2, FailStep
<1>3. CASE Appended(b)
  <2> DEFINE n == Stored(b)
             at == At(b)
             gap == Gap(at)
  <2>1. pc = "pack" /\ b \in Blobs
    BY DEF AppendBlob, PackTypeOK
  <2>2. Start \in Nat /\ n \in Nat \ {0} /\ n % Word = 0
    BY <2>1, Measures
  <2>3. tail \in Nat /\ tail % Word = 0
    BY DEF PackTypeOK, PartsInv
  <2>4. at \in Nat
    BY <2>3, AlignedUp
  <2>5. Page \in Nat \ {0} /\ Limit \in Nat \ {0}
    BY PagesAssumption
  <2>6. /\ at + n < Limit /\ Start + at < Limit
        /\ holes' = holes \cup (IF at > tail THEN {gap} ELSE {})
        /\ tail' = Wrap(at + n) /\ Put(b, at)
    BY <1>3
  <2>7. /\ \/ at = AlignUp(tail)
           \/ at = tail /\ n < Page /\ tail \div Page = Wrap(tail + n - 1) \div Page
        /\ at = AlignUp(tail) \/ n < Page
    BY <2>2, <2>5 DEF MustAlign
  <2>8. gap.offset = tail /\ gap.size = at - tail
    OBVIOUS
  <2>9. at > tail => gap \in [offset : Nat, size : Nat]
    BY <2>3, <2>4
  <2> HIDE DEF n, at, gap, At, Gap
  <2>10. /\ Fits(at, n) /\ at % Word = 0 /\ tail <= at
         /\ at > tail => at - tail < Page /\ (tail % Page) + (at - tail) <= Page
    BY <2>2, <2>3, <2>4, <2>6, <2>7, AppendedFits
  <2>11. tail' = at + n /\ tail' \in 0..Limit - 1 /\ tail' % Word = 0 /\ tail <= tail'
    <3>1. at + n \in 0..Limit - 1
      BY <2>2, <2>4, <2>5, <2>6
    <3>2. tail' = at + n
      BY <3>1, <2>6, NoWrap
    <3>3. (at + n) % Word = 0
      <4>1. Word \in Nat \ {0} /\ at \in Int /\ n \in Int
        BY <2>2, <2>4, PagesAssumption
      <4> QED BY <4>1, <2>2, <2>10, Shift
    <3> QED BY <3>1, <3>2, <3>3, <2>2, <2>3, <2>4, <2>10
  <2>12. Placed \subseteq Blobs /\ \A a \in Placed : off[a] \in Nat /\ Stored(a) \in Nat
    BY Measures DEF Placed, PackTypeOK
  <2>13. \A a \in Placed : off[a] + Stored(a) <= Start + tail
    BY DEF PlacedInv
  <2>14. \A a \in Placed : Apart(Start + at, n, off[a], Stored(a))
    BY <2>2, <2>3, <2>4, <2>10, <2>12, <2>13 DEF Apart
  <2>15. \A g \in holes' : g \in holes \/ (g = gap /\ at > tail)
    BY <2>6
  <2>16. holes' \subseteq [offset : Nat, size : Nat]
    BY <2>9, <2>15 DEF PackTypeOK
  <2>17. /\ PackTypeOK' /\ PartsInv' /\ PlacedInv'
         /\ Start' = Start /\ Placed' = Placed \cup {b}
         /\ \A a \in Placed : off'[a] = off[a]
         /\ off'[b] = Start + at
         /\ \A a \in Blobs : Stored(a)' = Stored(a)
    <3>1. at + n <= tail'
      BY <2>2, <2>4, <2>11
    <3> QED BY <2>1, <2>4, <2>6, <2>10, <2>11, <2>14, <2>16, <3>1, PutStep DEF n
  <2>18. ASSUME NEW g \in holes
         PROVE  /\ g.offset % Word = 0 /\ g.size > 0 /\ g.size < Page
                /\ (g.offset % Page) + g.size <= Page /\ g.offset + g.size <= tail'
                /\ \A a \in Placed \cup {b} : Apart(Start + g.offset, g.size, off'[a], Stored(a))
    <3>1. g.offset \in Nat /\ g.size \in Nat
      BY DEF PackTypeOK
    <3>2. g.offset + g.size <= tail
      BY DEF HolesInv
    <3>3. Apart(Start + g.offset, g.size, off'[b], n)
      BY <2>2, <2>3, <2>4, <2>10, <2>17, <3>1, <3>2 DEF Apart
    <3>4. g.offset + g.size <= tail'
      BY <2>2, <2>3, <2>4, <2>10, <2>11, <3>1, <3>2
    <3> QED BY <3>3, <3>4, <2>17 DEF HolesInv, n
  <2>19. ASSUME at > tail
         PROVE  /\ gap.offset % Word = 0 /\ gap.size > 0 /\ gap.size < Page
                /\ (gap.offset % Page) + gap.size <= Page /\ gap.offset + gap.size <= tail'
                /\ \A a \in Placed \cup {b} :
                     Apart(Start + gap.offset, gap.size, off'[a], Stored(a))
    <3>1. \A a \in Placed : Apart(Start + gap.offset, gap.size, off'[a], Stored(a))
      BY <2>2, <2>3, <2>4, <2>8, <2>12, <2>13, <2>17 DEF Apart
    <3>2. Apart(Start + gap.offset, gap.size, off'[b], n)
      BY <2>2, <2>3, <2>4, <2>8, <2>17 DEF Apart
    <3>3. gap.size > 0 /\ gap.offset + gap.size <= tail'
      BY <2>2, <2>3, <2>4, <2>8, <2>11, <2>19
    <3> QED BY <3>1, <3>2, <3>3, <2>3, <2>8, <2>10, <2>19 DEF n
  <2>20. ASSUME NEW f \in holes', NEW g \in holes', f # g
         PROVE  Apart(f.offset, f.size, g.offset, g.size)
    <3>1. ASSUME NEW e \in holes, at > tail
          PROVE  e.offset + e.size <= gap.offset
      BY <2>8 DEF HolesInv
    <3>2. CASE f \in holes /\ g \in holes
      BY <2>20, <3>2 DEF HolesInv
    <3>3. CASE f = gap /\ at > tail /\ g \in holes
      BY <3>1, <3>3 DEF Apart
    <3>4. CASE g = gap /\ at > tail /\ f \in holes
      BY <3>1, <3>4 DEF Apart
    <3> QED BY <2>15, <2>20, <3>2, <3>3, <3>4
  <2>21. HolesInv'
    <3>1. \A a \in Placed \cup {b} : Stored(a)' = Stored(a)
      BY <2>1, <2>12, <2>17
    <3>2. ASSUME NEW g \in holes'
          PROVE  /\ g.offset % Word = 0 /\ g.size > 0 /\ g.size < Page
                 /\ (g.offset % Page) + g.size <= Page /\ g.offset + g.size <= tail'
                 /\ \A a \in Placed \cup {b} : Apart(Start + g.offset, g.size, off'[a], Stored(a))
      <4>1. CASE g \in holes
        BY <4>1, <2>18
      <4>2. CASE g = gap /\ at > tail
        BY <4>2, <2>19
      <4> QED BY <4>1, <4>2, <2>15
    <3> QED BY <2>17, <2>20, <3>1, <3>2 DEF HolesInv, Apart
  <2> QED BY <2>17, <2>21
<1> QED BY <1>1, <1>2, <1>3

-----------------------------------------------------------------------------
(* packContent around the parts.                                           *)

\* The private part begins on the page after the public one.
LEMMA EndPublicStep == ASSUME PackInv, EndPublic PROVE PackInv'
<1> USE DEF PackInv
<1> DEFINE start == publicOff + tail
<1>1. CASE Fail
  BY <1>1, FailStep
<1>2. CASE ~Fail
  <2>1. /\ pc = "pack" /\ part = "public" /\ todo = {}
        /\ privateOff' = AlignUp(start) /\ part' = "private" /\ todo' = Blobs \ public
        /\ holes' = {} /\ tail' = 0
        /\ UNCHANGED <<size, public, metaEnd, off, publicOff, imageSize, pc>>
    BY <1>2 DEF EndPublic, input
  <2>2. publicOff \in Nat /\ tail \in Nat /\ Limit \in Nat \ {0} /\ start \in Nat
    BY PagesAssumption DEF PackTypeOK
  <2>3. AlignUp(start) \in Nat /\ start <= AlignUp(start) /\ AlignUp(start) % Page = 0
    BY <2>2, AlignedUp
  <2>4. Blobs' = Blobs /\ \A b \in Blobs : Stored(b)' = Stored(b)
    BY <2>1 DEF Blobs, Stored
  <2>5. Placed = public /\ Placed' = public /\ public \subseteq Blobs
    BY <2>1, <2>4 DEF Placed, PackTypeOK
  <2>6. Start = publicOff /\ Start' = AlignUp(start)
    BY <2>1 DEF Start
  <2>7. 0 % Word = 0
    <3>1. 0 \in Nat /\ 0 % Page = 0
      <4>1. Page \in Nat \ {0}
        BY PagesAssumption
      <4>2. 0 = Page * 0 + 0 /\ 0 \in 0..Page - 1
        BY <4>1
      <4> QED BY <4>1, <4>2, Quotient
    <3> QED BY <3>1, PageIsWords
  <2>8. PackTypeOK'
    BY <2>1, <2>2, <2>3, <2>4 DEF PackTypeOK
  <2>9. PartsInv'
    BY <2>1, <2>2, <2>3, <2>7 DEF PartsInv
  <2>10. ASSUME NEW b \in public
         PROVE  /\ Fits(off[b], Stored(b)) /\ off[b] >= publicOff
                /\ off[b] + Stored(b) <= AlignUp(start)
    <3>1. off[b] \in Nat /\ Stored(b) \in Nat
      BY <2>5, Measures DEF PackTypeOK
    <3>2. /\ Fits(off[b], Stored(b)) /\ off[b] >= publicOff
          /\ off[b] + Stored(b) <= Start + tail
      BY <2>5 DEF PlacedInv
    <3> QED BY <3>1, <3>2, <2>2, <2>3, <2>6
  <2>11. PlacedInv'
    <3>1. \A a, b \in public : a # b => Apart(off[a], Stored(a), off[b], Stored(b))
      BY <2>5 DEF PlacedInv
    <3>2. AlignUp(start) + 0 = AlignUp(start)
      BY <2>3
    <3> QED BY <3>1, <3>2, <2>1, <2>4, <2>5, <2>6, <2>10 DEF PlacedInv, Fits, Apart
  <2>12. HolesInv'
    BY <2>1 DEF HolesInv
  <2> QED BY <2>8, <2>9, <2>11, <2>12
<1> QED BY <1>1, <1>2

\* The image ends on the page after the private part.
LEMMA EndPrivateStep == ASSUME PackInv, EndPrivate PROVE PackInv'
<1> USE DEF PackInv
<1> DEFINE end == privateOff + tail
<1>1. CASE Fail
  BY <1>1, FailStep
<1>2. CASE ~Fail
  <2>1. /\ part = "private" /\ todo = {}
        /\ imageSize' = AlignUp(end) /\ pc' = "packed"
        /\ UNCHANGED <<size, public, metaEnd, part, todo, holes, tail, off, publicOff, privateOff>>
    BY <1>2 DEF EndPrivate, input
  <2>2. privateOff \in Nat /\ tail \in Nat /\ end \in Nat
    BY PagesAssumption DEF PackTypeOK
  <2>3. AlignUp(end) \in Nat /\ end <= AlignUp(end)
    BY <2>2, AlignedUp
  <2>4. /\ Blobs' = Blobs /\ Start' = Start /\ Placed' = Placed
        /\ \A b \in Blobs : Stored(b)' = Stored(b)
    BY <2>1 DEF Blobs, Start, Placed, Stored
  <2>5. PackTypeOK' /\ PartsInv'
    BY <2>1, <2>2, <2>3, <2>4 DEF PackTypeOK, PartsInv
  <2>6. Placed \subseteq Blobs
    BY DEF Placed, PackTypeOK
  <2>7. PlacedInv' /\ HolesInv'
    BY <2>1, <2>4, <2>6 DEF PlacedInv, HolesInv, Fits, Apart
  <2> QED BY <2>5, <2>7
<1> QED BY <1>1, <1>2

\* The parts are empty to begin with.
LEMMA PackInit == Init => PackInv
<1> SUFFICES ASSUME Init PROVE PackInv
  OBVIOUS
<1>1. size \in [Blobs -> Nat] /\ metaEnd \in Nat
  BY BlobsAssumption DEF Init, Blobs
<1>2. AlignUp(metaEnd) \in Nat /\ metaEnd <= AlignUp(metaEnd) /\ AlignUp(metaEnd) % Page = 0
  BY <1>1, AlignedUp
<1>3. 0 \in 0..Limit - 1 /\ Page \in Nat \ {0}
  BY PagesAssumption
<1>4. 0 % Word = 0
  <2>1. 0 = Page * 0 + 0 /\ 0 \in 0..Page - 1
    BY <1>3
  <2>2. 0 % Page = 0
    BY <1>3, <2>1, Quotient
  <2> QED BY <2>2, PageIsWords
<1>5. PackTypeOK /\ PartsInv
  BY <1>1, <1>2, <1>3, <1>4 DEF Init, PackTypeOK, PartsInv
<1>6. Placed = {} /\ holes = {}
  BY DEF Init, Placed
<1> QED BY <1>5, <1>6 DEF PackInv, PlacedInv, HolesInv

\* Where blobs and holes lie at every step of packing.
LEMMA PackInvariant == Spec => []PackInv
<1>1. PackInv /\ [Next]_vars => PackInv'
  <2> SUFFICES ASSUME PackInv, [Next]_vars PROVE PackInv'
    OBVIOUS
  <2>1. CASE UNCHANGED vars
    <3>1. UNCHANGED <<size, public, metaEnd, part, todo, holes, tail, off,
                      publicOff, privateOff, imageSize, pc>>
      BY <2>1 DEF vars, input, bounds
    <3>2. /\ Blobs' = Blobs /\ Start' = Start /\ Placed' = Placed
          /\ \A b \in Blobs : Stored(b)' = Stored(b)
      BY <3>1 DEF Blobs, Start, Placed, Stored
    <3>3. Placed \subseteq Blobs
      BY DEF Placed, PackInv, PackTypeOK
    <3> QED BY <3>1, <3>2, <3>3
      DEF PackInv, PackTypeOK, PartsInv, PlacedInv, HolesInv, Fits, Apart
  <2>2. CASE Next
    BY <2>2, FillStep, AppendStep, EndPublicStep, EndPrivateStep DEF Next
  <2> QED BY <2>1, <2>2
<1> QED BY <1>1, PackInit, PTL DEF Spec

-----------------------------------------------------------------------------
(* What the readers of the image see.                                      *)

\* The kernel's rule for a blob's place and fsck's are one rule.
LEMMA CheckersAgreeOnPlaces ==
  ASSUME NEW at \in Nat, NEW n \in Nat \ {0}
  PROVE  BlobAccepted(at, n) <=> FsckBlobAccepted(at, n)
<1>1. n < Page => ((at % Page) + n <= Page <=> at \div Page = (at + n - 1) \div Page)
  BY SamePage
<1>2. Page \in Nat
  BY PagesAssumption
<1> QED BY <1>1, <1>2 DEF BlobAccepted, FsckBlobAccepted

\* packContent and packPart make what ff_validate, fsck and validatePlan accept,
\* for blobs of any sizes and number, any pages and words, and any limit.
THEOREM PackedIsAccepted == Spec => []KernelAccepts
<1>1. PackInv => KernelAccepts
  <2> SUFFICES ASSUME PackInv, pc = "packed" PROVE KernelAccepts
    BY DEF KernelAccepts
  <2> USE DEF PackInv
  <2>1. /\ Placed = Blobs /\ public \subseteq Blobs /\ Start = privateOff
        /\ metaEnd <= publicOff /\ publicOff <= privateOff /\ privateOff + tail <= imageSize
    BY DEF PartsInv, Placed, Start, PackTypeOK
  <2>2. /\ metaEnd \in Nat /\ publicOff \in Nat /\ privateOff \in Nat /\ imageSize \in Nat
        /\ tail \in Nat /\ privateOff <= imageSize
    BY <2>1 DEF PackTypeOK
  <2>3. ASSUME NEW b \in Blobs
        PROVE  /\ off[b] \in Nat /\ Stored(b) \in Nat \ {0}
               /\ Fits(off[b], Stored(b))
               /\ off[b] < privateOff <=> b \in public
               /\ off[b] >= publicOff /\ off[b] < imageSize
               /\ off[b] + Stored(b) <= IF off[b] < privateOff THEN privateOff ELSE imageSize
    <3>1. off[b] \in Nat /\ Stored(b) \in Nat \ {0}
      BY Measures DEF PackTypeOK
    <3>2. /\ Fits(off[b], Stored(b))
          /\ off[b] >= IF b \in public THEN publicOff ELSE privateOff
          /\ off[b] + Stored(b) <= privateOff + tail
          /\ b \in public => off[b] + Stored(b) <= privateOff
      BY <2>1 DEF PlacedInv, PartsInv
    <3> QED BY <3>1, <3>2, <2>1, <2>2
  <2>4. \A b \in Blobs : BlobAccepted(off[b], Stored(b))
    BY <2>3 DEF BlobAccepted, Fits
  <2>5. ASSUME NEW b \in Blobs PROVE PlanBlobAccepted(b)
    <3>1. /\ off[b] + Stored(b) <= imageSize /\ off[b] >= publicOff
          /\ b \in public <=> off[b] < privateOff
      BY <2>2, <2>3
    <3>2. Stored(b) >= Page => off[b] % Page = 0
      BY <2>3 DEF Fits
    <3>3. Stored(b) < Page => off[b] \div Page = (off[b] + Stored(b) - 1) \div Page
      <4>1. Stored(b) < Page => (off[b] % Page) + Stored(b) <= Page
        BY <2>3, PagesAssumption DEF Fits
      <4> QED BY <4>1, <2>3, SamePage
    <3> QED BY <3>1, <3>2, <3>3, <2>2, <2>3, PagesAssumption DEF PlanBlobAccepted
  <2>6. \A a, b \in Blobs : a # b =>
          off[a] + Stored(a) <= off[b] \/ off[b] + Stored(b) <= off[a]
    BY <2>1 DEF PlacedInv, Apart
  <2>7. PlanDisjoint
    BY <2>3, <2>6 DEF PlanDisjoint, Neighbours
  <2>8. ASSUME NEW b \in Blobs, NEW at \in {off[b], off[b] + 1, off[b] + Word, privateOff, imageSize}
        PROVE  BlobAccepted(at, Stored(b)) <=> FsckBlobAccepted(at, Stored(b))
    <3>1. at \in Nat
      BY <2>2, <2>3, PagesAssumption
    <3> QED BY <3>1, <2>3, CheckersAgreeOnPlaces
  <2> QED BY <2>1, <2>2, <2>3, <2>4, <2>5, <2>6, <2>7, <2>8 DEF KernelAccepts
<1> QED BY <1>1, PackInvariant, PTL

\* ff_page shares no page with foreign bytes, except that a leaking mount may show
\* bytes of other public blobs, on a machine with pages of any size.
THEOREM SharedIsOwn == Spec => []NothingForeignShared
<1>1. PackInv => NothingForeignShared
  <2> SUFFICES ASSUME PackInv, pc = "packed", NEW b \in Blobs, NEW page \in HostPages,
                      NEW leaking \in BOOLEAN, NEW offset \in 0..size[b] - 1,
                      Shared(b, offset, page, leaking)
               PROVE  \/ off[b] + offset + page - 1 < off[b] + size[b]
                      \/ /\ leaking /\ b \in public
                         /\ off[b] + offset >= publicOff
                         /\ off[b] + offset + page - 1 < privateOff
    BY DEF NothingForeignShared
  <2> USE DEF PackInv
  <2>1. page \in Nat \ {0} /\ size[b] \in Nat /\ offset \in Nat /\ off[b] \in Nat
    BY PagesAssumption DEF PackTypeOK
  <2>2. publicOff \in Nat /\ privateOff \in Nat
    BY DEF PackTypeOK
  <2>3. /\ Placed = Blobs /\ Start = privateOff /\ publicOff <= privateOff
    BY DEF PartsInv, Placed, Start
  <2>4. off[b] >= IF b \in public THEN publicOff ELSE privateOff
    BY <2>3 DEF PlacedInv
  <2>5. CASE size[b] - offset >= page
    BY <2>1, <2>5
  <2>6. CASE leaking /\ off[b] < privateOff /\ off[b] + offset + page <= privateOff
    BY <2>1, <2>2, <2>4, <2>6
  <2> QED BY <2>5, <2>6 DEF Shared
<1> QED BY <1>1, PackInvariant, PTL

-----------------------------------------------------------------------------
(* femtofsSim.  Induction over sizes takes the least counterexample.       *)

Below(m, n) == m < n

\* The least element of a set of naturals.
LEMMA LeastNat ==
  ASSUME NEW A \in SUBSET Nat, A # {}
  PROVE  \E n \in A : \A m \in A : n <= m
<1> DEFINE R == OpToRel(Below, Nat)
<1>1. IsWellFoundedOn(R, Nat)
  BY NatLessThanWellFounded DEF OpToRel, Below
<1>2. PICK n \in A : \A m \in A : ~ (<<m, n>> \in R)
  <2> HIDE DEF R
  <2> QED BY <1>1, WFMin
<1>3. ASSUME NEW m \in A PROVE n <= m
  <2>1. m \in Nat /\ n \in Nat OBVIOUS
  <2>2. ~(m < n) BY <1>2, <2>1 DEF OpToRel, Below
  <2> QED BY <2>1, <2>2
<1> QED BY <1>3

\* Induction over naturals: A is the set of those for which a statement holds.
LEMMA Sizewise ==
  ASSUME NEW A, 0 \in A, \A n \in Nat : n \in A => n + 1 \in A
  PROVE  Nat \subseteq A
<1> DEFINE B == Nat \ A
<1> SUFFICES ASSUME B # {} PROVE FALSE
  OBVIOUS
<1>1. PICK k \in B : \A j \in B : k <= j
  <2>1. B \in SUBSET Nat OBVIOUS
  <2> HIDE DEF B
  <2> QED BY <2>1, LeastNat
<1>2. k - 1 \in Nat /\ k - 1 \notin B /\ (k - 1) + 1 = k
  BY <1>1
<1> QED BY <1>2, <1>1

\* Without one member a finite set is smaller.
LEMMA Smaller ==
  ASSUME NEW S, IsFiniteSet(S), NEW x \in S
  PROVE  /\ IsFiniteSet(S \ {x}) /\ Cardinality(S) \in Nat \ {0}
         /\ Cardinality(S \ {x}) = Cardinality(S) - 1
<1>1. Cardinality(S) \in Nat /\ Cardinality(S) # 0
  BY FS_CardinalityType, FS_EmptySet
<1> QED BY <1>1, FS_RemoveElement

-----------------------------------------------------------------------------
(* The order of packing.                                                   *)

\* sizes of blobs 1, 2, ..., or of some of them
IsContents(w) == \E n \in Nat : DOMAIN w \in SUBSET (1..n) /\ w \in [DOMAIN w -> Nat \ {0}]

Before(w, c, b) == w[c] > w[b] \/ (w[c] = w[b] /\ c < b)
LastOf(w, S) == CHOOSE b \in S : \A c \in S \ {b} : w[c] > w[b] \/ (w[c] = w[b] /\ c < b)

\* The order has a last blob, and only one.
LEMMA LastIs ==
  ASSUME NEW w, IsContents(w), NEW S \in SUBSET DOMAIN w, S # {}
  PROVE  LastOf(w, S) \in S /\ \A c \in S \ {LastOf(w, S)} : Before(w, c, LastOf(w, S))
<1>1. PICK n \in Nat : DOMAIN w \in SUBSET (1..n) /\ w \in [DOMAIN w -> Nat \ {0}]
  BY DEF IsContents
<1> DEFINE A == {w[b] : b \in S}
<1>2. PICK b0 \in S : \A c \in S : w[b0] <= w[c]
  <2>1. A \in SUBSET Nat /\ A # {}
    BY <1>1
  <2>2. PICK m \in A : \A k \in A : m <= k
    <3> HIDE DEF A
    <3> QED BY <2>1, LeastNat
  <2> QED BY <2>2
<1> DEFINE D == {n - b : b \in {c \in S : w[c] = w[b0]}}
<1>3. PICK b \in S : w[b] = w[b0] /\ \A c \in S : w[c] = w[b0] => n - b <= n - c
  <2>1. D \in SUBSET Nat /\ D # {}
    BY <1>1
  <2>2. PICK m \in D : \A k \in D : m <= k
    <3> HIDE DEF D
    <3> QED BY <2>1, LeastNat
  <2> QED BY <2>2
<1>4. \A c \in S \ {b} : w[c] > w[b] \/ (w[c] = w[b] /\ c < b)
  <2> TAKE c \in S \ {b}
  <2>1. w[c] \in Nat /\ w[b] \in Nat /\ c \in Int /\ b \in Int /\ c # b
    BY <1>1
  <2>2. w[b] <= w[c] /\ (w[c] = w[b] => n - b <= n - c)
    BY <1>2, <1>3
  <2> QED BY <2>1, <2>2
<1> QED BY <1>4 DEF LastOf, Before

LEMMA LastOnly ==
  ASSUME NEW w, IsContents(w), NEW S \in SUBSET DOMAIN w, NEW b \in S,
         \A c \in S \ {b} : Before(w, c, b)
  PROVE  LastOf(w, S) = b
<1> DEFINE l == LastOf(w, S)
<1>1. l \in S /\ \A c \in S \ {l} : Before(w, c, l)
  BY LastIs
<1>2. PICK n \in Nat : DOMAIN w \in SUBSET (1..n) /\ w \in [DOMAIN w -> Nat \ {0}]
  BY DEF IsContents
<1> HIDE DEF l
<1>3. w[l] \in Nat /\ w[b] \in Nat /\ l \in Int /\ b \in Int
  BY <1>1, <1>2
<1>4. l = b
  <2> SUFFICES ASSUME l # b PROVE FALSE
    OBVIOUS
  <2>1. Before(w, l, b) /\ Before(w, b, l)
    BY <1>1
  <2> QED BY <1>3, <2>1 DEF Before
<1> QED BY <1>4 DEF l

-----------------------------------------------------------------------------
(* The simulator's fold.                                                   *)

Empty == [holes |-> {}, tail |-> 0]

\* the recursion of packContents, for the sets of D
IsRun(g, w, D) ==
  \A S \in D : g[S] = IF S = {} THEN Empty ELSE SimPut(g[S \ {LastOf(w, S)}], w[LastOf(w, S)])

\* what it has when the blobs of S are packed is Run(w)[S]
Run(w) ==
  CHOOSE g : g = [S \in SUBSET DOMAIN w |->
    IF S = {} THEN Empty ELSE SimPut(g[S \ {LastOf(w, S)}], w[LastOf(w, S)])]

UpToSize(S, n) == {T \in SUBSET S : Cardinality(T) <= n}
HasRun(w, n) ==
  \E g : DOMAIN g = UpToSize(DOMAIN w, n) /\ g = [S \in UpToSize(DOMAIN w, n) |-> g[S]]
         /\ IsRun(g, w, UpToSize(DOMAIN w, n))

LEMMA FiniteContents ==
  ASSUME NEW w, IsContents(w)
  PROVE  /\ IsFiniteSet(DOMAIN w)
         /\ \A S \in SUBSET DOMAIN w :
              IsFiniteSet(S) /\ Cardinality(S) \in Nat /\ (Cardinality(S) = 0 <=> S = {})
<1>1. PICK n \in Nat : DOMAIN w \in SUBSET (1..n)
  BY DEF IsContents
<1>2. IsFiniteSet(1..n)
  BY FS_Interval
<1>3. IsFiniteSet(DOMAIN w)
  BY <1>1, <1>2, FS_Subset
<1> QED BY <1>3, FS_Subset, FS_CardinalityType, FS_EmptySet

LEMMA RunsExist ==
  ASSUME NEW w, IsContents(w)
  PROVE  \A n \in Nat : HasRun(w, n)
<1> DEFINE A == {n \in Nat : HasRun(w, n)}
           U(n) == UpToSize(DOMAIN w, n)
<1>0. \A S \in SUBSET DOMAIN w :
        IsFiniteSet(S) /\ Cardinality(S) \in Nat /\ (Cardinality(S) = 0 <=> S = {})
  BY FiniteContents
<1>1. 0 \in A
  <2> DEFINE g == [S \in U(0) |-> Empty]
  <2>1. \A S \in U(0) : S = {}
    BY <1>0 DEF UpToSize
  <2>2. DOMAIN g = U(0) /\ g = [S \in U(0) |-> g[S]] /\ \A S \in U(0) : g[S] = Empty
    OBVIOUS
  <2> HIDE DEF g
  <2>3. IsRun(g, w, U(0))
    BY <2>1, <2>2 DEF IsRun
  <2>4. HasRun(w, 0)
    BY <2>2, <2>3 DEF HasRun
  <2> QED BY <2>4
<1>2. ASSUME NEW n \in Nat, n \in A PROVE n + 1 \in A
  <2>1. PICK g : DOMAIN g = U(n) /\ g = [S \in U(n) |-> g[S]] /\ IsRun(g, w, U(n))
    BY <1>2 DEF HasRun
  <2> DEFINE h == [S \in U(n + 1) |->
                     IF S = {} THEN Empty ELSE SimPut(g[S \ {LastOf(w, S)}], w[LastOf(w, S)])]
  <2>2. ASSUME NEW S \in U(n + 1), S # {}
        PROVE  S \ {LastOf(w, S)} \in U(n)
    <3>1. S \in SUBSET DOMAIN w /\ Cardinality(S) <= n + 1
      BY DEF UpToSize
    <3>2. LastOf(w, S) \in S
      BY <2>2, <3>1, LastIs
    <3>3. Cardinality(S \ {LastOf(w, S)}) = Cardinality(S) - 1 /\ Cardinality(S) \in Nat
      BY <1>0, <3>1, <3>2, Smaller
    <3>4. Cardinality(S \ {LastOf(w, S)}) <= n
      BY <3>1, <3>3
    <3> QED BY <3>1, <3>4 DEF UpToSize
  <2>3. \A S \in U(n + 1) :
          h[S] = IF S = {} THEN Empty ELSE SimPut(g[S \ {LastOf(w, S)}], w[LastOf(w, S)])
    OBVIOUS
  <2>4. DOMAIN h = U(n + 1) /\ h = [S \in U(n + 1) |-> h[S]]
    OBVIOUS
  <2> HIDE DEF h
  <2>5. \A S \in U(n) : h[S] = g[S]
    <3> TAKE S \in U(n)
    <3>1. S \in U(n + 1)
      BY <1>0 DEF UpToSize
    <3> QED BY <2>1, <2>3, <3>1 DEF IsRun
  <2>6. IsRun(h, w, U(n + 1))
    BY <2>2, <2>3, <2>5 DEF IsRun
  <2>7. HasRun(w, n + 1)
    BY <2>4, <2>6 DEF HasRun
  <2>8. n + 1 \in Nat OBVIOUS
  <2> QED BY <2>7, <2>8
<1>3. Nat \subseteq A
  <2> HIDE DEF A
  <2> QED BY <1>1, <1>2, Sizewise
<1> QED BY <1>3

\* SimPacked is the tail of that recursion.
LEMMA RunIs ==
  ASSUME NEW w, IsContents(w)
  PROVE  IsRun(Run(w), w, SUBSET DOMAIN w) /\ SimPacked(w) = Run(w)[DOMAIN w].tail
<1> DEFINE n == Cardinality(DOMAIN w)
           D == SUBSET DOMAIN w
<1>1. UpToSize(DOMAIN w, n) = D /\ n \in Nat
  <2>1. IsFiniteSet(DOMAIN w)
    BY FiniteContents
  <2>2. \A S \in D : Cardinality(S) <= n
    BY <2>1, FS_Subset
  <2> QED BY <2>1, <2>2, FS_CardinalityType DEF UpToSize
<1>2. PICK g : DOMAIN g = D /\ g = [S \in D |-> g[S]] /\ IsRun(g, w, D)
  <2> HIDE DEF n
  <2>1. HasRun(w, n)
    BY <1>1, RunsExist
  <2> QED BY <1>1, <2>1 DEF HasRun
<1> DEFINE step(f, S) == IF S = {} THEN Empty ELSE SimPut(f[S \ {LastOf(w, S)}], w[LastOf(w, S)])
<1>3. g = [S \in D |-> step(g, S)]
  <2>1. \A S \in D : g[S] = step(g, S)
    BY <1>2 DEF IsRun
  <2> HIDE DEF step
  <2> QED BY <1>2, <2>1
<1>4. Run(w) = [S \in D |-> step(Run(w), S)]
  BY <1>3 DEF Run
<1>5. IsRun(Run(w), w, D)
  <2>1. \A S \in D : Run(w)[S] = step(Run(w), S)
    <3> HIDE DEF step
    <3> QED BY <1>4
  <2> QED BY <2>1 DEF IsRun
<1>6. SimPacked(w) = Run(w)[DOMAIN w].tail
  BY DEF SimPacked, MapThenFoldSet, Run, LastOf, Empty
<1> QED BY <1>5, <1>6

-----------------------------------------------------------------------------
(* One blob in the simulator.                                              *)

\* what holds of its state: holes lie before the tail and apart
SimOK(r) ==
  /\ r = [holes |-> r.holes, tail |-> r.tail]
  /\ r.tail \in Nat /\ IsFiniteSet(r.holes)
  /\ r.holes \subseteq [at : Nat, size : Nat \ {0}]
  /\ \A h \in r.holes : h.at + h.size <= r.tail
  /\ \A g, h \in r.holes : g # h => Apart(g.at, g.size, h.at, h.size)

SimGap(r, n) ==
  LET used == r.tail % Page IN
  IF (n >= Page /\ used # 0) \/ (n < Page /\ used + n > Page) THEN Page - used ELSE 0

\* A blob that fits a hole goes to a smallest one.
LEMMA SimFills ==
  ASSUME NEW r, SimOK(r), NEW n \in Nat \ {0}, \E h \in r.holes : h.size >= n
  PROVE  \E h \in r.holes :
           /\ h.size >= n /\ \A g \in r.holes : g.size >= n => h.size <= g.size
           /\ SimPut(r, n) =
                [holes |-> (r.holes \ {h}) \cup
                   (IF h.size - n = 0 THEN {} ELSE {[at |-> h.at + n, size |-> h.size - n]}),
                 tail |-> r.tail]
<1> DEFINE fit == {h \in r.holes : h.size >= n}
           hole == CHOOSE h \in fit : \A g \in fit : h.size <= g.size
           A == {h.size : h \in fit}
<1>1. \E h \in fit : \A g \in fit : h.size <= g.size
  <2>1. A \in SUBSET Nat /\ A # {}
    BY DEF SimOK
  <2>2. PICK m \in A : \A k \in A : m <= k
    <3> HIDE DEF A
    <3> QED BY <2>1, LeastNat
  <2> QED BY <2>2
<1>2. hole \in fit /\ \A g \in fit : hole.size <= g.size
  <2> HIDE DEF fit
  <2> QED BY <1>1
<1>3. SimPut(r, n) = [r EXCEPT !.holes = (@ \ {hole}) \cup
        (IF hole.size - n = 0 THEN {} ELSE {[at |-> hole.at + n, size |-> hole.size - n]})]
  <2>1. fit # {}
    BY <1>2
  <2> QED BY <2>1 DEF SimPut
<1> HIDE DEF hole
<1>4. SimPut(r, n) =
        [holes |-> (r.holes \ {hole}) \cup
           (IF hole.size - n = 0 THEN {} ELSE {[at |-> hole.at + n, size |-> hole.size - n]}),
         tail |-> r.tail]
  BY <1>3 DEF SimOK
<1> QED BY <1>2, <1>4

\* Any other goes to the end, after a gap if it has to.
LEMMA SimAppends ==
  ASSUME NEW r, SimOK(r), NEW n \in Nat \ {0}, ~\E h \in r.holes : h.size >= n
  PROVE  /\ SimGap(r, n) \in Nat
         /\ SimPut(r, n) =
              [holes |-> r.holes \cup
                 (IF SimGap(r, n) = 0 THEN {} ELSE {[at |-> r.tail, size |-> SimGap(r, n)]}),
               tail |-> r.tail + SimGap(r, n) + n]
<1>1. {h \in r.holes : h.size >= n} = {}
  OBVIOUS
<1>2. SimGap(r, n) \in Nat
  <2>1. Page \in Nat \ {0} /\ r.tail \in Int
    BY PagesAssumption DEF SimOK
  <2>2. r.tail % Page \in 0..Page - 1
    BY <2>1, DivMod
  <2> QED BY <2>1, <2>2 DEF SimGap
<1> QED BY <1>1, <1>2 DEF SimPut, SimGap

LEMMA SimKeeps ==
  ASSUME NEW r, SimOK(r), NEW n \in Nat \ {0}
  PROVE  SimOK(SimPut(r, n)) /\ r.tail <= SimPut(r, n).tail
<1>0. /\ r.tail \in Nat /\ IsFiniteSet(r.holes)
      /\ \A h \in r.holes : h.at \in Nat /\ h.size \in Nat \ {0} /\ h.at + h.size <= r.tail
      /\ \A g, h \in r.holes : g # h => Apart(g.at, g.size, h.at, h.size)
  BY DEF SimOK
<1>1. CASE \E h \in r.holes : h.size >= n
  <2>1. PICK h \in r.holes :
          /\ h.size >= n
          /\ SimPut(r, n) =
               [holes |-> (r.holes \ {h}) \cup
                  (IF h.size - n = 0 THEN {} ELSE {[at |-> h.at + n, size |-> h.size - n]}),
                tail |-> r.tail]
    BY <1>1, SimFills
  <2> DEFINE x == [at |-> h.at + n, size |-> h.size - n]
             H == (r.holes \ {h}) \cup (IF h.size - n = 0 THEN {} ELSE {x})
  <2>2. h.at \in Nat /\ h.size \in Nat /\ h.at + h.size <= r.tail
    BY <1>0
  <2>3. x.at = h.at + n /\ x.size = h.size - n
    OBVIOUS
  <2>4. \A g \in H : g \in r.holes \ {h} \/ (g = x /\ h.size - n # 0)
    OBVIOUS
  <2>5. IsFiniteSet(H)
    <3>1. IsFiniteSet(r.holes \ {h})
      BY <1>0, FS_RemoveElement
    <3>2. IsFiniteSet((r.holes \ {h}) \cup {x})
      BY <3>1, FS_AddElement
    <3> QED BY <3>1, <3>2
  <2>6. h.size - n # 0 => x \in [at : Nat, size : Nat \ {0}] /\ x.at + x.size <= r.tail
    BY <2>1, <2>2
  <2>7. \A g \in r.holes \ {h} : Apart(g.at, g.size, x.at, x.size) /\ Apart(x.at, x.size, g.at, g.size)
    <3> TAKE g \in r.holes \ {h}
    <3>1. Apart(g.at, g.size, h.at, h.size) /\ g.at \in Nat /\ g.size \in Nat
      BY <1>0
    <3> QED BY <2>1, <2>2, <2>3, <3>1 DEF Apart
  <2>8. SimPut(r, n).holes = H /\ SimPut(r, n).tail = r.tail
        /\ SimPut(r, n) = [holes |-> SimPut(r, n).holes, tail |-> SimPut(r, n).tail]
    BY <2>1
  <2> HIDE DEF H, x
  <2>9. H \subseteq [at : Nat, size : Nat \ {0}] /\ \A g \in H : g.at + g.size <= r.tail
    BY <1>0, <2>4, <2>6 DEF SimOK
  <2>10. \A f, g \in H : f # g => Apart(f.at, f.size, g.at, g.size)
    BY <1>0, <2>4, <2>7
  <2> QED BY <1>0, <2>5, <2>8, <2>9, <2>10 DEF SimOK
<1>2. CASE ~\E h \in r.holes : h.size >= n
  <2> DEFINE gap == SimGap(r, n)
             x == [at |-> r.tail, size |-> gap]
             H == r.holes \cup (IF gap = 0 THEN {} ELSE {x})
  <2>1. gap \in Nat /\ SimPut(r, n) = [holes |-> H, tail |-> r.tail + gap + n]
    BY <1>2, SimAppends
  <2>2. \A g \in H : g \in r.holes \/ (g = x /\ gap # 0)
    OBVIOUS
  <2>3. x.at = r.tail /\ x.size = gap
    OBVIOUS
  <2>4. IsFiniteSet(H)
    <3>1. IsFiniteSet(r.holes \cup {x})
      BY <1>0, FS_AddElement
    <3> QED BY <1>0, <3>1
  <2>5. SimPut(r, n).holes = H /\ SimPut(r, n).tail = r.tail + gap + n
        /\ SimPut(r, n) = [holes |-> SimPut(r, n).holes, tail |-> SimPut(r, n).tail]
    BY <2>1
  <2>6. gap # 0 => x \in [at : Nat, size : Nat \ {0}]
    BY <1>0, <2>1
  <2> HIDE DEF H, x, gap
  <2>7. r.tail + gap + n \in Nat /\ r.tail <= r.tail + gap + n /\ r.tail + gap <= r.tail + gap + n
    BY <1>0, <2>1
  <2>8. H \subseteq [at : Nat, size : Nat \ {0}]
    BY <2>2, <2>6 DEF SimOK
  <2>9. \A g \in H : g.at + g.size <= r.tail + gap + n
    <3> TAKE g \in H
    <3>1. CASE g \in r.holes
      BY <1>0, <2>1, <3>1
    <3>2. CASE g = x
      BY <2>3, <2>7, <3>2
    <3> QED BY <2>2, <3>1, <3>2
  <2>10. \A f \in r.holes : Apart(f.at, f.size, x.at, x.size) /\ Apart(x.at, x.size, f.at, f.size)
    BY <1>0, <2>3 DEF Apart
  <2>11. \A f, g \in H : f # g => Apart(f.at, f.size, g.at, g.size)
    BY <1>0, <2>2, <2>10
  <2> QED BY <2>4, <2>5, <2>7, <2>8, <2>9, <2>11 DEF SimOK
<1> QED BY <1>1, <1>2

\* So it is after any blobs, and the tail does not go back.
LEMMA RunKeeps ==
  ASSUME NEW w, IsContents(w)
  PROVE  \A S \in SUBSET DOMAIN w : SimOK(Run(w)[S])
<1> DEFINE g == Run(w)
           A == {n \in Nat : \A S \in SUBSET DOMAIN w : Cardinality(S) <= n => SimOK(g[S])}
<1>0. \A S \in SUBSET DOMAIN w :
        IsFiniteSet(S) /\ Cardinality(S) \in Nat /\ (Cardinality(S) = 0 <=> S = {})
  BY FiniteContents
<1>1. \A S \in SUBSET DOMAIN w :
        g[S] = IF S = {} THEN Empty ELSE SimPut(g[S \ {LastOf(w, S)}], w[LastOf(w, S)])
  BY RunIs DEF IsRun
<1> HIDE DEF g
<1>2. SimOK(Empty)
  BY FS_EmptySet DEF SimOK, Empty
<1>3. 0 \in A
  <2>1. \A S \in SUBSET DOMAIN w : Cardinality(S) <= 0 => S = {}
    BY <1>0
  <2>2. g[{}] = Empty
    BY <1>1
  <2> QED BY <1>2, <2>1, <2>2
<1>4. ASSUME NEW n \in Nat, n \in A PROVE n + 1 \in A
  <2> SUFFICES ASSUME NEW S \in SUBSET DOMAIN w, Cardinality(S) <= n + 1 PROVE SimOK(g[S])
    OBVIOUS
  <2>1. CASE S = {}
    BY <1>1, <1>2, <2>1
  <2>2. CASE S # {}
    <3> DEFINE b == LastOf(w, S)
    <3>1. b \in S /\ w[b] \in Nat \ {0}
      BY <2>2, LastIs DEF IsContents
    <3>2. g[S] = SimPut(g[S \ {b}], w[b])
      BY <1>1, <2>2
    <3> HIDE DEF b
    <3>3. Cardinality(S \ {b}) = Cardinality(S) - 1 /\ Cardinality(S) \in Nat
      BY <1>0, <3>1, Smaller
    <3>4. Cardinality(S \ {b}) <= n /\ S \ {b} \in SUBSET DOMAIN w
      BY <3>3
    <3>5. SimOK(g[S \ {b}])
      BY <1>4, <3>4
    <3> QED BY <3>1, <3>2, <3>5, SimKeeps
  <2> QED BY <2>1, <2>2
<1>5. Nat \subseteq A
  <2> HIDE DEF A
  <2> QED BY <1>3, <1>4, Sizewise
<1> QED BY <1>0, <1>5 DEF g

LEMMA RunGrows ==
  ASSUME NEW w, IsContents(w), NEW T \in SUBSET DOMAIN w,
         \A c \in T : \A b \in DOMAIN w \ T : Before(w, c, b)
  PROVE  Run(w)[T].tail <= Run(w)[DOMAIN w].tail
<1> DEFINE g == Run(w)
           A == {n \in Nat : \A S \in SUBSET DOMAIN w :
                   T \subseteq S /\ Cardinality(S) <= n => g[T].tail <= g[S].tail}
<1>0. \A S \in SUBSET DOMAIN w :
        IsFiniteSet(S) /\ Cardinality(S) \in Nat /\ (Cardinality(S) = 0 <=> S = {})
  BY FiniteContents
<1>1. \A S \in SUBSET DOMAIN w :
        g[S] = IF S = {} THEN Empty ELSE SimPut(g[S \ {LastOf(w, S)}], w[LastOf(w, S)])
  BY RunIs DEF IsRun
<1>2. \A S \in SUBSET DOMAIN w : SimOK(g[S]) /\ g[S].tail \in Nat
  <2>1. \A S \in SUBSET DOMAIN w : SimOK(g[S])
    BY RunKeeps
  <2> HIDE DEF g
  <2> QED BY <2>1 DEF SimOK
<1> HIDE DEF g
<1>3. 0 \in A
  <2>1. \A S \in SUBSET DOMAIN w : T \subseteq S /\ Cardinality(S) <= 0 => S = T
    BY <1>0
  <2> QED BY <1>2, <2>1
<1>4. ASSUME NEW n \in Nat, n \in A PROVE n + 1 \in A
  <2> SUFFICES ASSUME NEW S \in SUBSET DOMAIN w, T \subseteq S, Cardinality(S) <= n + 1
               PROVE  g[T].tail <= g[S].tail
    OBVIOUS
  <2>1. CASE S = T
    BY <1>2, <2>1
  <2>2. CASE S # T
    <3> DEFINE b == LastOf(w, S)
    <3>1. /\ b \in S /\ w[b] \in Nat \ {0} /\ S # {}
          /\ \A c \in S \ {b} : Before(w, c, b)
      BY <2>2, LastIs DEF IsContents
    <3>2. g[S] = SimPut(g[S \ {b}], w[b])
      BY <1>1, <3>1
    <3> HIDE DEF b
    <3>3. b \notin T
      <4> SUFFICES ASSUME b \in T PROVE FALSE
        OBVIOUS
      <4>1. PICK c \in S : c \notin T
        BY <2>2
      <4>2. Before(w, b, c) /\ Before(w, c, b)
        BY <3>1, <4>1
      <4>3. w[b] \in Nat /\ w[c] \in Nat /\ b \in Int /\ c \in Int
        BY <3>1 DEF IsContents
      <4> QED BY <4>2, <4>3 DEF Before
    <3>4. Cardinality(S \ {b}) = Cardinality(S) - 1 /\ Cardinality(S) \in Nat
      BY <1>0, <3>1, Smaller
    <3>5. Cardinality(S \ {b}) <= n /\ S \ {b} \in SUBSET DOMAIN w /\ T \subseteq S \ {b}
      BY <3>3, <3>4
    <3>6. g[T].tail <= g[S \ {b}].tail
      BY <1>4, <3>5
    <3>7. SimOK(g[S \ {b}])
      BY <1>2, <3>5
    <3>8. g[S \ {b}].tail <= g[S].tail
      BY <3>1, <3>2, <3>7, SimKeeps
    <3>9. g[T].tail \in Nat /\ g[S].tail \in Nat /\ g[S \ {b}].tail \in Nat
      BY <1>2, <3>5
    <3> QED BY <3>6, <3>8, <3>9
  <2> QED BY <2>1, <2>2
<1>5. Nat \subseteq A
  <2> HIDE DEF A
  <2> QED BY <1>3, <1>4, Sizewise
<1> QED BY <1>0, <1>5 DEF g

-----------------------------------------------------------------------------
(* The simulator's holes are the builder's, up to their places.            *)

Count(H, s) == Cardinality({h \in H : h.size = s})
SameSizes(H, K) == \A s \in Nat : Count(H, s) = Count(K, s)

LEMMA CountMore ==
  ASSUME NEW H, IsFiniteSet(H), NEW x, x \notin H, NEW s
  PROVE  /\ IsFiniteSet(H \cup {x}) /\ Count(H, s) \in Nat
         /\ Count(H \cup {x}, s) = Count(H, s) + (IF x.size = s THEN 1 ELSE 0)
<1> DEFINE C == {h \in H : h.size = s}
<1>1. IsFiniteSet(C) /\ Cardinality(C) \in Nat /\ IsFiniteSet(H \cup {x})
  BY FS_Subset, FS_CardinalityType, FS_AddElement
<1>2. CASE x.size = s
  <2>1. {h \in H \cup {x} : h.size = s} = C \cup {x} /\ x \notin C
    BY <1>2
  <2> HIDE DEF C
  <2>2. Cardinality(C \cup {x}) = Cardinality(C) + 1
    BY <1>1, <2>1, FS_AddElement
  <2> QED BY <1>1, <1>2, <2>1, <2>2 DEF Count, C
<1>3. CASE x.size # s
  <2>1. {h \in H \cup {x} : h.size = s} = C
    BY <1>3
  <2>2. Count(H \cup {x}, s) = Count(H, s) /\ Count(H, s) \in Nat
    BY <1>1, <2>1 DEF Count
  <2> QED BY <1>1, <1>3, <2>2
<1> QED BY <1>2, <1>3

LEMMA CountLess ==
  ASSUME NEW H, IsFiniteSet(H), NEW x \in H, NEW s
  PROVE  /\ IsFiniteSet(H \ {x}) /\ Count(H \ {x}, s) \in Nat
         /\ Count(H, s) = Count(H \ {x}, s) + (IF x.size = s THEN 1 ELSE 0)
<1> DEFINE G == H \ {x}
<1>1. IsFiniteSet(G) /\ x \notin G /\ G \cup {x} = H
  BY FS_Subset
<1> HIDE DEF G
<1>2. Count(G, s) \in Nat /\ Count(G \cup {x}, s) = Count(G, s) + (IF x.size = s THEN 1 ELSE 0)
  BY <1>1, CountMore
<1> QED BY <1>1, <1>2 DEF G

\* A size that one set of holes has, the other has too.
LEMMA SameHas ==
  ASSUME NEW H, IsFiniteSet(H), NEW K, IsFiniteSet(K), SameSizes(H, K),
         NEW h \in H, h.size \in Nat
  PROVE  \E k \in K : k.size = h.size
<1> DEFINE C == {g \in H : g.size = h.size}
           D == {k \in K : k.size = h.size}
<1>1. IsFiniteSet(C) /\ IsFiniteSet(D) /\ C # {} /\ Cardinality(C) = Cardinality(D)
  <2>1. IsFiniteSet(C) /\ IsFiniteSet(D)
    BY FS_Subset
  <2>2. Cardinality(C) = Cardinality(D)
    BY DEF SameSizes, Count
  <2> QED BY <2>1, <2>2
<1> HIDE DEF C
<1>2. D # {}
  <2> HIDE DEF D
  <2> QED BY <1>1, FS_EmptySet
<1> QED BY <1>2

LEMMA SameMore ==
  ASSUME NEW H, IsFiniteSet(H), NEW K, IsFiniteSet(K), SameSizes(H, K),
         NEW x, x \notin H, NEW y, y \notin K, x.size = y.size
  PROVE  SameSizes(H \cup {x}, K \cup {y})
<1> SUFFICES ASSUME NEW s \in Nat PROVE Count(H \cup {x}, s) = Count(K \cup {y}, s)
  BY DEF SameSizes
<1>1. Count(H \cup {x}, s) = Count(H, s) + (IF x.size = s THEN 1 ELSE 0)
  BY CountMore
<1>2. Count(K \cup {y}, s) = Count(K, s) + (IF y.size = s THEN 1 ELSE 0)
  BY CountMore
<1>3. Count(H, s) = Count(K, s)
  BY DEF SameSizes
<1> QED BY <1>1, <1>2, <1>3

LEMMA SameLess ==
  ASSUME NEW H, IsFiniteSet(H), NEW K, IsFiniteSet(K), SameSizes(H, K),
         NEW x \in H, NEW y \in K, x.size = y.size
  PROVE  SameSizes(H \ {x}, K \ {y})
<1> SUFFICES ASSUME NEW s \in Nat PROVE Count(H \ {x}, s) = Count(K \ {y}, s)
  BY DEF SameSizes
<1> DEFINE Less(J, z) == Count(J \ {z}, s) \in Nat
             /\ Count(J, s) = Count(J \ {z}, s) + (IF z.size = s THEN 1 ELSE 0)
<1>0. \A J : IsFiniteSet(J) => \A z \in J : Less(J, z)
  BY CountLess
<1>1. Less(H, x)
  <2> HIDE DEF Less
  <2> QED BY <1>0
<1>2. Less(K, y)
  <2> HIDE DEF Less
  <2> QED BY <1>0
<1>3. Count(H, s) = Count(K, s)
  BY DEF SameSizes
<1> QED BY <1>1, <1>2, <1>3

-----------------------------------------------------------------------------
(* The simulator goes along with the builder.                              *)

Part == IF part = "public" THEN public ELSE Blobs \ public

\* what the simulator has packed of the part when the builder has todo to do
SimNow == Run(SimContents(Part))[Part \ todo]

\* blobs leave todo in the order of their sizes, on the same holes and tail
OrderInv == \A c \in Part \ todo, b \in todo :
  Stored(c) > Stored(b) \/ (Stored(c) = Stored(b) /\ c < b)

SimInv ==
  /\ \E n \in Nat : Blobs = 1..n
  /\ IsFiniteSet(holes)
  /\ pc \in {"pack", "packed"} =>
       /\ SimOverflow = {}
       /\ publicOff = SimPublicOff
       /\ part = "private" => privateOff = SimPrivateOff
  /\ pc = "pack" => /\ OrderInv
                    /\ SimNow.tail = tail
                    /\ SameSizes(SimNow.holes, holes)
  /\ pc = "packed" => imageSize = SimImageSize /\ imageSize < Limit
  /\ pc = "error" => SimRefuses

\* A size cannot be encoded exactly if the encoded one reaches the limit.
LEMMA CountedFits ==
  ASSUME NEW s \in Nat
  PROVE  SimCounted(s) <=> Encoded(s) < Limit
<1> DEFINE q == (s + Word) \div Word
           r == (s + Word) % Word
           l == Limit \div Word
<1>1. Word \in Nat \ {0} /\ Limit \in Nat \ {0} /\ s + Word \in Int
  BY PagesAssumption
<1>2. q \in Int /\ r \in 0..Word - 1 /\ s + Word = Word * q + r
  BY <1>1, DivMod
<1>3. Limit % Word = 0
  <2>1. Limit \in Int /\ Limit % Page = 0
    BY PagesAssumption
  <2> QED BY <2>1, PageIsWords
<1>4. l \in Int /\ Limit = Word * l
  BY <1>1, <1>3, DivMod
<1>5. Encoded(s) = Word * q
  BY <1>1, <1>2 DEF Encoded
<1> HIDE DEF q, r, l
<1>6. CASE q < l
  <2>1. Word * q + Word <= Word * l
    BY <1>1, <1>2, <1>4, <1>6
  <2> QED BY <1>1, <1>2, <1>4, <1>5, <2>1 DEF SimCounted
<1>7. CASE q >= l
  <2>1. Word * l <= Word * q
    BY <1>1, <1>2, <1>4, <1>7
  <2> QED BY <1>1, <1>2, <1>4, <1>5, <2>1 DEF SimCounted
<1> QED BY <1>2, <1>4, <1>6, <1>7

\* The contents of a part are sizes.
LEMMA ContentsAre ==
  ASSUME PackTypeOK, PartsInv, NEW n \in Nat, Blobs = 1..n, NEW S \in SUBSET Blobs
  PROVE  /\ IsContents(SimContents(S))
         /\ DOMAIN SimContents(S) = S \ SimOverflow
         /\ \A b \in S \ SimOverflow : SimContents(S)[b] = Stored(b)
<1>1. \A b \in Blobs : Stored(b) \in Nat \ {0}
  BY Measures
<1>2. SimContents(S) = [b \in S \ SimOverflow |-> Stored(b)]
  BY DEF SimContents
<1> QED BY <1>1, <1>2 DEF IsContents

LEMMA PackedTypes ==
  ASSUME PackTypeOK, PartsInv, NEW n \in Nat, Blobs = 1..n
  PROVE  /\ SimPublicOff \in Nat /\ SimPrivateOff \in Nat /\ SimImageSize \in Nat
         /\ SimPublicOff <= SimPrivateOff /\ SimPrivateOff <= SimImageSize
         /\ SimPacked(SimContents(public)) \in Nat
         /\ SimPacked(SimContents(Blobs \ public)) \in Nat
         /\ SimPublicOff + SimPacked(SimContents(public)) <= SimPrivateOff
         /\ SimPrivateOff + SimPacked(SimContents(Blobs \ public)) <= SimImageSize
<1>1. ASSUME NEW S \in SUBSET Blobs
      PROVE  SimPacked(SimContents(S)) \in Nat
  <2>1. IsContents(SimContents(S))
    BY ContentsAre
  <2>2. /\ SimOK(Run(SimContents(S))[DOMAIN SimContents(S)])
        /\ SimPacked(SimContents(S)) = Run(SimContents(S))[DOMAIN SimContents(S)].tail
    BY <2>1, RunKeeps, RunIs
  <2> QED BY <2>2 DEF SimOK
<1>2. public \in SUBSET Blobs /\ Blobs \ public \in SUBSET Blobs /\ metaEnd \in Nat
  BY DEF PackTypeOK
<1> DEFINE p == SimPacked(SimContents(public))
           q == SimPacked(SimContents(Blobs \ public))
<1>3. p \in Nat /\ q \in Nat
  BY <1>1, <1>2
<1>4. SimPublicOff \in Nat
  BY <1>2, AlignedUp DEF SimPublicOff
<1>5. SimPrivateOff = AlignUp(SimPublicOff + p)
  BY DEF SimPrivateOff
<1>6. SimImageSize = AlignUp(SimPrivateOff + q)
  BY DEF SimImageSize
<1> HIDE DEF p, q
<1>7. SimPrivateOff \in Nat /\ SimPublicOff + p <= SimPrivateOff
  <2>1. SimPublicOff + p \in Nat
    BY <1>3, <1>4
  <2> QED BY <1>5, <2>1, AlignedUp
<1>8. SimImageSize \in Nat /\ SimPrivateOff + q <= SimImageSize
  <2>1. SimPrivateOff + q \in Nat
    BY <1>3, <1>7
  <2> QED BY <1>6, <2>1, AlignedUp
<1> QED BY <1>3, <1>4, <1>7, <1>8 DEF p, q

\* What the simulator estimates depends on what does not change.
LEMMA SimStays ==
  ASSUME UNCHANGED <<size, public, metaEnd>>
  PROVE  /\ Blobs' = Blobs /\ \A b \in Blobs : Stored(b)' = Stored(b)
         /\ SimOverflow' = SimOverflow
         /\ \A S \in SUBSET Blobs : SimContents(S)' = SimContents(S)
         /\ SimPublicOff' = SimPublicOff /\ SimPrivateOff' = SimPrivateOff
         /\ SimImageSize' = SimImageSize /\ (SimRefuses' <=> SimRefuses)
<1>1. Blobs' = Blobs /\ \A b : Stored(b)' = Stored(b)
  BY DEF Blobs, Stored
<1>2. SimOverflow' = SimOverflow
  BY <1>1 DEF SimOverflow
<1>3. \A S \in SUBSET Blobs : SimContents(S)' = SimContents(S)
  BY <1>1, <1>2 DEF SimContents
<1>4. SimPublicOff' = SimPublicOff
  BY DEF SimPublicOff
<1>5. SimContents(public)' = SimContents(public) /\ SimContents(Blobs \ public)' = SimContents(Blobs \ public)
  <2>1. public' = public /\ (Blobs \ public)' = Blobs \ public
    BY <1>1
  <2>2. [b \in public' \ SimOverflow' |-> Stored(b)'] = [b \in public \ SimOverflow |-> Stored(b)]
    BY <1>1, <1>2, <2>1
  <2>3. [b \in (Blobs \ public)' \ SimOverflow' |-> Stored(b)']
          = [b \in (Blobs \ public) \ SimOverflow |-> Stored(b)]
    BY <1>1, <1>2, <2>1
  <2> QED BY <2>2, <2>3 DEF SimContents
<1>6. SimPrivateOff' = SimPrivateOff
  BY <1>4, <1>5 DEF SimPrivateOff
<1>7. SimImageSize' = SimImageSize
  BY <1>5, <1>6 DEF SimImageSize
<1> QED BY <1>1, <1>2, <1>3, <1>4, <1>6, <1>7 DEF SimRefuses

\* The blob taken next is the next one of the simulator's recursion.
LEMMA NextRun ==
  ASSUME PackTypeOK, PartsInv, NEW n \in Nat, Blobs = 1..n, SimOverflow = {}, OrderInv,
         NEW b \in todo, Foremost(b)
  PROVE  LET w == SimContents(Part) IN
         /\ Run(w)[Part \ (todo \ {b})] = SimPut(SimNow, Stored(b))
         /\ SimOK(SimNow) /\ Stored(b) \in Nat \ {0}
         /\ SimPut(SimNow, Stored(b)).tail <= SimPacked(w)
         /\ \A c \in Part \ (todo \ {b}), a \in todo \ {b} :
              Stored(c) > Stored(a) \/ (Stored(c) = Stored(a) /\ c < a)
<1> DEFINE w == SimContents(Part)
           T == Part \ todo
           E == Part \ (todo \ {b})
<1>1. Part \in SUBSET Blobs /\ todo \subseteq Part
  BY DEF PackTypeOK, Part
<1>2. IsContents(w) /\ DOMAIN w = Part /\ \A a \in Part : w[a] = Stored(a)
  BY <1>1, ContentsAre
<1>3. E = T \cup {b} /\ b \notin T /\ E \in SUBSET DOMAIN w /\ T \in SUBSET DOMAIN w
  BY <1>1, <1>2
<1>4. \A c \in T : \A a \in todo : Before(w, c, a)
  BY <1>1, <1>2 DEF OrderInv, Before
<1>5. \A a \in todo \ {b} : Before(w, b, a)
  BY <1>1, <1>2 DEF Foremost, Before
<1>6. \A c \in E : \A a \in DOMAIN w \ E : Before(w, c, a)
  <2>1. DOMAIN w \ E = todo \ {b}
    BY <1>1, <1>2
  <2> QED BY <1>3, <1>4, <1>5, <2>1
<1>7. SimNow = Run(w)[T]
  BY DEF SimNow
<1>8. IsRun(Run(w), w, SUBSET DOMAIN w) /\ SimPacked(w) = Run(w)[DOMAIN w].tail
  BY <1>2, RunIs
<1>9. SimOK(Run(w)[T])
  BY <1>2, <1>3, RunKeeps
<1>10. Run(w)[E].tail <= Run(w)[DOMAIN w].tail
  <2> HIDE DEF E, w
  <2> QED BY <1>2, <1>3, <1>6, RunGrows
<1>11. ASSUME NEW c \in E, NEW a \in todo \ {b}
       PROVE  Stored(c) > Stored(a) \/ (Stored(c) = Stored(a) /\ c < a)
  <2>1. c \in Part /\ a \in Part /\ a \in DOMAIN w \ E
    BY <1>1, <1>2
  <2>2. Before(w, c, a) /\ w[c] = Stored(c) /\ w[a] = Stored(a)
    BY <1>2, <1>6, <2>1
  <2> QED BY <2>2 DEF Before
<1>12. Stored(b) \in Nat \ {0} /\ w[b] = Stored(b)
  BY <1>1, <1>2, Measures
<1>13. Run(w)[E] = SimPut(Run(w)[T], Stored(b))
  <2> HIDE DEF w, T
  <2>1. \A c \in E \ {b} : Before(w, c, b)
    BY <1>3, <1>4
  <2>2. LastOf(w, E) = b
    <3> HIDE DEF E
    <3> QED BY <1>2, <1>3, <2>1, LastOnly
  <2>3. E # {} /\ E \ {b} = T
    BY <1>3
  <2> HIDE DEF E
  <2> QED BY <1>3, <1>8, <1>12, <2>2, <2>3 DEF IsRun
<1> QED BY <1>7, <1>8, <1>9, <1>10, <1>11, <1>12, <1>13

\* Where the simulator's tail leaves the range of offsets, it refuses the image.
LEMMA Refused ==
  ASSUME PackTypeOK, PartsInv, SimInv, pc = "pack", NEW t \in Nat,
         t <= SimPacked(SimContents(Part)), t >= Limit \/ Start + t >= Limit
  PROVE  SimRefuses
<1>1. PICK n \in Nat : Blobs = 1..n
  BY DEF SimInv
<1>2. /\ SimPublicOff \in Nat /\ SimPrivateOff \in Nat /\ SimImageSize \in Nat
      /\ SimPublicOff <= SimPrivateOff /\ SimPrivateOff <= SimImageSize
      /\ SimPacked(SimContents(public)) \in Nat
      /\ SimPacked(SimContents(Blobs \ public)) \in Nat
      /\ SimPublicOff + SimPacked(SimContents(public)) <= SimPrivateOff
      /\ SimPrivateOff + SimPacked(SimContents(Blobs \ public)) <= SimImageSize
  BY <1>1, PackedTypes
<1>3. /\ publicOff = SimPublicOff
      /\ part = "private" => privateOff = SimPrivateOff
      /\ part \in {"public", "private"}
  BY DEF SimInv, PackTypeOK
<1>4. Limit \in Nat
  BY PagesAssumption
<1>5. CASE part = "public"
  <2>1. Part = public /\ Start = SimPublicOff
    BY <1>3, <1>5 DEF Part, Start
  <2> QED BY <1>2, <1>4, <2>1 DEF SimRefuses
<1>6. CASE part = "private"
  <2>1. Part = Blobs \ public /\ Start = SimPrivateOff
    BY <1>3, <1>6 DEF Part, Start
  <2> QED BY <1>2, <1>4, <2>1 DEF SimRefuses
<1> QED BY <1>3, <1>5, <1>6

LEMMA SimFailStep ==
  ASSUME SimInv, Fail, SimRefuses
  PROVE  SimInv'
<1>1. UNCHANGED <<size, public, metaEnd, holes>> /\ pc' = "error"
  BY DEF Fail, input
<1>2. Blobs' = Blobs /\ SimRefuses'
  BY <1>1, SimStays
<1> QED BY <1>1, <1>2 DEF SimInv

\* A blob that both put, on holes that stay alike.
LEMMA SimPutStep ==
  ASSUME PackInv, SimInv, pc = "pack", NEW b \in todo, Foremost(b), NEW relative, Put(b, relative),
         IsFiniteSet(holes'),
         SimPut(SimNow, Stored(b)).tail = tail',
         SameSizes(SimPut(SimNow, Stored(b)).holes, holes')
  PROVE  SimInv'
<1> USE DEF PackInv
<1>1. /\ UNCHANGED <<size, public, metaEnd, part, publicOff, privateOff, imageSize, pc>>
      /\ todo' = todo \ {b}
  BY DEF Put, input, bounds
<1>2. PICK n \in Nat : Blobs = 1..n
  BY DEF SimInv
<1>3. /\ Blobs' = Blobs /\ \A a \in Blobs : Stored(a)' = Stored(a)
      /\ SimOverflow' = SimOverflow
      /\ \A S \in SUBSET Blobs : SimContents(S)' = SimContents(S)
      /\ SimPublicOff' = SimPublicOff /\ SimPrivateOff' = SimPrivateOff
  BY <1>1, SimStays
<1>4. Part' = Part /\ Part \in SUBSET Blobs /\ todo \subseteq Part
  BY <1>1, <1>3 DEF Part, PackTypeOK
<1>5. SimContents(Part)' = SimContents(Part)
  <2>1. \A S : SimContents(S)' = [a \in S \ SimOverflow' |-> Stored(a)']
    BY DEF SimContents
  <2>2. [a \in Part \ SimOverflow' |-> Stored(a)'] = [a \in Part \ SimOverflow |-> Stored(a)]
    BY <1>3, <1>4
  <2> QED BY <1>4, <2>2 DEF SimContents
<1>6. /\ Run(SimContents(Part))[Part \ (todo \ {b})] = SimPut(SimNow, Stored(b))
      /\ \A c \in Part \ (todo \ {b}), a \in todo \ {b} :
           Stored(c) > Stored(a) \/ (Stored(c) = Stored(a) /\ c < a)
  BY <1>2, NextRun DEF SimInv
<1>7. SimNow' = SimPut(SimNow, Stored(b))
  <2>1. SimNow' = Run(SimContents(Part)')[Part' \ todo']
    BY DEF SimNow
  <2> QED BY <1>1, <1>4, <1>5, <1>6, <2>1
<1>8. OrderInv'
  <2>1. \A c \in Part \ (todo \ {b}), a \in todo \ {b} : Stored(c)' = Stored(c) /\ Stored(a)' = Stored(a)
    BY <1>3, <1>4
  <2> QED BY <1>1, <1>4, <1>6, <2>1 DEF OrderInv
<1> QED BY <1>1, <1>3, <1>7, <1>8 DEF SimInv

\* The gap before an appended blob: page by page, as long as no sum wraps.
LEMMA GapIs ==
  ASSUME tail \in Nat, NEW r, r.tail = tail, NEW b, Stored(b) \in Nat \ {0},
         tail + Stored(b) - 1 < Limit
  PROVE  (IF MustAlign(b) THEN AlignUp(tail) ELSE tail) = tail + SimGap(r, Stored(b))
<1> DEFINE n == Stored(b)
           used == tail % Page
<1>1. Page \in Nat \ {0} /\ Limit \in Nat \ {0} /\ tail \in Int
  BY PagesAssumption
<1>2. used \in 0..Page - 1
  BY <1>1, DivMod
<1>3. AlignUp(tail) = IF used = 0 THEN tail ELSE tail - used + Page
  BY AlignedUp
<1>4. Wrap(tail + n - 1) = tail + n - 1
  <2>1. tail + n - 1 \in 0..Limit - 1
    BY <1>1
  <2> QED BY <2>1, NoWrap
<1>5. n < Page => (used + n <= Page <=> tail \div Page = (tail + n - 1) \div Page)
  BY SamePage
<1>6. MustAlign(b) <=> n >= Page \/ tail \div Page # (tail + n - 1) \div Page
  BY <1>4 DEF MustAlign
<1>7. SimGap(r, n) = IF (n >= Page /\ used # 0) \/ (n < Page /\ used + n > Page)
                    THEN Page - used ELSE 0
  BY DEF SimGap
<1> HIDE DEF n, used
<1>8. n \in Nat \ {0}
  BY DEF n
<1>9. MustAlign(b) <=> n >= Page \/ used + n > Page
  BY <1>1, <1>2, <1>5, <1>6, <1>8
<1> QED BY <1>1, <1>2, <1>3, <1>7, <1>8, <1>9 DEF n

\* Both fill a hole of the same size.
LEMMA SimFillStep == ASSUME PackInv, SimInv, FillHole PROVE SimInv'
<1> USE DEF PackInv
<1> DEFINE Rest(b, h) == [offset |-> h.offset + Stored(b), size |-> h.size - Stored(b)]
           Filled(b, h) ==
             /\ Put(b, h.offset) /\ UNCHANGED tail
             /\ holes' = (holes \ {h}) \cup (IF h.size = Stored(b) THEN {} ELSE {Rest(b, h)})
<1>1. PICK b \in todo, h \in holes :
        /\ Foremost(b) /\ h.size >= Stored(b)
        /\ \A g \in holes : g.size >= Stored(b) => h.size < g.size \/ h.size = g.size
        /\ \/ Start + h.offset >= Limit /\ Fail
           \/ Filled(b, h)
  BY DEF FillHole, Fitting
<1> DEFINE n == Stored(b)
           r == SimNow
<1>2. PICK N \in Nat : Blobs = 1..N
  BY DEF SimInv
<1>3. pc = "pack" /\ IsFiniteSet(holes) /\ r.tail = tail /\ SameSizes(r.holes, holes)
  BY DEF FillHole, SimInv
<1>4. /\ SimOK(r) /\ n \in Nat \ {0}
      /\ SimPut(r, n).tail <= SimPacked(SimContents(Part))
  BY <1>1, <1>2, <1>3, NextRun DEF SimInv
<1>5. SimOK(SimPut(r, n)) /\ r.tail <= SimPut(r, n).tail
  BY <1>4, SimKeeps
<1>6. /\ h.offset \in Nat /\ h.size \in Nat /\ tail \in Nat
      /\ h.offset + h.size <= tail
  BY DEF PackTypeOK, HolesInv
<1>7. CASE Start + h.offset >= Limit /\ Fail
  <2>1. Start \in Nat /\ Limit \in Nat
    BY Measures, PagesAssumption
  <2>2. SimPut(r, n).tail \in Nat
    BY <1>5 DEF SimOK
  <2> HIDE DEF r, n
  <2>3. Start + SimPut(r, n).tail >= Limit
    BY <1>3, <1>5, <1>6, <1>7, <2>1, <2>2
  <2>4. SimRefuses
    BY <1>3, <1>4, <2>2, <2>3, Refused
  <2> QED BY <1>7, <2>4, SimFailStep
<1>8. CASE Filled(b, h)
  <2> DEFINE x == Rest(b, h)
  <2>1. IsFiniteSet(r.holes) /\ \A k \in r.holes : k.size \in Nat /\ k.at \in Nat
    BY <1>4 DEF SimOK
  <2>2. \E k \in r.holes : k.size >= n
    <3>1. \E k \in r.holes : k.size = h.size
      <4> HIDE DEF r
      <4>1. SameSizes(holes, r.holes)
        BY <1>3 DEF SameSizes
      <4> QED BY <1>3, <1>6, <2>1, <4>1, SameHas
    <3> QED BY <1>1, <3>1
  <2>3. PICK k \in r.holes :
          /\ k.size >= n /\ \A g \in r.holes : g.size >= n => k.size <= g.size
          /\ SimPut(r, n) =
               [holes |-> (r.holes \ {k}) \cup
                  (IF k.size - n = 0 THEN {} ELSE {[at |-> k.at + n, size |-> k.size - n]}),
                tail |-> r.tail]
    <3> HIDE DEF r, n
    <3> QED BY <1>4, <2>2, SimFills
  <2> DEFINE y == [at |-> k.at + n, size |-> k.size - n]
  <2>4. k.size = h.size
    <3>1. \E g \in holes : g.size = k.size
      <4> HIDE DEF r
      <4> QED BY <1>3, <2>1, SameHas
    <3>2. \E g \in r.holes : g.size = h.size
      <4> HIDE DEF r
      <4>1. SameSizes(holes, r.holes)
        BY <1>3 DEF SameSizes
      <4> QED BY <1>3, <1>6, <2>1, <4>1, SameHas
    <3>3. k.size \in Nat
      BY <2>1
    <3>4. h.size <= k.size
      BY <1>1, <1>6, <2>3, <3>1, <3>3
    <3>5. k.size <= h.size
      BY <1>1, <2>3, <3>2
    <3> QED BY <1>6, <3>3, <3>4, <3>5
  <2>5. SameSizes(r.holes \ {k}, holes \ {h})
    <3> HIDE DEF r
    <3> QED BY <1>3, <2>1, <2>4, SameLess
  <2>6. IsFiniteSet(r.holes \ {k}) /\ IsFiniteSet(holes \ {h})
    BY <1>3, <2>1, FS_Subset
  <2>7. x \notin holes \ {h} \/ h.size = n
    <3> SUFFICES ASSUME x \in holes \ {h}, h.size # n PROVE FALSE
      OBVIOUS
    <3>1. Apart(x.offset, x.size, h.offset, h.size)
      BY DEF HolesInv
    <3>2. x.offset = h.offset + n /\ x.size = h.size - n
      OBVIOUS
    <3> HIDE DEF x, n
    <3> QED BY <1>1, <1>4, <1>6, <3>1, <3>2 DEF Apart, n
  <2>8. y \notin r.holes \ {k} \/ k.size = n
    <3> SUFFICES ASSUME y \in r.holes \ {k}, k.size # n PROVE FALSE
      OBVIOUS
    <3>1. Apart(y.at, y.size, k.at, k.size)
      BY <1>4 DEF SimOK
    <3>2. y.at = k.at + n /\ y.size = k.size - n /\ k.at \in Nat /\ k.size \in Nat
      BY <2>1
    <3> HIDE DEF y, n, r
    <3> QED BY <1>4, <2>3, <3>1, <3>2 DEF Apart
  <2>9. SameSizes(SimPut(r, n).holes, holes') /\ IsFiniteSet(holes')
    <3>1. CASE h.size = n
      <4>1. holes' = holes \ {h}
        BY <1>8, <3>1
      <4>2. SimPut(r, n).holes = r.holes \ {k}
        <5> HIDE DEF r, n
        <5>1. k.size - n = 0
          BY <1>4, <2>4, <3>1
        <5> QED BY <2>3, <5>1
      <4> QED BY <4>1, <4>2, <2>5, <2>6
    <3>2. CASE h.size # n
      <4>1. holes' = (holes \ {h}) \cup {x}
        BY <1>8, <3>2
      <4>2. SimPut(r, n).holes = (r.holes \ {k}) \cup {y}
        <5> HIDE DEF r, n
        <5>1. k.size - n # 0
          BY <1>4, <1>6, <2>4, <3>2
        <5> QED BY <2>3, <5>1
      <4>3. x.size = y.size
        BY <2>4
      <4>4. x \notin holes \ {h} /\ y \notin r.holes \ {k}
        BY <2>4, <2>7, <2>8, <3>2
      <4> DEFINE H == r.holes \ {k}
                 K == holes \ {h}
      <4>5. SameSizes(H, K) /\ IsFiniteSet(H) /\ IsFiniteSet(K) /\ x \notin K /\ y \notin H
        BY <2>5, <2>6, <4>4
      <4> HIDE DEF H, K, x, y
      <4>6. SameSizes(H \cup {y}, K \cup {x}) /\ IsFiniteSet(K \cup {x})
        BY <4>3, <4>5, SameMore, FS_AddElement
      <4> QED BY <4>1, <4>2, <4>6 DEF H, K
    <3> QED BY <3>1, <3>2
  <2>10. SimPut(r, n).tail = tail'
    <3> HIDE DEF r, n
    <3> QED BY <1>3, <1>8, <2>3
  <2> QED BY <1>1, <1>3, <1>8, <2>9, <2>10, SimPutStep
<1> QED BY <1>1, <1>7, <1>8

\* Both append, after the same gap, or the simulator's tail tells it to refuse.
LEMMA SimAppendStep == ASSUME PackInv, SimInv, AppendBlob PROVE SimInv'
<1> USE DEF PackInv
<1> DEFINE At(b) == IF MustAlign(b) THEN AlignUp(tail) ELSE tail
           Gap(at) == [offset |-> tail, size |-> at - tail]
           Over(b) == At(b) >= Limit \/ At(b) + Stored(b) >= Limit \/ Start + At(b) >= Limit
           Appended(b) ==
             /\ Put(b, At(b))
             /\ holes' = holes \cup (IF At(b) > tail THEN {Gap(At(b))} ELSE {})
             /\ tail' = Wrap(At(b) + Stored(b))
<1>1. PICK b \in todo :
        /\ Foremost(b) /\ Fitting(b) = {}
        /\ (Over(b) /\ Fail) \/ (~Over(b) /\ Appended(b))
  BY DEF AppendBlob
<1> DEFINE n == Stored(b)
           r == SimNow
           at == At(b)
           gap == SimGap(r, n)
<1>2. PICK N \in Nat : Blobs = 1..N
  BY DEF SimInv
<1>3. pc = "pack" /\ IsFiniteSet(holes) /\ r.tail = tail /\ SameSizes(r.holes, holes)
  BY DEF AppendBlob, SimInv
<1>4. /\ SimOK(r) /\ n \in Nat \ {0}
      /\ SimPut(r, n).tail <= SimPacked(SimContents(Part))
  BY <1>1, <1>2, <1>3, NextRun DEF SimInv
<1>5. IsFiniteSet(r.holes) /\ \A k \in r.holes : k.size \in Nat /\ k.at \in Nat
  BY <1>4 DEF SimOK
<1>6. ~\E k \in r.holes : k.size >= n
  <2> SUFFICES ASSUME NEW k \in r.holes, k.size >= n PROVE FALSE
    OBVIOUS
  <2>1. \E g \in holes : g.size = k.size
    <3> HIDE DEF r
    <3> QED BY <1>3, <1>5, SameHas
  <2> QED BY <1>1, <2>1 DEF Fitting
<1>7. /\ gap \in Nat
      /\ SimPut(r, n) =
           [holes |-> r.holes \cup (IF gap = 0 THEN {} ELSE {[at |-> r.tail, size |-> gap]}),
            tail |-> r.tail + gap + n]
  <2> HIDE DEF r, n
  <2> QED BY <1>4, <1>6, SimAppends
<1>8. tail \in Nat /\ tail < Limit /\ Limit \in Nat \ {0} /\ Start \in Nat
  BY Measures, PagesAssumption DEF PackTypeOK
<1>9. tail + n - 1 < Limit => at = tail + gap
  BY <1>3, <1>4, <1>8, GapIs
<1>10. at \in Nat /\ tail <= at
  BY <1>8, AlignedUp
<1>11. SimPut(r, n).tail = tail + gap + n
  <2> HIDE DEF r, n, gap
  <2> QED BY <1>3, <1>7
<1>12. CASE Over(b) /\ Fail
  <2>0. at >= Limit \/ at + n >= Limit \/ Start + at >= Limit
    BY <1>12
  <2> HIDE DEF At, at, n, r, gap
  <2>1. tail + gap + n \in Nat
    BY <1>4, <1>7, <1>8
  <2>2. tail + gap + n >= Limit \/ Start + (tail + gap + n) >= Limit
    <3>1. CASE tail + n - 1 < Limit
      BY <1>4, <1>7, <1>8, <1>9, <2>0, <3>1
    <3>2. CASE ~(tail + n - 1 < Limit)
      BY <1>4, <1>7, <1>8, <3>2
    <3> QED BY <3>1, <3>2
  <2>3. SimRefuses
    BY <1>3, <1>4, <1>11, <2>1, <2>2, Refused
  <2> QED BY <1>12, <2>3, SimFailStep
<1>13. CASE ~Over(b) /\ Appended(b)
  <2> DEFINE x == Gap(at)
             y == [at |-> r.tail, size |-> gap]
  <2>1. at < Limit /\ at + n < Limit
    <3>0. ~(at >= Limit) /\ ~(at + n >= Limit)
      BY <1>13
    <3> HIDE DEF At, at, n
    <3> QED BY <3>0, <1>4, <1>8, <1>10
  <2>2. at = tail + gap
    <3>1. tail + n - 1 < Limit
      <4> HIDE DEF At, at, n
      <4> QED BY <1>4, <1>8, <1>10, <2>1
    <3> QED BY <3>1, <1>9
  <2>3. /\ Put(b, at) /\ tail' = Wrap(at + n)
        /\ holes' = holes \cup (IF at > tail THEN {x} ELSE {})
    BY <1>13
  <2>4. x.offset = tail /\ x.size = at - tail /\ y.at = r.tail /\ y.size = gap
    OBVIOUS
  <2>5. SimPut(r, n).holes = r.holes \cup (IF gap = 0 THEN {} ELSE {y})
    <3> HIDE DEF r, n, gap
    <3> QED BY <1>7
  <2> HIDE DEF At, Gap, at, n, x
  <2>6. SimPut(r, n).tail = tail'
    <3>1. at + n \in 0..Limit - 1
      BY <1>4, <1>8, <1>10, <2>1
    <3>2. tail' = at + n
      BY <2>3, <3>1, NoWrap
    <3> HIDE DEF r, gap
    <3> QED BY <1>11, <2>2, <3>2
  <2>7. SameSizes(SimPut(r, n).holes, holes') /\ IsFiniteSet(holes')
    <3>1. CASE gap = 0
      <4>1. holes' = holes /\ SimPut(r, n).holes = r.holes
        <5>1. ~(at > tail)
          BY <1>8, <2>2, <3>1
        <5> QED BY <2>3, <2>5, <3>1, <5>1
      <4> QED BY <1>3, <4>1
    <3>2. CASE gap # 0
      <4>1. holes' = holes \cup {x} /\ SimPut(r, n).holes = r.holes \cup {y}
        <5>1. at > tail
          <6> HIDE DEF gap, r
          <6> QED BY <1>7, <1>8, <2>2, <3>2
        <5> QED BY <2>3, <2>5, <3>2, <5>1
      <4>2. x \notin holes
        <5> SUFFICES ASSUME x \in holes PROVE FALSE
          OBVIOUS
        <5>1. x.offset + x.size <= tail
          BY DEF HolesInv
        <5> HIDE DEF gap, r
        <5> QED BY <1>7, <1>8, <2>2, <2>4, <3>2, <5>1
      <4>3. y \notin r.holes
        <5> SUFFICES ASSUME y \in r.holes PROVE FALSE
          OBVIOUS
        <5>1. y.at + y.size <= r.tail
          BY <1>4 DEF SimOK
        <5> HIDE DEF gap, r, y
        <5> QED BY <1>3, <1>7, <1>8, <2>4, <3>2, <5>1
      <4>4. x.size = y.size
        <5> HIDE DEF gap, r, y
        <5> QED BY <1>7, <1>8, <2>2, <2>4
      <4> HIDE DEF r, y
      <4>5. SameSizes(r.holes \cup {y}, holes \cup {x}) /\ IsFiniteSet(holes \cup {x})
        BY <1>3, <1>5, <4>2, <4>3, <4>4, SameMore, FS_AddElement
      <4> QED BY <4>1, <4>5
    <3> QED BY <3>1, <3>2
  <2> QED BY <1>1, <1>3, <2>3, <2>6, <2>7, SimPutStep DEF n
<1> QED BY <1>1, <1>12, <1>13

\* When a part is done, its tail is what the simulator adds up for it.
LEMMA PartDone ==
  ASSUME PackTypeOK, PartsInv, SimInv, pc = "pack", todo = {}
  PROVE  SimPacked(SimContents(Part)) = tail
<1>1. PICK n \in Nat : Blobs = 1..n
  BY DEF SimInv
<1>2. Part \in SUBSET Blobs /\ Part \ todo = Part /\ SimOverflow = {} /\ SimNow.tail = tail
  BY DEF PackTypeOK, Part, SimInv
<1>3. IsContents(SimContents(Part)) /\ DOMAIN SimContents(Part) = Part
  BY <1>1, <1>2, ContentsAre
<1>4. SimPacked(SimContents(Part)) = Run(SimContents(Part))[Part].tail
  BY <1>3, RunIs
<1> QED BY <1>2, <1>4 DEF SimNow

\* Before the first blob of a part the simulator has nothing.
LEMMA PartBegun ==
  ASSUME PackTypeOK, PartsInv, NEW n \in Nat, Blobs = 1..n, NEW S \in SUBSET Blobs
  PROVE  Run(SimContents(S))[{}] = Empty
<1>1. IsContents(SimContents(S))
  BY ContentsAre
<1>2. IsRun(Run(SimContents(S)), SimContents(S), SUBSET DOMAIN SimContents(S))
  BY <1>1, RunIs
<1> QED BY <1>2 DEF IsRun

LEMMA SimEndPublicStep == ASSUME PackInv, SimInv, EndPublic PROVE SimInv'
<1> USE DEF PackInv
<1> DEFINE start == publicOff + tail
<1>0. pc = "pack" /\ part = "public" /\ todo = {} /\ Part = public
  BY DEF EndPublic, Part
<1>1. PICK n \in Nat : Blobs = 1..n
  BY DEF SimInv
<1>2. publicOff = SimPublicOff /\ SimPacked(SimContents(public)) = tail
  BY <1>0, PartDone DEF SimInv
<1>3. SimPrivateOff = AlignUp(start) /\ SimPrivateOff \in Nat /\ start <= SimPrivateOff
      /\ SimPrivateOff <= SimImageSize /\ SimImageSize \in Nat /\ start \in Nat
  <2>1. start \in Nat
    BY DEF PackTypeOK
  <2>2. SimPrivateOff = AlignUp(start)
    BY <1>2 DEF SimPrivateOff
  <2>3. SimPrivateOff \in Nat /\ SimPrivateOff <= SimImageSize /\ SimImageSize \in Nat
    BY <1>1, PackedTypes
  <2> HIDE DEF start
  <2>4. start <= AlignUp(start)
    BY <2>1, AlignedUp
  <2> QED BY <2>1, <2>2, <2>3, <2>4
<1>4. CASE (start >= Limit \/ AlignUp(start) >= Limit) /\ Fail
  <2> HIDE DEF start
  <2>1. SimRefuses
    BY <1>3, <1>4, PagesAssumption DEF SimRefuses
  <2> QED BY <1>4, <2>1, SimFailStep
<1>5. CASE ~(start >= Limit \/ AlignUp(start) >= Limit)
  <2>1. /\ privateOff' = AlignUp(start) /\ part' = "private" /\ todo' = Blobs \ public
        /\ holes' = {} /\ tail' = 0
        /\ UNCHANGED <<size, public, metaEnd, publicOff, pc>>
    BY <1>5 DEF EndPublic, input
  <2>2. /\ Blobs' = Blobs /\ SimOverflow' = SimOverflow
        /\ \A b \in Blobs : Stored(b)' = Stored(b)
        /\ SimPublicOff' = SimPublicOff /\ SimPrivateOff' = SimPrivateOff
    BY <2>1, SimStays
  <2>3. Part' = Blobs \ public /\ Part' \ todo' = {}
    BY <2>1, <2>2 DEF Part
  <2>4. SimNow' = Empty
    <3>1. PackTypeOK' /\ PartsInv'
      BY EndPublicStep
    <3>2. Run(SimContents(Part)')[{}] = Empty
      <4> DEFINE v == [b \in (Blobs \ public) \ SimOverflow |-> Stored(b)]
      <4>1. SimContents(Part)' = [b \in Part' \ SimOverflow' |-> Stored(b)']
        BY DEF SimContents
      <4>2. SimContents(Part)' = v
        BY <2>2, <2>3, <4>1
      <4>3. SimContents(Blobs \ public) = v
        BY DEF SimContents
      <4> HIDE DEF v
      <4>4. Run(SimContents(Blobs \ public))[{}] = Empty
        BY <1>1, PartBegun
      <4> QED BY <4>2, <4>3, <4>4
    <3>3. SimNow' = Run(SimContents(Part)')[Part' \ todo']
      BY DEF SimNow
    <3> QED BY <2>3, <3>2, <3>3
  <2>5. SimNow'.tail = tail' /\ SameSizes(SimNow'.holes, holes')
    BY <2>1, <2>4 DEF Empty, SameSizes
  <2>6. OrderInv'
    BY <2>3 DEF OrderInv
  <2>7. IsFiniteSet(holes')
    BY <2>1, FS_EmptySet
  <2>8. publicOff' = SimPublicOff' /\ privateOff' = SimPrivateOff' /\ SimOverflow' = {}
    BY <1>0, <1>2, <1>3, <2>1, <2>2 DEF SimInv
  <2> QED BY <1>0, <1>1, <2>1, <2>2, <2>5, <2>6, <2>7, <2>8 DEF SimInv
<1> QED BY <1>4, <1>5 DEF EndPublic

LEMMA SimEndPrivateStep == ASSUME PackInv, SimInv, EndPrivate PROVE SimInv'
<1> USE DEF PackInv
<1> DEFINE end == privateOff + tail
<1>0. pc = "pack" /\ part = "private" /\ todo = {} /\ Part = Blobs \ public
  BY DEF EndPrivate, Part
<1>1. PICK n \in Nat : Blobs = 1..n
  BY DEF SimInv
<1>2. privateOff = SimPrivateOff /\ SimPacked(SimContents(Blobs \ public)) = tail
  BY <1>0, PartDone DEF SimInv
<1>3. SimImageSize = AlignUp(end) /\ SimImageSize \in Nat /\ end <= SimImageSize /\ end \in Nat
  <2>1. end \in Nat
    BY DEF PackTypeOK
  <2>2. SimImageSize = AlignUp(end)
    BY <1>2 DEF SimImageSize
  <2>3. SimImageSize \in Nat
    BY <1>1, PackedTypes
  <2> HIDE DEF end
  <2>4. end <= AlignUp(end)
    BY <2>1, AlignedUp
  <2> QED BY <2>1, <2>2, <2>3, <2>4
<1>4. CASE (end >= Limit \/ AlignUp(end) >= Limit) /\ Fail
  <2> HIDE DEF end
  <2>1. SimRefuses
    BY <1>3, <1>4, PagesAssumption DEF SimRefuses
  <2> QED BY <1>4, <2>1, SimFailStep
<1>5. CASE ~(end >= Limit \/ AlignUp(end) >= Limit)
  <2>1. /\ imageSize' = AlignUp(end) /\ pc' = "packed"
        /\ UNCHANGED <<size, public, metaEnd, part, holes, publicOff, privateOff>>
    BY <1>5 DEF EndPrivate, input
  <2>2. /\ Blobs' = Blobs /\ SimOverflow' = SimOverflow /\ SimImageSize' = SimImageSize
        /\ SimPublicOff' = SimPublicOff /\ SimPrivateOff' = SimPrivateOff
    BY <2>1, SimStays
  <2>3. imageSize' = SimImageSize' /\ imageSize' < Limit
    <3> HIDE DEF end
    <3> QED BY <1>3, <1>5, <2>1, <2>2, PagesAssumption
  <2> QED BY <1>0, <2>1, <2>2, <2>3 DEF SimInv
<1> QED BY <1>4, <1>5 DEF EndPrivate

LEMMA SimInit == Init => SimInv
<1> SUFFICES ASSUME Init PROVE SimInv
  OBVIOUS
<1>1. PackTypeOK /\ PartsInv
  BY PackInit DEF PackInv
<1>2. PICK n \in Nat : Blobs = 1..n
  BY DEF Init, Blobs
<1>3. \A b \in Blobs : size[b] \in Nat /\ (b \in SimOverflow <=> Stored(b) >= Limit)
  <2> TAKE b \in Blobs
  <2>1. size[b] \in Nat /\ Stored(b) \in Nat
    BY <1>1, Measures DEF PackTypeOK
  <2>2. SimCounted(size[b]) <=> Stored(b) < Limit
    BY <2>1, CountedFits DEF Stored
  <2> QED BY <2>1, <2>2, PagesAssumption DEF SimOverflow
<1>4. publicOff = SimPublicOff /\ SimPublicOff \in Nat /\ SimPublicOff <= SimImageSize /\ SimImageSize \in Nat
  <2>1. publicOff = SimPublicOff
    BY DEF Init, SimPublicOff
  <2>2. /\ SimPublicOff \in Nat /\ SimPrivateOff \in Nat /\ SimImageSize \in Nat
        /\ SimPublicOff <= SimPrivateOff /\ SimPrivateOff <= SimImageSize
    BY <1>1, <1>2, PackedTypes
  <2> QED BY <2>1, <2>2
<1>5. part = "public" /\ todo = public /\ holes = {} /\ tail = 0
      /\ pc = IF publicOff >= Limit \/ \E b \in Blobs : Stored(b) >= Limit
              THEN "error" ELSE "pack"
  BY DEF Init
<1>6. CASE publicOff >= Limit \/ \E b \in Blobs : Stored(b) >= Limit
  <2>1. SimRefuses
    <3>1. CASE publicOff >= Limit
      BY <1>4, <3>1, PagesAssumption DEF SimRefuses
    <3>2. CASE \E b \in Blobs : Stored(b) >= Limit
      BY <1>3, <3>2 DEF SimRefuses
    <3> QED BY <1>6, <3>1, <3>2
  <2> QED BY <1>2, <1>5, <1>6, <2>1, FS_EmptySet DEF SimInv
<1>7. CASE ~(publicOff >= Limit \/ \E b \in Blobs : Stored(b) >= Limit)
  <2>1. SimOverflow = {}
    <3>1. SimOverflow \subseteq Blobs
      BY DEF SimOverflow
    <3> QED BY <1>3, <1>7, <3>1
  <2>2. Part = public /\ Part \ todo = {} /\ public \in SUBSET Blobs
    BY <1>1, <1>5 DEF Part, PackTypeOK
  <2>3. SimNow = Empty
    <3>1. Run(SimContents(public))[{}] = Empty
      BY <1>1, <1>2, <2>2, PartBegun
    <3> QED BY <2>2, <3>1 DEF SimNow
  <2>4. SimNow.tail = tail /\ SameSizes(SimNow.holes, holes)
    BY <1>5, <2>3 DEF Empty, SameSizes
  <2>5. OrderInv
    BY <2>2 DEF OrderInv
  <2> QED BY <1>2, <1>4, <1>5, <1>7, <2>1, <2>4, <2>5, FS_EmptySet DEF SimInv
<1> QED BY <1>6, <1>7

LEMMA SimInvariant == Spec => [](PackInv /\ SimInv)
<1>1. PackInv /\ SimInv /\ [Next]_vars => SimInv'
  <2> SUFFICES ASSUME PackInv, SimInv, [Next]_vars PROVE SimInv'
    OBVIOUS
  <2>1. CASE UNCHANGED vars
    <3>1. UNCHANGED <<size, public, metaEnd, part, todo, holes, tail,
                      publicOff, privateOff, imageSize, pc>>
      BY <2>1 DEF vars, input, bounds
    <3>2. /\ Blobs' = Blobs /\ \A b \in Blobs : Stored(b)' = Stored(b)
          /\ SimOverflow' = SimOverflow
          /\ SimPublicOff' = SimPublicOff /\ SimPrivateOff' = SimPrivateOff
          /\ SimImageSize' = SimImageSize /\ (SimRefuses' <=> SimRefuses)
      BY <3>1, SimStays
    <3>3. Part' = Part /\ Part \in SUBSET Blobs /\ todo \subseteq Part
      BY <3>1, <3>2 DEF Part, PackInv, PackTypeOK
    <3>4. SimContents(Part)' = SimContents(Part)
      <4>1. [b \in Part \ SimOverflow |-> Stored(b)'] = [b \in Part \ SimOverflow |-> Stored(b)]
        BY <3>2, <3>3
      <4> QED BY <3>2, <3>3, <4>1 DEF SimContents
    <3>5. SimNow' = SimNow
      BY <3>1, <3>3, <3>4 DEF SimNow
    <3>6. OrderInv => OrderInv'
      <4>1. \A c \in Part : Stored(c)' = Stored(c)
        BY <3>2, <3>3
      <4> QED BY <3>1, <3>3, <4>1 DEF OrderInv
    <3> QED BY <3>1, <3>2, <3>5, <3>6 DEF SimInv
  <2>2. CASE Next
    BY <2>2, SimFillStep, SimAppendStep, SimEndPublicStep, SimEndPrivateStep DEF Next
  <2> QED BY <2>1, <2>2
<1> QED BY <1>1, SimInit, PackInvariant, PTL DEF Spec

\* The simulator's mmap profile: pages of machines divide the format's, or are
\* longer, and then nothing but a first page is copied.
LEMMA ProfileHolds ==
  ASSUME PackInv, pc = "packed", NEW b \in Blobs, NEW page \in HostPages
  PROVE  /\ SimAtMostOne(b, page) => Cardinality(Copies(b, page, FALSE)) <= 1
         /\ SimNoCopy(b, page) => Copies(b, page, FALSE) = {}
         /\ SimMappable(b, page) =>
              off[b] % page = 0 /\ (size[b] >= page => Copies(b, page, TRUE) = {})
<1> USE DEF PackInv
<1>1. page \in Nat \ {0} /\ Page \in Nat \ {0} /\ (page <= Page => Page % page = 0)
  BY PagesAssumption, PowersAssumption
<1>2. size[b] \in Nat /\ off[b] \in Nat /\ privateOff \in Nat /\ Stored(b) \in Nat \ {0}
  BY Measures DEF PackTypeOK
<1>3. /\ Fits(off[b], Stored(b)) /\ privateOff % Page = 0
      /\ b \in public => off[b] + Stored(b) <= privateOff
  <2>1. Placed = Blobs /\ part = "private"
    BY DEF PartsInv, Placed
  <2> QED BY <2>1 DEF PlacedInv, PartsInv
<1>4. size[b] < Stored(b)
  BY <1>2, EncodedWords DEF Stored
<1>5. ASSUME page <= Page, NEW x \in Nat, x % Page = 0 PROVE x % page = 0
  <2> DEFINE j == Page \div page
             k == x \div Page
  <2>1. j \in Int /\ Page = page * j
    BY <1>1, <1>5, DivMod
  <2>2. k \in Int /\ x = Page * k
    BY <1>1, <1>5, DivMod
  <2> HIDE DEF j, k
  <2>3. x = page * (j * k) + 0 /\ j * k \in Int
    BY <1>1, <2>1, <2>2
  <2> QED BY <1>1, <2>3, Quotient
<1>6. ASSUME page <= Page, Stored(b) >= Page PROVE off[b] % page = 0
  BY <1>2, <1>3, <1>5, <1>6 DEF Fits
<1>7. ASSUME page <= Page, Stored(b) >= Page, NEW o \in Nat, o % page = 0
      PROVE  (off[b] + o) % page = 0
  <2>1. off[b] % page = 0
    BY <1>6, <1>7
  <2>2. off[b] \in Int /\ o \in Int
    BY <1>2, <1>7
  <2>3. (off[b] + o) % page = o % page
    BY <1>1, <2>1, <2>2, Shift
  <2> QED BY <1>7, <2>3
\* only the last page of a file is shorter than a page
<1>8. ASSUME NEW o \in 0..size[b] - 1, o % page = 0, size[b] - o < page
      PROVE  o = page * (size[b] \div page) /\ size[b] % page # 0
  <2> DEFINE q == o \div page
             r == size[b] - o
  <2>1. q \in Int /\ o = page * q
    BY <1>1, <1>8, DivMod
  <2>2. r \in 0..page - 1 /\ r # 0 /\ size[b] = o + r /\ size[b] \in Int
    BY <1>1, <1>2, <1>8
  <2> HIDE DEF q, r
  <2>3. size[b] \div page = q /\ size[b] % page = r
    <3>1. size[b] = page * q + r
      BY <2>1, <2>2
    <3> QED BY <1>1, <2>1, <2>2, <3>1, Quotient
  <2> QED BY <2>1, <2>2, <2>3
<1>9. ASSUME SimAligned(b, page), NEW o \in Copies(b, page, FALSE)
      PROVE  o = page * (size[b] \div page) /\ size[b] % page # 0
  <2>1. o \in 0..size[b] - 1 /\ o % page = 0 /\ ~Shared(b, o, page, FALSE)
    BY DEF Copies
  <2>2. (off[b] + o) % page = 0
    BY <1>2, <1>7, <1>9, <2>1 DEF SimAligned
  <2>3. size[b] - o < page
    BY <1>1, <1>2, <2>1, <2>2 DEF Shared
  <2> QED BY <1>8, <2>1, <2>3
<1>10. ASSUME SimAtMostOne(b, page) PROVE Cardinality(Copies(b, page, FALSE)) <= 1
  <2>1. ASSUME NEW x, Copies(b, page, FALSE) \subseteq {x}
        PROVE  Cardinality(Copies(b, page, FALSE)) <= 1
    <3>1. IsFiniteSet({x}) /\ Cardinality({x}) = 1
      BY FS_Singleton
    <3> QED BY <2>1, <3>1, FS_Subset
  <2>2. CASE SimAligned(b, page)
    <3>1. Copies(b, page, FALSE) \subseteq {page * (size[b] \div page)}
      BY <1>9, <2>2
    <3> QED BY <2>1, <3>1
  <2>3. CASE size[b] <= page
    <3>1. ASSUME NEW o \in Copies(b, page, FALSE) PROVE o = 0
      <4>1. o \in Nat /\ o < page /\ o % page = 0
        BY <1>1, <1>2, <2>3 DEF Copies
      <4>2. o = page * 0 + o /\ o \in 0..page - 1 /\ o \in Int
        BY <1>1, <4>1
      <4>3. o % page = o
        BY <1>1, <4>2, Quotient
      <4> QED BY <4>1, <4>3
    <3> QED BY <2>1, <3>1
  <2> QED BY <1>10, <2>2, <2>3 DEF SimAtMostOne
<1>11. ASSUME SimNoCopy(b, page) PROVE Copies(b, page, FALSE) = {}
  BY <1>9, <1>11 DEF SimNoCopy
<1>12. ASSUME SimMappable(b, page)
       PROVE  off[b] % page = 0 /\ (size[b] >= page => Copies(b, page, TRUE) = {})
  <2>1. b \in public /\ page <= Page /\ Stored(b) >= Page
    BY <1>12 DEF SimMappable
  <2>2. off[b] % page = 0
    BY <1>6, <2>1
  <2>3. ASSUME size[b] >= page, NEW o \in 0..size[b] - 1, o % page = 0
        PROVE  Shared(b, o, page, TRUE)
    <3>1. (off[b] + o) % page = 0 /\ privateOff % page = 0
      BY <1>2, <1>3, <1>5, <1>7, <2>1, <2>3
    <3>2. off[b] + o < privateOff /\ off[b] < privateOff
      BY <1>2, <1>3, <1>4, <2>1
    <3>3. off[b] + o + page <= privateOff
      <4> DEFINE p == (off[b] + o) \div page
                 q == privateOff \div page
      <4>0. off[b] + o \in Int /\ privateOff \in Int
        BY <1>2, <2>3
      <4>1. p \in Int /\ off[b] + o = page * p
        <5>1. off[b] + o = page * p + ((off[b] + o) % page) /\ p \in Int
          BY <1>1, <4>0, DivMod
        <5> HIDE DEF p
        <5> QED BY <1>1, <3>1, <5>1
      <4>2. q \in Int /\ privateOff = page * q
        BY <1>1, <3>1, <4>0, DivMod
      <4> HIDE DEF p, q
      <4>3. p < q
        <5> SUFFICES ASSUME q <= p PROVE FALSE
          BY <4>1, <4>2
        <5>1. page * q <= page * p
          BY <1>1, <4>1, <4>2
        <5> QED BY <1>1, <1>2, <3>2, <4>1, <4>2, <5>1
      <4>4. page * p + page <= page * q
        BY <1>1, <4>1, <4>2, <4>3
      <4> QED BY <4>1, <4>2, <4>4
    <3> QED BY <2>1, <2>3, <3>1, <3>2, <3>3 DEF Shared
  <2> QED BY <2>2, <2>3 DEF Copies
<1> QED BY <1>10, <1>11, <1>12

\* What femtofsSim estimates from sizes alone is where makefemtofs puts the parts
\* and the end of the image, it refuses what makefemtofs refuses, and no machine
\* copies more pages than its mmap profile says.
THEOREM EstimateIsExact == Spec => []SimPredicts
<1>1. PackInv /\ SimInv => SimPredicts
  <2> SUFFICES ASSUME PackInv, SimInv PROVE SimPredicts
    OBVIOUS
  <2>1. ASSUME pc = "packed"
        PROVE  <<publicOff, privateOff, imageSize>> = <<SimPublicOff, SimPrivateOff, SimImageSize>>
               /\ ~SimRefuses
    <3>1. part = "private" /\ imageSize \in Nat
      BY <2>1 DEF PackInv, PartsInv, PackTypeOK
    <3>2. /\ publicOff = SimPublicOff /\ privateOff = SimPrivateOff
          /\ imageSize = SimImageSize /\ imageSize < Limit /\ SimOverflow = {}
      BY <2>1, <3>1 DEF SimInv
    <3>3. ~SimRefuses
      BY <3>1, <3>2, PagesAssumption DEF SimRefuses
    <3> QED BY <3>2, <3>3
  <2>2. pc = "error" => SimRefuses
    BY DEF SimInv
  <2> QED BY <2>1, <2>2, ProfileHolds DEF SimPredicts
<1> QED BY <1>1, SimInvariant, PTL
=============================================================================
