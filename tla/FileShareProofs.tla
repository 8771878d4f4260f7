-------------------------- MODULE FileShareProofs ---------------------------
(* Proofs about FileShare, for any shares, downloads, limits and bounds.   *)
EXTENDS FileShare, FiniteSetTheorems, TLAPS

Downloads == [step : TransferSteps, share : Shares \cup {Free.share}]

\* Downloads of a share that are at certain steps.
Of(s, steps) == {t \in Transfers : transfer[t].share = s
                                   /\ transfer[t].step \in steps}
Active(s) == Of(s, {"open", "copy", "complete", "failed"})
Going(s) == Of(s, {"open", "copy"})
Complete(s) == Of(s, {"complete"})

Entries == [kind : {"none", "listed", "gone"}, count : Nat,
            removed : BOOLEAN]

ShareShape ==
    /\ store \in [Shares -> Entries]
    /\ age \in [Shares -> 0 .. 2]
    /\ content \in [Shares -> {"none", "part", "whole"}]
    /\ reserved \in [Shares -> Nat]
    /\ transfer \in [Transfers -> Downloads]
    /\ \A t \in Transfers :
          transfer[t].step # "idle" => transfer[t].share \in Shares
    /\ delivered \in [Shares -> Nat] /\ uncounted \in [Shares -> Nat]
    /\ broken \subseteq Shares

\* A download under way holds a reservation until the list counts it, so that
\* counted downloads and those under way never exceed the limit; a listed
\* share has counted all it delivered, but what is known as uncounted.
Tally(s) ==
    /\ reserved[s] = Cardinality(Active(s))
    /\ store[s].count + Cardinality(Active(s)) <= MaxDownloads
    /\ delivered[s] + Cardinality(Going(s)) <= MaxDownloads + uncounted[s]
    /\ Exists(s) => delivered[s] = store[s].count + uncounted[s]
                                   + Cardinality(Complete(s))
    /\ store[s].kind = "none" =>
          store[s].count = 0 /\ delivered[s] = 0 /\ uncounted[s] = 0
          /\ Active(s) = {}

\* A share that has not expired loses its content only when it is used up.
Kept(s) ==
    Exists(s) /\ age[s] = 0 =>
        /\ store[s].removed => Used(s)
        /\ ~store[s].removed /\ s \notin broken => content[s] = "whole"

ShareInvariant == ShareShape /\ \A s \in Shares : Tally(s) /\ Kept(s)

-----------------------------------------------------------------------------
(* Counting downloads.                                                     *)

\* The downloads of a share at certain steps can be counted.
LEMMA OfFinite ==
    ASSUME NEW s, NEW steps
    PROVE  IsFiniteSet(Of(s, steps)) /\ Cardinality(Of(s, steps)) \in Nat
  BY ShareAssumption, FS_Subset, FS_CardinalityType DEF ShareAssumption, Of

\* Going and complete downloads are disjoint parts of the active ones.
LEMMA ActiveParts ==
    ASSUME NEW s
    PROVE  Cardinality(Going(s)) + Cardinality(Complete(s))
             <= Cardinality(Active(s))
  <1>1. /\ IsFiniteSet(Going(s)) /\ IsFiniteSet(Complete(s))
        /\ IsFiniteSet(Active(s)) /\ Cardinality(Active(s)) \in Nat
        /\ Cardinality(Going(s)) \in Nat /\ Cardinality(Complete(s)) \in Nat
    BY OfFinite DEF Going, Complete, Active
  <1>2. Going(s) \cap Complete(s) = {}
    BY DEF Going, Complete, Of
  <1>3. Going(s) \cup Complete(s) \subseteq Active(s)
    BY DEF Going, Complete, Active, Of
  <1>4. Cardinality(Going(s) \cup Complete(s))
          = Cardinality(Going(s)) + Cardinality(Complete(s))
    <2>1. Cardinality(Going(s) \cap Complete(s)) = 0
      BY <1>2, FS_EmptySet
    <2>2. Cardinality(Going(s) \cup Complete(s))
            = Cardinality(Going(s)) + Cardinality(Complete(s))
                - Cardinality(Going(s) \cap Complete(s))
      BY <1>1, FS_Union
    <2> QED
      BY <1>1, <2>1, <2>2
  <1> QED
    BY <1>1, <1>3, <1>4, FS_Subset

\* One download takes a step: it leaves the set of its old share and step and
\* joins that of the new one.
LEMMA OneMoves ==
    ASSUME ShareShape, NEW t \in Transfers, NEW r,
           transfer' = [transfer EXCEPT ![t] = r],
           NEW s, NEW steps
    PROVE  /\ Of(s, steps)' = (Of(s, steps) \ {t}) \cup
                (IF r.share = s /\ r.step \in steps THEN {t} ELSE {})
           /\ Cardinality(Of(s, steps)')
                = Cardinality(Of(s, steps))
                  - (IF t \in Of(s, steps) THEN 1 ELSE 0)
                  + (IF r.share = s /\ r.step \in steps THEN 1 ELSE 0)
  <1> DEFINE left == Of(s, steps) \ {t}
  <1>1. Of(s, steps)' = left \cup
                (IF r.share = s /\ r.step \in steps THEN {t} ELSE {})
    BY DEF Of, ShareShape
  <1>2. IsFiniteSet(Of(s, steps)) /\ Cardinality(Of(s, steps)) \in Nat
    BY OfFinite
  <1>3. /\ IsFiniteSet(left) /\ Cardinality(left) \in Nat
        /\ Cardinality(left) = Cardinality(Of(s, steps))
                                 - (IF t \in Of(s, steps) THEN 1 ELSE 0)
    BY <1>2, FS_RemoveElement, FS_CardinalityType
  <1>4. Cardinality(left \cup {t}) = Cardinality(left) + 1
    BY <1>3, FS_AddElement
  <1>5. left \cup {} = left
    OBVIOUS
  <1>6. CASE r.share = s /\ r.step \in steps
    BY <1>1, <1>3, <1>4, <1>6
  <1>7. CASE ~(r.share = s /\ r.step \in steps)
    <2>1. Of(s, steps)' = left
      BY <1>1, <1>5, <1>7
    <2>2. Cardinality(left) = Cardinality(left) + 0
      BY <1>3
    <2> QED
      BY <1>1, <1>3, <1>7, <2>1, <2>2
  <1> QED
    BY <1>6, <1>7

\* The counts depend on the downloads alone.
LEMMA NoneMoves ==
    ASSUME UNCHANGED transfer, NEW s
    PROVE  UNCHANGED <<Active(s), Going(s), Complete(s)>>
  BY DEF Active, Going, Complete, Of
Count(p) == IF p THEN 1 ELSE 0

\* What the step of download t to r does to the counts of share s.
LEMMA CountsMove ==
    ASSUME ShareShape, NEW t \in Transfers, NEW r \in Downloads,
           transfer' = [transfer EXCEPT ![t] = r], NEW s
    PROVE  /\ Cardinality(Active(s)') = Cardinality(Active(s))
                - Count(transfer[t].share = s /\ transfer[t].step # "idle")
                + Count(r.share = s /\ r.step # "idle")
           /\ Cardinality(Going(s)') = Cardinality(Going(s))
                - Count(transfer[t].share = s
                        /\ transfer[t].step \in {"open", "copy"})
                + Count(r.share = s /\ r.step \in {"open", "copy"})
           /\ Cardinality(Complete(s)') = Cardinality(Complete(s))
                - Count(transfer[t].share = s /\ transfer[t].step = "complete")
                + Count(r.share = s /\ r.step = "complete")
  <1>1. ASSUME NEW steps
        PROVE  Cardinality(Of(s, steps)') = Cardinality(Of(s, steps))
                 - (IF transfer[t].share = s /\ transfer[t].step \in steps
                    THEN 1 ELSE 0)
                 + (IF r.share = s /\ r.step \in steps THEN 1 ELSE 0)
    <2>1. Cardinality(Of(s, steps)')
            = Cardinality(Of(s, steps)) - (IF t \in Of(s, steps) THEN 1 ELSE 0)
              + (IF r.share = s /\ r.step \in steps THEN 1 ELSE 0)
      BY OneMoves
    <2>2. t \in Of(s, steps) <=> transfer[t].share = s
                                 /\ transfer[t].step \in steps
      BY DEF Of
    <2> QED
      BY <2>1, <2>2
  <1>2. /\ transfer[t].step # "idle" <=>
              transfer[t].step \in {"open", "copy", "complete", "failed"}
        /\ r.step # "idle" <=>
              r.step \in {"open", "copy", "complete", "failed"}
    BY DEF ShareShape, Downloads, TransferSteps
  <1>3. Cardinality(Active(s)') = Cardinality(Active(s))
                - Count(transfer[t].share = s /\ transfer[t].step # "idle")
                + Count(r.share = s /\ r.step # "idle")
    BY <1>1, <1>2 DEF Active, Count
  <1>4. Cardinality(Going(s)') = Cardinality(Going(s))
                - Count(transfer[t].share = s
                        /\ transfer[t].step \in {"open", "copy"})
                + Count(r.share = s /\ r.step \in {"open", "copy"})
    BY <1>1 DEF Going, Count
  <1>5. Cardinality(Complete(s)') = Cardinality(Complete(s))
                - Count(transfer[t].share = s /\ transfer[t].step = "complete")
                + Count(r.share = s /\ r.step = "complete")
    <2>1. \A x : x \in {"complete"} <=> x = "complete"
      OBVIOUS
    <2> QED
      BY <1>1, <2>1 DEF Complete, Count
  <1> QED
    BY <1>3, <1>4, <1>5

\* A download of another share does not matter.
LEMMA OthersStay ==
    ASSUME ShareShape, NEW t \in Transfers, NEW r,
           transfer' = [transfer EXCEPT ![t] = r], NEW s,
           transfer[t].share # s \/ transfer[t].step = "idle",
           r.share # s \/ r.step = "idle"
    PROVE  UNCHANGED <<Active(s), Going(s), Complete(s)>>
  BY DEF ShareShape, Active, Going, Complete, Of

\* The counts are numbers.
LEMMA CountsAreNat ==
    ASSUME NEW s
    PROVE  /\ Cardinality(Active(s)) \in Nat /\ Cardinality(Going(s)) \in Nat
           /\ Cardinality(Complete(s)) \in Nat
  BY OfFinite DEF Active, Going, Complete

-----------------------------------------------------------------------------
(* Steps that change the list or the content, not the downloads.           *)

\* The counts of a share depend on the list, the reservations and the
\* downloads only: if its entry keeps its count and does not come back, its
\* tally stands.
LEMMA TallyStands ==
    ASSUME NEW s \in Shares, Tally(s),
           UNCHANGED <<transfer, reserved, delivered, uncounted>>,
           \/ store'[s] = store[s]
           \/ store[s].kind = "none" /\ store'[s] = Entry
           \/ Exists(s) /\ store'[s].kind \in {"listed", "gone"}
                        /\ store'[s].count = store[s].count
    PROVE  Tally(s)'
  <1>1. UNCHANGED <<Active(s), Going(s), Complete(s)>>
    BY NoneMoves
  <1>2. CASE store'[s] = store[s]
    BY <1>1, <1>2 DEF Tally, Exists
  <1>3. CASE store[s].kind = "none" /\ store'[s] = Entry
    <2>1. Complete(s) \subseteq Active(s)
      BY DEF Complete, Active, Of
    <2>2. Cardinality(Complete(s)) = 0
      BY <1>3, <2>1, FS_EmptySet DEF Tally
    <2> QED
      BY <1>1, <1>3, <2>2 DEF Tally, Exists, Entry
  <1>4. CASE Exists(s) /\ store'[s].kind \in {"listed", "gone"}
                       /\ store'[s].count = store[s].count
    BY <1>1, <1>4 DEF Tally, Exists
  <1> QED
    BY <1>2, <1>3, <1>4

\* Removing content of some shares leaves the others.
LEMMA RemoveContent ==
    ASSUME ShareShape, NEW S, Remove(S)
    PROVE  /\ content' \in [Shares -> {"none", "part", "whole"}]
           /\ \A s \in Shares \ S : content'[s] = content[s]
  BY DEF ShareShape, Remove

\* The page, the heartbeat and every sync: what a cleanup removes has expired
\* or is used up, and the list says so or it is broken.
LEMMA CleanupStep ==
    ASSUME ShareInvariant, NEW saved \in BOOLEAN, Cleanup(saved),
           UNCHANGED <<age, transfer, reserved, delivered, uncounted>>
    PROVE  ShareInvariant'
  <1>1. ShareShape
    BY DEF ShareInvariant
  <1>2. /\ content' \in [Shares -> {"none", "part", "whole"}]
        /\ \A s \in Shares : ~Due(s) => content'[s] = content[s]
    BY <1>1, RemoveContent DEF Cleanup
  <1>3. ASSUME NEW s \in Shares
        PROVE  /\ store'[s] \in Entries
               /\ \/ store'[s] = store[s] /\ (saved => ~Due(s))
                  \/ /\ Exists(s) /\ store'[s].kind \in {"listed", "gone"}
                     /\ store'[s].count = store[s].count
                     /\ store'[s].kind = "listed" => store'[s].removed /\ Due(s)
                  \/ ~saved /\ store' = store
    <2>1. store[s] \in Entries
      BY <1>1 DEF ShareShape
    <2>2. (Due(s) => Exists(s)) /\ (Forgotten(s) => Exists(s))
      BY DEF Due, Forgotten
    <2>3. CASE ~saved
      BY <2>1, <2>3 DEF Cleanup
    <2>4. CASE saved /\ Forgotten(s)
      <3>1. store'[s] = [store[s] EXCEPT !.kind = "gone"]
        BY <2>4 DEF Cleanup
      <3> QED
        BY <2>1, <2>2, <2>4, <3>1 DEF Entries, Exists
    <2>5. CASE saved /\ ~Forgotten(s) /\ Due(s)
      <3>1. store'[s] = [store[s] EXCEPT !.removed = TRUE]
        BY <2>5 DEF Cleanup
      <3> QED
        BY <2>1, <2>2, <2>5, <3>1 DEF Entries, Exists
    <2>6. CASE saved /\ ~Forgotten(s) /\ ~Due(s)
      BY <2>1, <2>6 DEF Cleanup
    <2> QED
      BY <2>3, <2>4, <2>5, <2>6
  <1>4. store' \in [Shares -> Entries]
    <2>1. store' = [s \in Shares |-> store'[s]]
      BY <1>1 DEF Cleanup, ShareShape
    <2> QED
      BY <1>3, <2>1
  <1>5. broken' \subseteq Shares /\ broken \subseteq broken'
        /\ (~saved => \A s \in Shares : Due(s) => s \in broken')
    BY <1>1 DEF Cleanup, ShareShape
  <1>6. ShareShape'
    BY <1>1, <1>2, <1>4, <1>5 DEF ShareShape
  <1>7. ASSUME NEW s \in Shares PROVE Tally(s)'
    BY <1>3, TallyStands DEF ShareInvariant
  <1>8. ASSUME NEW s \in Shares PROVE Kept(s)'
    <2>1. Kept(s) /\ (Exists(s)' => Exists(s))
      BY <1>3 DEF ShareInvariant, Exists
    <2>2. age[s] = 0 /\ Due(s) => Used(s)
      BY <1>1 DEF Due, ShareShape
    <2> QED
      BY <1>2, <1>3, <1>5, <2>1, <2>2 DEF Kept, Used, Exists
  <1> QED
    BY <1>6, <1>7, <1>8 DEF ShareInvariant
\* Upload, deletion and expiry.
LEMMA ListStep ==
    ASSUME ShareInvariant, NEW s \in Shares, NEW ok \in BOOLEAN,
           \/ Upload(s) \/ Uploaded(s, ok) \/ Append(s, ok) \/ Delete(s, ok)
           \/ Expire(s)
    PROVE  ShareInvariant'
  <1>1. ShareShape /\ store[s] \in Entries
    BY DEF ShareInvariant, ShareShape
  <1>2. UNCHANGED <<reserved, transfer, delivered, uncounted>>
    BY DEF Upload, Uploaded, Append, Delete, Expire, memory, shareHistory
  <1>3. CASE Upload(s) \/ Uploaded(s, ok)
    <2>1. UNCHANGED <<store, age, broken>>
      BY <1>3 DEF Upload, Uploaded, shareHistory
    <2>2. /\ content' \in [Shares -> {"none", "part", "whole"}]
          /\ \A x \in Shares : content[x] = "whole" => content'[x] = "whole"
      BY <1>1, <1>3 DEF Upload, Uploaded, ShareShape
    <2>3. ASSUME NEW x \in Shares PROVE Tally(x)' /\ Kept(x)'
      <3>1. Tally(x)'
        BY <1>2, <2>1, TallyStands DEF ShareInvariant
      <3>2. Kept(x)'
        BY <2>1, <2>2 DEF ShareInvariant, Kept, Exists, Used
      <3> QED
        BY <3>1, <3>2
    <2> QED
      BY <1>1, <1>2, <2>1, <2>2, <2>3 DEF ShareInvariant, ShareShape
  <1>4. CASE Append(s, ok)
    <2>1. /\ content[s] = "whole" /\ store[s].kind = "none"
          /\ UNCHANGED <<age, broken>>
          /\ \/ store' = [store EXCEPT ![s] = Entry] /\ UNCHANGED content
             \/ content' = [content EXCEPT ![s] = "none"] /\ UNCHANGED store
      BY <1>4 DEF Append, shareHistory
    <2>2. Entry \in Entries /\ Entry.kind = "listed" /\ ~Entry.removed
      BY DEF Entry, Entries
    <2>3. ShareShape'
      BY <1>1, <1>2, <2>1, <2>2 DEF ShareShape
    <2>4. ASSUME NEW x \in Shares PROVE Tally(x)' /\ Kept(x)'
      <3>1. store'[x] = store[x] \/ (x = s /\ store'[x] = Entry)
        BY <1>1, <2>1 DEF ShareShape
      <3>2. Tally(x)'
        BY <1>2, <2>1, <3>1, TallyStands DEF ShareInvariant
      <3>3. Kept(x)'
        BY <1>1, <2>1, <2>2, <3>1
           DEF ShareInvariant, ShareShape, Kept, Exists, Used
      <3> QED
        BY <3>2, <3>3
    <2> QED
      BY <2>3, <2>4 DEF ShareInvariant
  <1>5. CASE Delete(s, ok)
    <2>1. /\ Exists(s) /\ UNCHANGED age
          /\ \/ store' = [store EXCEPT ![s].kind = "gone"] /\ broken' = broken
             \/ broken' = broken \cup {s} /\ UNCHANGED store
      BY <1>5 DEF Delete
    <2>2. /\ content' \in [Shares -> {"none", "part", "whole"}]
          /\ \A x \in Shares : x # s => content'[x] = content[x]
      BY <1>1, <1>5, RemoveContent DEF Delete
    <2>3. [store[s] EXCEPT !.kind = "gone"] \in Entries
      BY <1>1 DEF Entries
    <2>4. ShareShape'
      BY <1>1, <1>2, <2>1, <2>2, <2>3 DEF ShareShape
    <2>5. ASSUME NEW x \in Shares PROVE Tally(x)' /\ Kept(x)'
      <3>1. \/ store'[x] = store[x]
            \/ /\ x = s /\ store'[x].kind = "gone"
               /\ store'[x].count = store[x].count
        BY <1>1, <2>1 DEF ShareShape, Entries
      <3>2. Tally(x)'
        BY <1>2, <2>1, <3>1, TallyStands DEF ShareInvariant
      <3>3. CASE x = s
        <4>1. \/ store'[s].kind = "gone"
              \/ s \in broken' /\ store'[s] = store[s]
          BY <1>1, <2>1, <2>3 DEF ShareShape, Entries
        <4> QED
          BY <2>1, <3>2, <3>3, <4>1 DEF ShareInvariant, Kept, Exists, Used
      <3>4. CASE x # s
        <4>1. store'[x] = store[x] /\ content'[x] = content[x]
              /\ (x \in broken' <=> x \in broken)
          BY <1>1, <2>1, <2>2, <3>4 DEF ShareShape
        <4> QED
          BY <2>1, <3>2, <4>1 DEF ShareInvariant, Kept, Exists, Used
      <3> QED
        BY <3>3, <3>4
    <2> QED
      BY <2>4, <2>5 DEF ShareInvariant
  <1>6. CASE Expire(s)
    <2>1. /\ age[s] < 2 /\ age' = [age EXCEPT ![s] = @ + 1]
          /\ UNCHANGED <<store, content, broken>>
      BY <1>6 DEF Expire, disk, shareHistory
    <2>2. ShareShape'
      BY <1>1, <1>2, <2>1 DEF ShareShape
    <2>3. ASSUME NEW x \in Shares PROVE Tally(x)' /\ Kept(x)'
      <3>1. Tally(x)'
        BY <1>2, <2>1, TallyStands DEF ShareInvariant
      <3>2. age'[x] = 0 => age[x] = 0
        BY <1>1, <2>1 DEF ShareShape
      <3>3. Kept(x)'
        BY <2>1, <3>2 DEF ShareInvariant, Kept, Exists, Used
      <3> QED
        BY <3>1, <3>3
    <2> QED
      BY <2>2, <2>3 DEF ShareInvariant
  <1> QED
    BY <1>3, <1>4, <1>5, <1>6
-----------------------------------------------------------------------------
(* Steps of a download.                                                    *)

\* The content of a reserved share stays while the list and its files do.
LEMMA KeptStands ==
    ASSUME NEW s \in Shares, Kept(s), UNCHANGED <<disk, age, broken>>
    PROVE  Kept(s)'
  BY DEF Kept, Exists, Used, disk

\* A download is admitted while what the list counts and what is reserved
\* leave room for it.
LEMMA RequestStep ==
    ASSUME ShareInvariant, NEW t \in Transfers, NEW s \in Shares, Request(t, s)
    PROVE  ShareInvariant'
  <1> DEFINE r == [step |-> "open", share |-> s]
  <1>1. ShareShape /\ transfer' = [transfer EXCEPT ![t] = r]
    BY DEF ShareInvariant, Request
  <1>2. /\ transfer[t].step = "idle" /\ Exists(s)
        /\ store[s].count + reserved[s] < MaxDownloads
        /\ reserved' = [reserved EXCEPT ![s] = @ + 1]
        /\ UNCHANGED <<disk, age, shareHistory>>
    BY DEF Request, Admits, Available
  <1>3. r \in Downloads /\ r.step = "open" /\ r.share = s
    BY DEF Downloads, TransferSteps
  <1> HIDE DEF r
  <1>4. ShareShape'
    BY <1>1, <1>2, <1>3 DEF ShareShape, disk, shareHistory
  <1>5. ASSUME NEW x \in Shares PROVE Tally(x)' /\ Kept(x)'
    <2>1. Tally(x) /\ Kept(x)
      BY DEF ShareInvariant
    <2>2. Kept(x)'
      BY <1>2, <2>1, KeptStands DEF shareHistory
    <2>3. CASE x = s
      <3>1. reserved'[x] = reserved[x] + 1
        BY <1>1, <1>2, <2>3 DEF ShareShape
      <3>2. /\ Cardinality(Active(x)') = Cardinality(Active(x)) - 0 + 1
            /\ Cardinality(Going(x)') = Cardinality(Going(x)) - 0 + 1
            /\ Cardinality(Complete(x)') = Cardinality(Complete(x)) - 0 + 0
        BY <1>1, <1>2, <1>3, <2>3, CountsMove DEF Count
      <3>3. /\ store[x].count \in Nat /\ delivered[x] \in Nat
            /\ uncounted[x] \in Nat /\ reserved[x] \in Nat
        BY <1>1 DEF ShareShape, Entries
      <3>4. UNCHANGED <<store, delivered, uncounted>>
        BY <1>2 DEF disk, shareHistory
      <3>5. /\ Cardinality(Going(x)) + Cardinality(Complete(x))
                  <= Cardinality(Active(x))
            /\ Cardinality(Active(x)) \in Nat /\ Cardinality(Going(x)) \in Nat
            /\ Cardinality(Complete(x)) \in Nat /\ MaxDownloads \in Nat
        BY ActiveParts, CountsAreNat, ShareAssumption DEF ShareAssumption
      <3>6. /\ Exists(x) /\ store[x].count + reserved[x] < MaxDownloads
            /\ reserved[x] = Cardinality(Active(x))
            /\ delivered[x] = store[x].count + uncounted[x]
                                + Cardinality(Complete(x))
        BY <1>2, <2>1, <2>3 DEF Tally
      <3>7. /\ reserved'[x] = Cardinality(Active(x)')
            /\ store[x].count + Cardinality(Active(x)') <= MaxDownloads
            /\ delivered[x] + Cardinality(Going(x)')
                  <= MaxDownloads + uncounted[x]
            /\ delivered[x] = store[x].count + uncounted[x]
                                + Cardinality(Complete(x)')
        BY <3>1, <3>2, <3>3, <3>5, <3>6
      <3> QED
        BY <2>2, <3>4, <3>6, <3>7 DEF Tally, Exists
    <2>4. CASE x # s
      <3>1. reserved'[x] = reserved[x]
        BY <1>1, <1>2, <2>4 DEF ShareShape
      <3>2. UNCHANGED <<Active(x), Going(x), Complete(x)>>
        BY <1>1, <1>2, <1>3, <2>4, OthersStay
      <3>3. UNCHANGED <<store, delivered, uncounted>>
        BY <1>2 DEF disk, shareHistory
      <3> QED
        BY <2>1, <2>2, <3>1, <3>2, <3>3 DEF Tally, Exists
    <2> QED
      BY <2>3, <2>4
  <1> QED
    BY <1>4, <1>5 DEF ShareInvariant

\* A download gets on: opened, copied, complete or failed, it stays reserved.
LEMMA GoesStep ==
    ASSUME ShareInvariant, NEW t \in Transfers, NEW ok \in BOOLEAN,
           OpenContent(t) \/ Copied(t, ok)
    PROVE  ShareInvariant'
  <1> DEFINE s == transfer[t].share
  <1>1. ShareShape /\ UNCHANGED <<disk, age, reserved, uncounted, broken>>
    BY DEF ShareInvariant, OpenContent, Copied, shareHistory
  <1>2. PICK step \in {"copy", "complete", "failed"} : 
           /\ transfer' = [transfer EXCEPT ![t].step = step]
           /\ \/ transfer[t].step = "open" /\ step # "complete"
                 /\ delivered' = delivered
              \/ transfer[t].step = "copy" /\ step = "failed"
                 /\ delivered' = delivered
              \/ transfer[t].step = "copy" /\ step = "complete"
                 /\ delivered' = [delivered EXCEPT ![s] = @ + 1]
    BY DEF OpenContent, Copied, Goes, shareHistory
  <1> DEFINE r == [transfer[t] EXCEPT !.step = step]
  <1>3. /\ r \in Downloads /\ r.step = step /\ r.share = s
        /\ transfer' = [transfer EXCEPT ![t] = r] /\ s \in Shares
    BY <1>1, <1>2 DEF ShareShape, Downloads, TransferSteps
  <1> HIDE DEF r
  <1>4. ShareShape'
    BY <1>1, <1>2, <1>3 DEF ShareShape, disk
  <1>5. ASSUME NEW x \in Shares PROVE Tally(x)' /\ Kept(x)'
    <2>1. Tally(x) /\ Kept(x)
      BY DEF ShareInvariant
    <2>2. Kept(x)'
      BY <1>1, <2>1, KeptStands
    <2>3. CASE x = s
      <3>1. /\ Cardinality(Active(x)') = Cardinality(Active(x)) - 1 + 1
            /\ Cardinality(Going(x)') = Cardinality(Going(x)) - 1
                 + (IF step = "copy" THEN 1 ELSE 0)
            /\ Cardinality(Complete(x)') = Cardinality(Complete(x)) - 0
                 + (IF step = "complete" THEN 1 ELSE 0)
        BY <1>1, <1>2, <1>3, <2>3, CountsMove DEF Count
      <3>2. /\ store[x].count \in Nat /\ delivered[x] \in Nat
            /\ uncounted[x] \in Nat
        BY <1>1 DEF ShareShape, Entries
      <3>3. delivered'[x] = delivered[x]
              + (IF step = "complete" THEN 1 ELSE 0)
        BY <1>1, <1>2, <2>3, <3>2 DEF ShareShape
      <3>4. t \in Active(x)
        BY <1>2, <2>3 DEF Active, Of
      <3>5. UNCHANGED <<store, uncounted, reserved>>
        BY <1>1 DEF disk
      <3> QED
        BY <1>2, <2>1, <2>2, <3>1, <3>2, <3>3, <3>4, <3>5, CountsAreNat,
           ShareAssumption DEF Tally, Exists, ShareAssumption
    <2>4. CASE x # s
      <3>1. UNCHANGED <<Active(x), Going(x), Complete(x)>>
        BY <1>1, <1>3, <2>4, OthersStay
      <3>2. delivered'[x] = delivered[x]
        BY <1>1, <1>2, <2>4 DEF ShareShape
      <3> QED
        BY <1>1, <2>1, <2>2, <3>1, <3>2 DEF Tally, Exists, disk
    <2> QED
      BY <2>3, <2>4
  <1> QED
    BY <1>4, <1>5 DEF ShareInvariant
\* The end of a download: it is counted before anybody may look for its place,
\* and the content goes with the last one, when no other is admitted.
LEMMA FinishStep ==
    ASSUME ShareInvariant, NEW t \in Transfers, NEW loaded \in BOOLEAN,
           NEW saved \in BOOLEAN, Finish(t, loaded, saved)
    PROVE  ShareInvariant'
  <1> DEFINE s == transfer[t].share
             complete == transfer[t].step = "complete"
             c == IF complete THEN 1 ELSE 0
             count == store[s].count + c
             full == count >= MaxDownloads
  <1>1. ShareShape /\ transfer[t].step \in {"complete", "failed"}
        /\ s \in Shares /\ store[s] \in Entries
    BY DEF ShareInvariant, ShareShape, Finish
  <1>2. /\ transfer' = [transfer EXCEPT ![t] = Free]
        /\ Free \in Downloads /\ Free.step = "idle"
    BY DEF Finish, Free, Downloads, TransferSteps
  <1>3. /\ reserved' = [reserved EXCEPT ![s] = IF @ > 0 THEN @ - 1 ELSE 0]
        /\ UNCHANGED <<age, delivered>>
    BY DEF Finish, Release
  <1>4. uncounted' = IF complete /\ ~(loaded /\ saved)
                     THEN [uncounted EXCEPT ![s] = @ + 1] ELSE uncounted
    BY DEF Finish
  <1> DEFINE Elsewhere ==
               /\ store' \in [Shares -> Entries]
               /\ content' \in [Shares -> {"none", "part", "whole"}]
               /\ broken' \subseteq Shares
               /\ \A x \in Shares \ {s} :
                     /\ store'[x] = store[x] /\ content'[x] = content[x]
                     /\ x \in broken' <=> x \in broken
             Untold == ~Exists(s) /\ UNCHANGED store
             Told == /\ loaded /\ saved /\ Exists(s)
                     /\ store'[s].kind = "listed" /\ store'[s].count = count
                     /\ store'[s].removed = (store[s].removed \/ full)
                     /\ ~full => content'[s] = content[s]
                     /\ broken' = broken
             Failed ==
               /\ ~(loaded /\ saved) /\ Exists(s) /\ UNCHANGED store
               /\ s \in broken => s \in broken'
               /\ content'[s] = content[s] \/ s \in broken'
  <1> DEFINE Outcome == Elsewhere /\ (Untold \/ Told \/ Failed)
  <1>5. ASSUME ~(loaded /\ Exists(s)) PROVE Outcome
    <2>1. UNCHANGED <<store, content, broken>>
      BY <1>5 DEF Finish, disk
    <2>2. Elsewhere
      BY <1>1, <2>1 DEF ShareShape
    <2>3. Untold \/ Failed
      BY <1>5, <2>1
    <2> QED
      BY <2>2, <2>3
  <1>6. ASSUME loaded /\ Exists(s) /\ saved PROVE Outcome
    <2>1. store' = [store EXCEPT ![s].count = count, ![s].removed = @ \/ full]
      BY <1>6, Zenon DEF Finish
    <2>2. broken' = broken /\ IF full THEN Remove({s}) ELSE content' = content
      BY <1>6 DEF Finish
    <2>3. count \in Nat
      BY <1>1 DEF Entries
    <2>4. store' \in [Shares -> Entries]
      BY <1>1, <2>1, <2>3 DEF Entries, ShareShape
    <2>5. /\ store'[s].count = count /\ store'[s].kind = store[s].kind
          /\ \A x \in Shares : x # s => store'[x] = store[x]
      BY <1>1, <2>1 DEF Entries, ShareShape
    <2>6. store'[s].removed = (store[s].removed \/ full)
      BY <1>1, <2>1 DEF Entries, ShareShape
    <2>7. Elsewhere
      BY <1>1, <2>2, <2>4, <2>5, RemoveContent DEF ShareShape
    <2>8. Told
      BY <1>6, <2>2, <2>5, <2>6 DEF Exists
    <2> QED
      BY <2>7, <2>8
  <1>7. ASSUME loaded /\ Exists(s) /\ ~saved PROVE Outcome
    <2>1. /\ store' = store
          /\ broken' = IF full THEN broken \cup {s} ELSE broken
          /\ IF full THEN Remove({s}) ELSE content' = content
      BY <1>7 DEF Finish
    <2>2. Elsewhere
      BY <1>1, <2>1, RemoveContent DEF ShareShape
    <2>3. Failed
      BY <1>7, <2>1
    <2> QED
      BY <2>2, <2>3
  <1>8. Outcome
    BY <1>5, <1>6, <1>7
  <1>9. ShareShape'
    <2>1. /\ reserved' \in [Shares -> Nat] /\ uncounted' \in [Shares -> Nat]
          /\ UNCHANGED <<age, delivered>>
      BY <1>1, <1>3, <1>4 DEF ShareShape
    <2>2. /\ transfer' \in [Transfers -> Downloads]
          /\ \A u \in Transfers :
                transfer'[u].step # "idle" => transfer'[u].share \in Shares
      BY <1>1, <1>2 DEF ShareShape
    <2> QED
      BY <1>1, <1>8, <2>1, <2>2 DEF ShareShape
  <1>10. ASSUME NEW x \in Shares, x # s PROVE Tally(x)' /\ Kept(x)'
    <2>1. UNCHANGED <<Active(x), Going(x), Complete(x)>>
      BY <1>1, <1>2, <1>10, OthersStay
    <2>2. /\ store'[x] = store[x] /\ content'[x] = content[x]
          /\ x \in broken' <=> x \in broken
      BY <1>8, <1>10
    <2>3. /\ reserved'[x] = reserved[x] /\ uncounted'[x] = uncounted[x]
          /\ UNCHANGED <<age, delivered>>
      BY <1>1, <1>3, <1>4, <1>10 DEF ShareShape
    <2>4. Tally(x) /\ Kept(x)
      BY DEF ShareInvariant
    <2>5. Tally(x)'
      BY <2>1, <2>2, <2>3, <2>4 DEF Tally, Exists
    <2>6. Kept(x)'
      BY <2>2, <2>3, <2>4 DEF Kept, Exists, Used
    <2> QED
      BY <2>5, <2>6
  <1>11. ASSUME NEW x \in Shares, x = s PROVE Tally(x)' /\ Kept(x)'
    <2>1. Tally(x) /\ Kept(x)
      BY <1>1 DEF ShareInvariant
    <2>2. /\ Cardinality(Active(x)') = Cardinality(Active(x)) - 1 + 0
          /\ Cardinality(Going(x)') = Cardinality(Going(x)) - 0 + 0
          /\ Cardinality(Complete(x)') = Cardinality(Complete(x)) - c + 0
      BY <1>1, <1>2, <1>11, CountsMove DEF Count
    <2>3. /\ Cardinality(Active(x)) \in Nat
          /\ Cardinality(Going(x)) \in Nat /\ Cardinality(Complete(x)) \in Nat
          /\ MaxDownloads \in Nat /\ c \in 0 .. 1
      BY CountsAreNat, ShareAssumption DEF ShareAssumption
    <2>4. /\ store[x].count \in Nat /\ delivered[x] \in Nat
          /\ uncounted[x] \in Nat /\ reserved[x] \in Nat
      BY <1>1 DEF ShareShape, Entries
    <2>5. t \in Active(x)
      BY <1>1, <1>11 DEF Active, Of
    <2>6. reserved[x] > 0
      <3>1. IsFiniteSet(Active(x))
        BY OfFinite DEF Active
      <3>2. Cardinality(Active(x)) # 0
        BY <2>5, <3>1, FS_EmptySet
      <3> QED
        BY <2>1, <2>3, <3>2 DEF Tally
    <2>7. /\ reserved'[x] = reserved[x] - 1 /\ delivered'[x] = delivered[x]
          /\ age'[x] = age[x]
      BY <1>1, <1>3, <1>11, <2>6 DEF ShareShape
    <2>8. uncounted'[x] = uncounted[x] + (IF loaded /\ saved THEN 0 ELSE c)
      BY <1>1, <1>4, <1>11, <2>4 DEF ShareShape
    <2>9. CASE Untold
      BY <1>11, <2>1, <2>2, <2>3, <2>4, <2>5, <2>7, <2>8, <2>9
         DEF Tally, Kept, Exists
    <2>10. CASE Told
      <3>1. /\ loaded /\ saved /\ store[x].kind = "listed"
            /\ store'[x].kind = "listed"
            /\ store'[x].count = store[x].count + c
            /\ store'[x].removed => store[x].removed \/ count >= MaxDownloads
            /\ store[x].removed \/ full => store'[x].removed
            /\ ~full => content'[x] = content[x]
            /\ broken' = broken
        BY <1>11, <2>10 DEF Exists
      <3>2. Tally(x)'
        BY <2>1, <2>2, <2>3, <2>4, <2>7, <2>8, <3>1 DEF Tally, Exists
      <3>3. store'[x].removed /\ age[x] = 0 => store'[x].count >= MaxDownloads
        BY <1>11, <2>1, <2>3, <2>4, <3>1 DEF Kept, Exists, Used
      <3>4. Kept(x)'
        BY <2>1, <2>7, <3>1, <3>3 DEF Kept, Exists, Used
      <3> QED
        BY <3>2, <3>4
    <2>11. CASE Failed
      <3>1. ~(loaded /\ saved) /\ store' = store
        BY <2>11
      <3>2. /\ store[x].kind = "listed"
            /\ x \in broken => x \in broken'
            /\ content'[x] = content[x] \/ x \in broken'
        BY <1>11, <2>11 DEF Exists
      <3>3. Tally(x)'
        BY <2>1, <2>2, <2>3, <2>4, <2>7, <2>8, <3>1, <3>2 DEF Tally, Exists
      <3>4. Kept(x)'
        BY <2>1, <2>7, <3>1, <3>2 DEF Kept, Exists, Used
      <3> QED
        BY <3>3, <3>4
    <2> QED
      BY <1>8, <2>9, <2>10, <2>11
  <1> QED
    BY <1>9, <1>10, <1>11 DEF ShareInvariant
-----------------------------------------------------------------------------
(* The other steps, and the theorems.                                      *)

\* The reservations of a process that ends go with its downloads; those that
\* were complete stay uncounted.
LEMMA CrashStep ==
    ASSUME ShareInvariant, ClientCrashes
    PROVE  ShareInvariant'
  <1>1. ShareShape
    BY DEF ShareInvariant
  <1>2. /\ reserved' = [s \in Shares |-> 0]
        /\ transfer' = [t \in Transfers |-> Free]
        /\ uncounted' = [s \in Shares |-> uncounted[s] + Cardinality(
             {t \in Transfers :
                transfer[t] = [step |-> "complete", share |-> s]})]
        /\ UNCHANGED <<store, content, age, delivered, broken>>
    BY DEF ClientCrashes, disk
  <1>3. Free \in Downloads /\ Free.step = "idle"
    BY DEF Free, Downloads, TransferSteps
  <1>4. ASSUME NEW s \in Shares
        PROVE  uncounted'[s] = uncounted[s] + Cardinality(Complete(s))
    <2>1. {t \in Transfers : transfer[t] = [step |-> "complete", share |-> s]}
            = Complete(s)
      BY <1>1 DEF Complete, Of, ShareShape, Downloads
    <2> QED
      BY <1>2, <2>1
  <1>5. ShareShape'
    <2>1. uncounted' \in [Shares -> Nat]
      BY <1>1, <1>2, <1>4, CountsAreNat DEF ShareShape
    <2> QED
      BY <1>1, <1>2, <1>3, <2>1 DEF ShareShape
  <1>6. ASSUME NEW s \in Shares PROVE Tally(s)' /\ Kept(s)'
    <2>1. Tally(s) /\ Kept(s)
      BY DEF ShareInvariant
    <2>2. Active(s)' = {} /\ Going(s)' = {} /\ Complete(s)' = {}
      BY <1>2, <1>3 DEF Active, Going, Complete, Of
    <2>3. Cardinality({}) = 0
      BY FS_EmptySet
    <2>4. /\ store[s].count \in Nat /\ delivered[s] \in Nat
          /\ uncounted[s] \in Nat /\ MaxDownloads \in Nat
      BY <1>1, ShareAssumption DEF ShareShape, Entries, ShareAssumption
    <2>5. Active(s) = {} => Cardinality(Complete(s)) = 0
      <3>1. Complete(s) \subseteq Active(s)
        BY DEF Complete, Active, Of
      <3> QED
        BY <3>1, <2>3
    <2>6. Tally(s)'
      <3>1. /\ Cardinality(Active(s)) \in Nat /\ Cardinality(Going(s)) \in Nat
            /\ Cardinality(Complete(s)) \in Nat
            /\ Cardinality(Going(s)) + Cardinality(Complete(s))
                 <= Cardinality(Active(s))
        BY CountsAreNat, ActiveParts
      <3>2. /\ store'[s] = store[s] /\ delivered'[s] = delivered[s]
            /\ uncounted'[s] = uncounted[s] + Cardinality(Complete(s))
            /\ reserved'[s] = 0
        BY <1>2, <1>4
      <3>3. /\ Cardinality(Active(s)') = 0 /\ Cardinality(Going(s)') = 0
            /\ Cardinality(Complete(s)') = 0
        BY <2>2, <2>3
      <3>4. store[s].count <= MaxDownloads
        BY <2>1, <2>4, <3>1 DEF Tally
      <3>5. delivered[s] <= MaxDownloads + uncounted[s]
        BY <2>1, <2>4, <3>1 DEF Tally
      <3> QED
        BY <2>1, <2>2, <2>3, <2>4, <2>5, <3>1, <3>2, <3>3, <3>4, <3>5
           DEF Tally, Exists
    <2>7. Kept(s)'
      BY <1>2, <2>1 DEF Kept, Exists, Used
    <2> QED
      BY <2>6, <2>7
  <1> QED
    BY <1>5, <1>6 DEF ShareInvariant

\* Steps that leave shares and downloads alone.
LEMMA RestStep ==
    ASSUME ShareInvariant, UNCHANGED <<disk, age, reserved, transfer,
                                       shareHistory>>
    PROVE  ShareInvariant'
  <1>1. ShareShape'
    BY DEF ShareInvariant, ShareShape, disk, shareHistory
  <1>2. ASSUME NEW s \in Shares PROVE Tally(s)' /\ Kept(s)'
    <2>1. Tally(s)'
      BY TallyStands DEF ShareInvariant, disk, shareHistory
    <2>2. Kept(s)'
      BY KeptStands DEF ShareInvariant, disk, shareHistory
    <2> QED
      BY <2>1, <2>2
  <1> QED
    BY <1>1, <1>2 DEF ShareInvariant

\* Nothing is shared at the start.
LEMMA ShareInvariantInit ==
    ASSUME ShareInit PROVE ShareInvariant
  <1>1. Free \in Downloads /\ Free.step = "idle"
    BY DEF Free, Downloads, TransferSteps
  <1>2. NoEntry \in Entries /\ NoEntry.kind = "none" /\ NoEntry.count = 0
    BY DEF NoEntry, Entries
  <1>3. ShareShape
    BY <1>1, <1>2 DEF ShareInit, ShareShape
  <1>4. ASSUME NEW s \in Shares PROVE Tally(s) /\ Kept(s)
    <2>1. Active(s) = {} /\ Going(s) = {} /\ Complete(s) = {}
      BY <1>1 DEF ShareInit, Active, Going, Complete, Of
    <2>2. Cardinality({}) = 0
      BY FS_EmptySet
    <2>3. Tally(s)
      BY <1>2, <2>1, <2>2, ShareAssumption
         DEF ShareInit, Tally, Exists, ShareAssumption
    <2> QED
      BY <1>2, <2>3 DEF ShareInit, Kept, Exists
  <1> QED
    BY <1>3, <1>4 DEF ShareInvariant

\* Every step keeps the invariant.
LEMMA ShareInvariantKept ==
    ASSUME ShareInvariant, [ShareNext]_shareVars PROVE ShareInvariant'
  <1>1. CASE UNCHANGED shareVars
    BY <1>1, RestStep DEF shareVars, memory
  <1>2. ASSUME NEW s \in Shares, NEW ok \in BOOLEAN,
               \/ Upload(s) \/ Uploaded(s, ok) \/ Append(s, ok)
               \/ Delete(s, ok) \/ Expire(s)
        PROVE  ShareInvariant'
    BY <1>2, ListStep
  <1>3. ASSUME NEW loaded \in BOOLEAN, NEW saved \in BOOLEAN,
               \/ Page(saved) \/ SendHeartbeat(loaded, saved)
               \/ \E y \in Syncers : SyncDecides(y, loaded, saved)
        PROVE  ShareInvariant'
    <2>1. UNCHANGED <<age, transfer, reserved, delivered, uncounted>>
      BY <1>3 DEF Page, SendHeartbeat, SyncDecides, memory
    <2>2. Cleanup(saved) \/ UNCHANGED <<disk, broken>>
      BY <1>3 DEF Page, SendHeartbeat, SyncDecides
    <2>3. CASE Cleanup(saved)
      BY <2>1, <2>3, CleanupStep
    <2>4. CASE UNCHANGED <<disk, broken>>
      BY <2>1, <2>4, RestStep DEF shareHistory
    <2> QED
      BY <2>2, <2>3, <2>4
  <1>4. ASSUME NEW t \in Transfers, NEW loaded \in BOOLEAN,
               NEW saved \in BOOLEAN,
               \/ \E s \in Shares : Request(t, s)
               \/ OpenContent(t) \/ Copied(t, saved)
               \/ Finish(t, loaded, saved)
        PROVE  ShareInvariant'
    BY <1>4, RequestStep, GoesStep, FinishStep
  <1>5. CASE \/ \E y \in Syncers : SyncOpens(y) \/ SyncFails(y) \/ SyncCloses(y)
             \/ \E list \in mail : Heard(list) \/ Lost(list)
             \/ \E s \in Shares : RecipientLeaves(s) \/ RecipientReturns(s)
             \/ ServeFails \/ ServerRestarts \/ ClientStarts
    BY <1>5, RestStep DEF SyncOpens, SyncFails, SyncCloses, SyncActs, Heard,
                          Lost, ServeFails, ServerRestarts, ClientStarts,
                          RecipientLeaves, RecipientReturns, memory
  <1> QED
    BY <1>1, <1>2, <1>3, <1>4, <1>5, CrashStep DEF ShareNext

\* However many downloads of a share overlap, end in whatever order, fail or
\* outlive a crash of the client: complete downloads never exceed the owner's
\* limit but by those the list was not told of (findFileShareForRequest and
\* finishFileTransfer).
THEOREM DownloadsStayWithinLimit == ShareSpec => []DownloadsWithinLimit
  <1>1. ShareInit => ShareInvariant
    BY ShareInvariantInit
  <1>2. ShareInvariant /\ [ShareNext]_shareVars => ShareInvariant'
    BY ShareInvariantKept
  <1>3. ShareInvariant => DownloadsWithinLimit
    <2> SUFFICES ASSUME ShareInvariant, NEW s \in Shares
                 PROVE  delivered[s] <= MaxDownloads + uncounted[s]
      BY DEF DownloadsWithinLimit
    <2>1. /\ delivered[s] \in Nat /\ uncounted[s] \in Nat
          /\ MaxDownloads \in Nat
          /\ delivered[s] + Cardinality(Going(s)) <= MaxDownloads + uncounted[s]
      BY ShareAssumption DEF ShareInvariant, ShareShape, Tally, ShareAssumption
    <2> QED
      BY <2>1, CountsAreNat
  <1> QED
    BY <1>1, <1>2, <1>3, PTL DEF ShareSpec

\* An admitted download finds its content, for any limit and any number of
\* downloads: the reservation keeps the share from being used up before.
THEOREM ReservationsAreHonoured == ShareSpec => []ReservationHonoured
  <1>1. ShareInit => ShareInvariant
    BY ShareInvariantInit
  <1>2. ShareInvariant /\ [ShareNext]_shareVars => ShareInvariant'
    BY ShareInvariantKept
  <1>3. ShareInvariant => ReservationHonoured
    <2> SUFFICES ASSUME ShareInvariant, NEW t \in Transfers,
                        transfer[t].step = "open", Exists(transfer[t].share),
                        age[transfer[t].share] = 0,
                        transfer[t].share \notin broken
                 PROVE  content[transfer[t].share] = "whole"
      BY DEF ReservationHonoured
    <2> DEFINE s == transfer[t].share
    <2>1. s \in Shares /\ Tally(s) /\ Kept(s) /\ store[s].count \in Nat
      BY DEF ShareInvariant, ShareShape, Entries
    <2>2. t \in Active(s) /\ IsFiniteSet(Active(s))
      BY OfFinite DEF Active, Of
    <2>3. Cardinality(Active(s)) > 0
      BY <2>2, CountsAreNat, FS_EmptySet
    <2>4. ~Used(s)
      BY <2>1, <2>3, CountsAreNat, ShareAssumption
         DEF Tally, Used, ShareAssumption
    <2> QED
      BY <2>1, <2>4 DEF Kept
  <1> QED
    BY <1>1, <1>2, <1>3, PTL DEF ShareSpec
=============================================================================
