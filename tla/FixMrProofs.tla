---------------------------- MODULE FixMrProofs ----------------------------
(***************************************************************************)
(* Theorems about merge requests (FixMr).  Whatever overlaps what: a merge *)
(* request that nobody interfered with is the reviewed diff (MrReviewed),  *)
(* the results stored with a fix are true of GitLab (MrResultsTrue), the   *)
(* fix on the row is the one on offer, of the verdict beside it, with the  *)
(* exceptions named there (FixAlwaysCurrent), and the state is well formed *)
(* (FixTypeOK).                                                            *)
(*                                                                         *)
(* FixInv is what keeps the fix current, and MrInv adds how far each       *)
(* thread and each request is, and what GitLab holds of it.                *)
(***************************************************************************)
EXTENDS FixMr, ReviewStoreProofs, OrderProofs, SequenceTheorems

(***************************************************************************)
(* Edits applied one after another.  _reapply and FileFix are recursive    *)
(* functions; Between states what they go through.                         *)
(***************************************************************************)

EditedBy(text, e) == IF Once(text, e.before) THEN Replaced(text, e) ELSE text

\* The texts between the edits.
Between(w, raw, edits) ==
    /\ DOMAIN w = 0 .. Len(edits)
    /\ w[0] = raw
    /\ \A n \in 1 .. Len(edits) : w[n] = EditedBy(w[n - 1], edits[n])

Recursion(w, raw, edits) ==
    w = [n \in 0 .. Len(edits) |-> IF n = 0 THEN raw ELSE EditedBy(w[n - 1], edits[n])]

\* The recursion has a solution, whatever the number of edits.
LEMMA BetweenExists ==
    ASSUME NEW raw, NEW edits, Len(edits) \in Nat
    PROVE  \E w : Recursion(w, raw, edits)
<1> DEFINE Good(m, g) == g[0] = raw /\ \A n \in 1 .. m : g[n] = EditedBy(g[n - 1], edits[n])
           S == {m \in Nat : \E g : Good(m, g)}
<1>1. 0 \in S
  <2>1. Good(0, [n \in 0 .. 0 |-> raw])
    OBVIOUS
  <2>2. QED
    BY <2>1
<1>2. ASSUME NEW m \in Nat, m \in S PROVE m + 1 \in S
  <2>1. PICK g : Good(m, g)
    BY <1>2
  <2> DEFINE h == [n \in 0 .. m + 1 |-> IF n <= m THEN g[n] ELSE EditedBy(g[m], edits[n])]
  <2>2. h[0] = raw
    BY <2>1
  <2>3. ASSUME NEW n \in 1 .. m + 1 PROVE h[n] = EditedBy(h[n - 1], edits[n])
    <3>1. CASE n <= m
      BY <3>1, <2>1
    <3>2. CASE n = m + 1
      BY <3>2
    <3>3. QED
      BY <3>1, <3>2
  <2> HIDE DEF h
  <2>4. Good(m + 1, h)
    BY <2>2, <2>3
  <2>5. QED
    BY <2>4
<1> HIDE DEF S
<1>3. Len(edits) \in S
  BY <1>1, <1>2, Counting
<1> USE DEF S
<1>4. PICK g : Good(Len(edits), g)
  BY <1>3
<1> DEFINE w == [n \in 0 .. Len(edits) |-> g[n]]
<1>5. w = [n \in 0 .. Len(edits) |-> IF n = 0 THEN raw ELSE EditedBy(w[n - 1], edits[n])]
  <2>1. ASSUME NEW n \in 0 .. Len(edits)
        PROVE  g[n] = IF n = 0 THEN raw ELSE EditedBy(w[n - 1], edits[n])
    <3>1. n # 0 => w[n - 1] = g[n - 1]
      OBVIOUS
    <3> HIDE DEF w
    <3>2. QED
      BY <1>4, <3>1
  <2>2. QED
    BY <2>1
<1> HIDE DEF w
<1>6. QED
  BY <1>5 DEF Recursion

\* _reapply is the last of the texts between.
LEMMA ReapplyIs ==
    ASSUME NEW raw, NEW edits, Len(edits) \in Nat
    PROVE  \E w : Between(w, raw, edits) /\ _reapply(raw, edits) = w[Len(edits)]
<1> DEFINE Is(w) == w = [n \in 0 .. Len(edits) |->
                            IF n = 0 THEN raw
                            ELSE IF Once(w[n - 1], edits[n].before) THEN Replaced(w[n - 1], edits[n])
                            ELSE w[n - 1]]
           cur == CHOOSE w : Is(w)
<1>1. \E w : Is(w)
  <2>1. PICK w : Recursion(w, raw, edits)
    BY BetweenExists
  <2>2. \A n \in 0 .. Len(edits) :
            (IF n = 0 THEN raw ELSE EditedBy(w[n - 1], edits[n]))
            = (IF n = 0 THEN raw
               ELSE IF Once(w[n - 1], edits[n].before) THEN Replaced(w[n - 1], edits[n])
               ELSE w[n - 1])
    BY DEF EditedBy
  <2>3. Is(w)
    BY <2>1, <2>2 DEF Recursion
  <2>4. QED
    BY <2>3
<1>2. Is(cur)
  BY <1>1
<1>3. _reapply(raw, edits) = cur[Len(edits)]
  BY DEF _reapply
<1> HIDE DEF cur
<1>4. Between(cur, raw, edits)
  BY <1>2 DEF Between, EditedBy
<1>5. QED
  BY <1>3, <1>4

\* What the diff says of each edit.
AnswersTo(answers, edits, w) ==
    /\ DOMAIN answers = 1 .. Len(edits)
    /\ \A n \in 1 .. Len(edits) :
          /\ answers[n].before = edits[n].before
          /\ answers[n].after = edits[n].after
          /\ answers[n].applied <=> Once(w[n - 1], edits[n].before)

\* So is the right side of a diff; each edit is answered by whether it was found once.
LEMMA FileFixIs ==
    ASSUME NEW key, NEW raw, NEW edits, Len(edits) \in Nat, DOMAIN edits = 1 .. Len(edits)
    PROVE  \E w :
              /\ Between(w, raw, edits)
              /\ FileFix(key, edits, raw).project = key[1]
              /\ FileFix(key, edits, raw).file = key[2]
              /\ FileFix(key, edits, raw).old = raw
              /\ FileFix(key, edits, raw).new = w[Len(edits)]
              /\ AnswersTo(FileFix(key, edits, raw).edits, edits, w)
<1> DEFINE Is(w) == w = [n \in 0 .. Len(edits) |->
                            IF n = 0 THEN raw ELSE _apply_one(w[n - 1], edits[n]).text]
           cur == CHOOSE w : Is(w)
           answers == [n \in DOMAIN edits |->
                          Answered(edits[n], _apply_one(cur[n - 1], edits[n]).applied)]
<1>0. \A t, e : _apply_one(t, e).text = EditedBy(t, e)
  BY DEF _apply_one, EditedBy
<1>0a. \A t, e : _apply_one(t, e).applied <=> Once(t, e.before)
  BY DEF _apply_one
<1>0b. \A e, b : Answered(e, b).before = e.before /\ Answered(e, b).after = e.after /\ (Answered(e, b).applied <=> b)
  BY DEF Answered
<1>1. \E w : Is(w)
  <2>1. PICK w : Recursion(w, raw, edits)
    BY BetweenExists
  <2>2. \A n \in 0 .. Len(edits) :
            (IF n = 0 THEN raw ELSE EditedBy(w[n - 1], edits[n]))
            = (IF n = 0 THEN raw ELSE _apply_one(w[n - 1], edits[n]).text)
    BY <1>0
  <2>3. Is(w)
    BY <2>1, <2>2 DEF Recursion
  <2>4. QED
    BY <2>3
<1>2. Is(cur)
  BY <1>1
<1>3. FileFix(key, edits, raw) =
        [project |-> key[1], file |-> key[2], old |-> raw, new |-> cur[Len(edits)], edits |-> answers]
  BY DEF FileFix
<1>4. /\ DOMAIN answers = 1 .. Len(edits)
      /\ \A n \in 1 .. Len(edits) :
            answers[n] = Answered(edits[n], _apply_one(cur[n - 1], edits[n]).applied)
  OBVIOUS
<1> HIDE DEF cur, answers
<1>5. Between(cur, raw, edits)
  BY <1>0, <1>2 DEF Between
<1>6. AnswersTo(answers, edits, cur)
  <2>1. ASSUME NEW n \in 1 .. Len(edits)
        PROVE  /\ answers[n].before = edits[n].before
               /\ answers[n].after = edits[n].after
               /\ answers[n].applied <=> Once(cur[n - 1], edits[n].before)
    <3>1. answers[n].applied <=> _apply_one(cur[n - 1], edits[n]).applied
      BY <1>0b, <1>4
    <3>2. QED
      BY <3>1, <1>0a, <1>0b, <1>4
  <2>2. QED
    BY <1>4, <2>1 DEF AnswersTo
<1>7. QED
  BY <1>3, <1>5, <1>6

\* The edits that passed, applied once more to the file they were tried on,
\* give the text of the diff.
LEMMA AppliedAgain ==
    ASSUME NEW key, NEW raw, NEW edits, Len(edits) \in Nat, DOMAIN edits = 1 .. Len(edits)
    PROVE  FileFix(key, edits, raw).new = _reapply(raw, Applied(FileFix(key, edits, raw)))
<1> DEFINE m == Len(edits)
           a == FileFix(key, edits, raw).edits
           S == {i \in DOMAIN a : a[i].applied}
           A == Picked(a, S)
<1>1. PICK w : /\ Between(w, raw, edits)
               /\ FileFix(key, edits, raw).new = w[m]
               /\ AnswersTo(a, edits, w)
  BY FileFixIs
<1>2. Applied(FileFix(key, edits, raw)) = A
  BY DEF Applied
<1>3. DOMAIN a = 1 .. m /\ m \in Nat /\ S \in SUBSET (1 .. m)
  BY <1>1 DEF AnswersTo
<1>4. \A i \in 1 .. m : i \in S <=> Once(w[i - 1], edits[i].before)
  BY <1>1, <1>3 DEF AnswersTo
<1>4a. \A i \in 1 .. m : a[i].before = edits[i].before /\ a[i].after = edits[i].after
  BY <1>1 DEF AnswersTo
<1> HIDE DEF a, S, A
<1>5. /\ Len(A) = Cardinality(S) /\ Cardinality(S) \in Nat
      /\ \A i \in S : Rank(S, i) \in 1 .. Cardinality(S) /\ A[Rank(S, i)] = a[i]
  BY <1>3, PickedIs DEF A
<1>6. PICK v : Between(v, raw, A) /\ _reapply(raw, A) = v[Cardinality(S)]
  BY <1>5, ReapplyIs
<1>7. Counted(S, m)
  BY <1>3, RankNext
<1> DEFINE T == {n \in Nat : n <= m => v[Rank(S, n)] = w[n]}
<1>8. 0 \in T
  BY <1>1, <1>6, <1>7 DEF Between, Counted
<1>9. ASSUME NEW n \in Nat, n \in T PROVE n + 1 \in T
  <2> SUFFICES ASSUME n + 1 <= m PROVE v[Rank(S, n + 1)] = w[n + 1]
    OBVIOUS
  <2>1. v[Rank(S, n)] = w[n] /\ n + 1 \in 1 .. m
    BY <1>3, <1>9
  <2>2. w[n + 1] = EditedBy(w[n], edits[n + 1])
    BY <1>1, <2>1 DEF Between
  <2>3. CASE n + 1 \in S
    <3>1. Rank(S, n + 1) \in 1 .. Len(A) /\ A[Rank(S, n + 1)] = a[n + 1] /\ Rank(S, n + 1) - 1 = Rank(S, n)
      BY <1>5, <1>7, <2>3 DEF Counted
    <3>2. v[Rank(S, n + 1)] = EditedBy(v[Rank(S, n)], a[n + 1])
      BY <1>6, <3>1 DEF Between
    <3>3. EditedBy(w[n], a[n + 1]) = EditedBy(w[n], edits[n + 1])
      <4>1. a[n + 1].before = edits[n + 1].before /\ a[n + 1].after = edits[n + 1].after
        BY <1>4a, <2>1
      <4>2. QED
        BY <4>1 DEF EditedBy, Replaced
    <3>4. QED
      BY <2>1, <2>2, <3>2, <3>3
  <2>4. CASE n + 1 \notin S
    <3>1. ~ Once(w[n], edits[n + 1].before)
      <4>1. n + 1 - 1 = n
        OBVIOUS
      <4>2. QED
        BY <1>4, <2>1, <2>4, <4>1
    <3>2. QED
      BY <1>7, <2>1, <2>2, <2>4, <3>1 DEF EditedBy, Counted
  <2>5. QED
    BY <2>3, <2>4
<1> HIDE DEF T
<1>10. m \in T
  BY <1>3, <1>8, <1>9, Counting
<1>11. v[Cardinality(S)] = w[m]
  BY <1>3, <1>7, <1>10 DEF T, Counted
<1>12. QED
  BY <1>1, <1>2, <1>6, <1>11

(***************************************************************************)
(* The files of a suggestion.                                              *)
(***************************************************************************)

\* A file of a suggestion with edits that passed: one there is, whose diff
\* those edits give.
FileOk(f) ==
    Applied(f) # <<>> =>
       /\ f.project \in Projects /\ f.file \in Files
       /\ f.new = _reapply(f.old, Applied(f))

FilesOk(files) ==
    /\ files \in Seq(Range(files))
    /\ \A i \in DOMAIN files : FileOk(files[i])
    /\ \A i, j \in DOMAIN files :
          files[i].project = files[j].project /\ files[i].file = files[j].file => i = j

\* The files the edits name, each once.
LEMMA KeysAre ==
    ASSUME NEW edits, Len(edits) \in Nat, DOMAIN edits = 1 .. Len(edits)
    PROVE  /\ Len(KeysOf(edits)) \in Nat /\ DOMAIN KeysOf(edits) = 1 .. Len(KeysOf(edits))
           /\ \A i \in DOMAIN KeysOf(edits) : KeysOf(edits)[i] = <<KeysOf(edits)[i][1], KeysOf(edits)[i][2]>>
           /\ \A i, j \in DOMAIN KeysOf(edits) : KeysOf(edits)[i] = KeysOf(edits)[j] => i = j
<1> DEFINE s == [i \in DOMAIN edits |-> <<edits[i].project, edits[i].file>>]
           keys == Distinct(s)
<1>1. DOMAIN s = 1 .. Len(edits)
  OBVIOUS
<1>2. \A key \in Range(s) : key = <<key[1], key[2]>>
  BY DEF Range
<1>3. KeysOf(edits) = keys
  BY DEF KeysOf
<1> HIDE DEF s, keys
<1>4. /\ Len(keys) \in Nat /\ DOMAIN keys = 1 .. Len(keys)
      /\ keys \in Seq(Range(s))
      /\ \A j, k \in DOMAIN keys : keys[j] = keys[k] => j = k
  BY <1>1, DistinctIs DEF keys
<1>5. \A i \in DOMAIN keys : keys[i] \in Range(s)
  BY <1>4
<1>6. \A i \in DOMAIN keys : keys[i] = <<keys[i][1], keys[i][2]>>
  BY <1>2, <1>5
<1>7. QED
  BY <1>3, <1>4, <1>6

\* A file that was fetched is as FileOk says.
LEMMA FetchedFile ==
    ASSUME NEW key, key[1] \in Projects, key[2] \in Files, NEW raw,
           NEW edits, Len(edits) \in Nat, DOMAIN edits = 1 .. Len(edits)
    PROVE  /\ FileFix(key, edits, raw).project = key[1]
           /\ FileFix(key, edits, raw).file = key[2]
           /\ FileOk(FileFix(key, edits, raw))
<1>1. /\ FileFix(key, edits, raw).project = key[1]
      /\ FileFix(key, edits, raw).file = key[2]
      /\ FileFix(key, edits, raw).old = raw
  BY FileFixIs
<1>2. FileFix(key, edits, raw).new = _reapply(raw, Applied(FileFix(key, edits, raw)))
  BY AppliedAgain
<1>3. QED
  BY <1>1, <1>2 DEF FileOk

\* One that was not has no applied edit.
LEMMA UnfetchedFile ==
    ASSUME NEW key, NEW edits, Len(edits) \in Nat, DOMAIN edits = 1 .. Len(edits)
    PROVE  /\ Unfetched(key, edits).project = key[1]
           /\ Unfetched(key, edits).file = key[2]
           /\ FileOk(Unfetched(key, edits))
<1> DEFINE a == [i \in DOMAIN edits |-> Answered(edits[i], FALSE)]
<1>1. Unfetched(key, edits) = [project |-> key[1], file |-> key[2], old |-> <<>>, new |-> <<>>, edits |-> a]
  BY DEF Unfetched
<1>2. \A e : ~ Answered(e, FALSE).applied
  BY DEF Answered
<1>3. DOMAIN a = 1 .. Len(edits) /\ \A i \in 1 .. Len(edits) : ~ a[i].applied
  BY <1>2
<1> HIDE DEF a
<1>4. {i \in DOMAIN a : a[i].applied} = {}
  BY <1>3
<1>5. Applied(Unfetched(key, edits)) = Picked(a, {})
  <2>1. Unfetched(key, edits).edits = a
    BY <1>1
  <2>2. Applied(Unfetched(key, edits)) = Picked(a, {i \in DOMAIN a : a[i].applied})
    BY <2>1 DEF Applied
  <2>3. QED
    BY <2>2, <1>4
<1>6. {} \in SUBSET (1 .. Len(edits))
  OBVIOUS
<1>7. Picked(a, {}) = <<>>
  BY <1>3, <1>6, PickedIs
<1>8. QED
  BY <1>1, <1>5, <1>7 DEF FileOk

\* Whatever was proposed and fetched.
LEMMA BuiltFiles ==
    ASSUME NEW edits, Len(edits) \in Nat, DOMAIN edits = 1 .. Len(edits),
           NEW raw, DOMAIN raw \subseteq Projects \X Files
    PROVE  FilesOk(_build_files(edits, raw))
<1> DEFINE m == Len(edits)
           keys == KeysOf(edits)
           n == Len(keys)
           Own(key) == Picked(edits, {i \in DOMAIN edits : <<edits[i].project, edits[i].file>> = key})
           File(i) == IF keys[i] \in DOMAIN raw THEN FileFix(keys[i], Own(keys[i]), raw[keys[i]])
                      ELSE Unfetched(keys[i], Own(keys[i]))
           files == _build_files(edits, raw)
<1>1. files = [i \in DOMAIN keys |-> File(i)]
  BY DEF _build_files
<1>2. /\ n \in Nat /\ DOMAIN keys = 1 .. n
      /\ \A i \in 1 .. n : keys[i] = <<keys[i][1], keys[i][2]>>
      /\ \A i, j \in 1 .. n : keys[i] = keys[j] => i = j
  BY KeysAre
<1>3. ASSUME NEW key
      PROVE  Len(Own(key)) \in Nat /\ DOMAIN Own(key) = 1 .. Len(Own(key))
  <2> DEFINE S == {i \in DOMAIN edits : <<edits[i].project, edits[i].file>> = key}
  <2>1. S \in SUBSET (1 .. m)
    OBVIOUS
  <2> HIDE DEF S
  <2>2. QED
    BY <2>1, PickedIs DEF S
<1> HIDE DEF keys, Own
<1>4. ASSUME NEW i \in 1 .. n
      PROVE  File(i).project = keys[i][1] /\ File(i).file = keys[i][2] /\ FileOk(File(i))
  <2>1. CASE keys[i] \in DOMAIN raw
    <3>1. keys[i][1] \in Projects /\ keys[i][2] \in Files
      BY <2>1
    <3>2. QED
      BY <1>3, <2>1, <3>1, FetchedFile
  <2>2. CASE keys[i] \notin DOMAIN raw
    BY <1>3, <2>2, UnfetchedFile
  <2>3. QED
    BY <2>1, <2>2
<1>5. DOMAIN files = 1 .. n /\ \A i \in 1 .. n : files[i] = File(i)
  BY <1>1, <1>2
<1>6. files \in Seq(Range(files))
  <2>1. files \in [1 .. n -> Range(files)]
    BY <1>1, <1>2 DEF Range
  <2>2. QED
    BY <1>2, <2>1
<1> HIDE DEF File, files
<1>7. ASSUME NEW i \in 1 .. n, NEW j \in 1 .. n,
             files[i].project = files[j].project, files[i].file = files[j].file
      PROVE  i = j
  BY <1>2, <1>4, <1>5, <1>7
<1>8. QED
  BY <1>4, <1>5, <1>6, <1>7 DEF FilesOk, files

(***************************************************************************)
(* Its repositories, and the files of each.                                *)
(***************************************************************************)

\* The files to raise are there, and are each in one place.
LEMMA RaisableIs ==
    ASSUME NEW fix, FilesOk(fix.files)
    PROVE  /\ Len(Raisable(fix)) \in Nat /\ DOMAIN Raisable(fix) = 1 .. Len(Raisable(fix))
           /\ \A k \in DOMAIN Raisable(fix) :
                 /\ Raisable(fix)[k].project \in Projects /\ Raisable(fix)[k].file \in Files
                 /\ Raisable(fix)[k].new = _reapply(Raisable(fix)[k].old, Applied(Raisable(fix)[k]))
           /\ \A j, k \in DOMAIN Raisable(fix) :
                 (/\ Raisable(fix)[j].project = Raisable(fix)[k].project
                  /\ Raisable(fix)[j].file = Raisable(fix)[k].file) => j = k
<1> DEFINE m == Len(fix.files)
           R == Raisable(fix)
           S == {i \in DOMAIN fix.files : LET f == fix.files[i]
                                          IN  /\ Applied(f) # <<>> /\ f.file # NoFile
                                              /\ f.project # NoProject}
<1>1. m \in Nat /\ DOMAIN fix.files = 1 .. m
  BY LenProperties DEF FilesOk
<1>2. S \in SUBSET (1 .. m) /\ \A i \in S : Applied(fix.files[i]) # <<>>
  BY <1>1
<1>3. R = Picked(fix.files, S)
  BY DEF Raisable
<1> HIDE DEF S, R, m
<1>4. /\ Cardinality(S) \in Nat /\ DOMAIN R = 1 .. Cardinality(S) /\ Len(R) = Cardinality(S)
      /\ \A k \in 1 .. Cardinality(S) : Ascending(S)[k] \in S /\ R[k] = fix.files[Ascending(S)[k]]
  BY <1>1, <1>2, <1>3, PickedIs
<1>5. ASSUME NEW k \in DOMAIN R
      PROVE  R[k].project \in Projects /\ R[k].file \in Files /\ R[k].new = _reapply(R[k].old, Applied(R[k]))
  <2>1. Ascending(S)[k] \in S /\ Ascending(S)[k] \in DOMAIN fix.files /\ R[k] = fix.files[Ascending(S)[k]]
    BY <1>1, <1>2, <1>4
  <2>2. FileOk(R[k]) /\ Applied(R[k]) # <<>>
    BY <1>2, <2>1 DEF FilesOk
  <2>3. QED
    BY <2>2 DEF FileOk
<1>6. ASSUME NEW j \in DOMAIN R, NEW k \in DOMAIN R, R[j].project = R[k].project, R[j].file = R[k].file
      PROVE  j = k
  <2>1. /\ Ascending(S)[j] \in DOMAIN fix.files /\ R[j] = fix.files[Ascending(S)[j]]
        /\ Ascending(S)[k] \in DOMAIN fix.files /\ R[k] = fix.files[Ascending(S)[k]]
    BY <1>1, <1>2, <1>4
  <2>2. Ascending(S)[j] = Ascending(S)[k]
    BY <1>6, <2>1 DEF FilesOk
  <2>3. QED
    BY <1>1, <1>2, <1>4, <2>2, PickedOnce
<1>7. QED
  BY <1>4, <1>5, <1>6 DEF R

\* The files of one repository.
LEMMA FilesInAre ==
    ASSUME NEW fix, FilesOk(fix.files), NEW p
    PROVE  /\ FilesIn(fix, p) \in Seq(Range(FilesIn(fix, p)))
           /\ Len(FilesIn(fix, p)) \in Nat /\ DOMAIN FilesIn(fix, p) = 1 .. Len(FilesIn(fix, p))
           /\ \A k \in DOMAIN FilesIn(fix, p) :
                 /\ FilesIn(fix, p)[k].file \in Files
                 /\ FilesIn(fix, p)[k].new = _reapply(FilesIn(fix, p)[k].old, Applied(FilesIn(fix, p)[k]))
           /\ \A j, k \in DOMAIN FilesIn(fix, p) :
                 FilesIn(fix, p)[j].file = FilesIn(fix, p)[k].file => j = k
           /\ (\E k \in DOMAIN Raisable(fix) : Raisable(fix)[k].project = p) => FilesIn(fix, p) # <<>>
<1> DEFINE R == Raisable(fix)
           m == Len(R)
           F == FilesIn(fix, p)
           S == {i \in DOMAIN R : R[i].project = p}
<1>1. m \in Nat /\ DOMAIN R = 1 .. m
  BY RaisableIs
<1>2. S \in SUBSET (1 .. m)
  BY <1>1
<1>3. F = Picked(R, S)
  BY DEF FilesIn
<1>3a. \A i \in S : R[i].project = p
  OBVIOUS
<1>3b. (\E k \in DOMAIN R : R[k].project = p) => S # {}
  OBVIOUS
<1> HIDE DEF S, F, m, R
<1>4. /\ Cardinality(S) \in Nat /\ DOMAIN F = 1 .. Cardinality(S) /\ Len(F) = Cardinality(S)
      /\ \A k \in 1 .. Cardinality(S) : Ascending(S)[k] \in S /\ F[k] = R[Ascending(S)[k]]
  BY <1>1, <1>2, <1>3, PickedIs
<1>4a. F \in Seq(ElementsAt(R, S)) /\ (F = <<>> <=> S = {})
  BY <1>1, <1>2, <1>3, PickedIs
<1>4b. F \in Seq(Range(F))
  BY <1>4a, SeqOfRange
<1>4c. ASSUME NEW k \in DOMAIN F
       PROVE  Ascending(S)[k] \in DOMAIN R /\ F[k] = R[Ascending(S)[k]] /\ F[k].project = p
  <2>1. Ascending(S)[k] \in S /\ F[k] = R[Ascending(S)[k]]
    BY <1>4
  <2>2. QED
    BY <2>1, <1>1, <1>2, <1>3a
<1>5. ASSUME NEW k \in DOMAIN F
      PROVE  F[k].file \in Files /\ F[k].new = _reapply(F[k].old, Applied(F[k]))
  BY <1>4c, RaisableIs DEF R
<1>6. ASSUME NEW j \in DOMAIN F, NEW k \in DOMAIN F, F[j].file = F[k].file
      PROVE  j = k
  <2>1. /\ Ascending(S)[j] \in DOMAIN R /\ F[j] = R[Ascending(S)[j]] /\ F[j].project = p
        /\ Ascending(S)[k] \in DOMAIN R /\ F[k] = R[Ascending(S)[k]] /\ F[k].project = p
    BY <1>4c
  <2>2. Ascending(S)[j] = Ascending(S)[k]
    <3>1. /\ R[Ascending(S)[j]].project = R[Ascending(S)[k]].project
          /\ R[Ascending(S)[j]].file = R[Ascending(S)[k]].file
      BY <1>6, <2>1
    <3>2. QED
      BY <2>1, <3>1, RaisableIs DEF R
  <2>3. QED
    BY <1>1, <1>2, <1>4, <2>2, PickedOnce
<1>7. QED
  BY <1>3b, <1>4, <1>4a, <1>4b, <1>5, <1>6 DEF F, R

\* The repositories, each once, none without a file.
LEMMA ProjectsAre ==
    ASSUME NEW fix, FilesOk(fix.files)
    PROVE  /\ by_project(fix) \in Seq(Projects)
           /\ Len(by_project(fix)) \in Nat /\ DOMAIN by_project(fix) = 1 .. Len(by_project(fix))
           /\ \A j, k \in DOMAIN by_project(fix) : by_project(fix)[j] = by_project(fix)[k] => j = k
           /\ \A k \in DOMAIN by_project(fix) : FilesIn(fix, by_project(fix)[k]) # <<>>
<1> DEFINE R == Raisable(fix)
           m == Len(R)
           s == [i \in DOMAIN R |-> R[i].project]
           B == by_project(fix)
<1>1. m \in Nat /\ DOMAIN R = 1 .. m /\ \A k \in DOMAIN R : R[k].project \in Projects
  BY RaisableIs
<1>2. DOMAIN s = 1 .. m
  BY <1>1
<1>3. Range(s) \subseteq Projects
  BY <1>1 DEF Range
<1>3a. ASSUME NEW q \in Range(s) PROVE \E k \in DOMAIN R : R[k].project = q
  BY DEF Range
<1>4. B = Distinct(s)
  BY DEF by_project
<1> HIDE DEF s, B, m
<1>5. /\ Len(B) \in Nat /\ DOMAIN B = 1 .. Len(B)
      /\ B \in Seq(Range(s)) /\ Range(B) = Range(s)
      /\ \A j, k \in DOMAIN B : B[j] = B[k] => j = k
  BY <1>1, <1>2, <1>4, DistinctIs
<1>6. B \in Seq(Projects)
  BY <1>3, <1>5, SeqMonotonic
<1>7. ASSUME NEW k \in DOMAIN B PROVE FilesIn(fix, B[k]) # <<>>
  <2>1. B[k] \in Range(s)
    BY <1>5 DEF Range
  <2> HIDE DEF R
  <2>2. \E i \in DOMAIN R : R[i].project = B[k]
    BY <2>1, <1>3a
  <2>3. QED
    BY <2>2, FilesInAre DEF R
<1>8. QED
  BY <1>5, <1>6, <1>7 DEF B

\* Only the files count.
LEMMA SameFiles ==
    ASSUME NEW d, NEW fix, d.files = fix.files
    PROVE  /\ Raisable(d) = Raisable(fix) /\ by_project(d) = by_project(fix)
           /\ \A p : FilesIn(d, p) = FilesIn(fix, p)
<1>1. Raisable(d) = Raisable(fix)
  BY DEF Raisable
<1>2. QED
  BY <1>1 DEF by_project, FilesIn

(***************************************************************************)
(* What keeps the fix current: the first part of the inductive invariant.  *)
(***************************************************************************)

DocFields == {"fixable", "files", "request", "results", "suggestion", "verdict", "crossed"}

\* A document that may be on the row: crossed, or the suggestion on offer.
Current(n) ==
    /\ n \in 1 .. Len(fixes)
    /\ \/ fixes[n].crossed
       \/ /\ fixes[n].suggestion = offered.fix
          /\ offered.overtaken \/ fixes[n].verdict = row.bot_rca

DocsInv ==
    /\ \E S : fixes \in Seq(S)
    /\ \A n \in 1 .. Len(fixes) : DOMAIN fixes[n] = DocFields

RowInv ==
    /\ row \in Row
    /\ DOMAIN offered = {"fix", "overtaken"}
    /\ verdicts \in Nat
    /\ row.bot_rca <= verdicts
    /\ row.bot_fix # 0 => Current(row.bot_fix)

\* A thread that was not crossed works on the verdict of the row.
ThreadInv(x) ==
    /\ DOMAIN x = DOMAIN NoThread
    /\ (x.pc \in {"explore", "fetch", "save"} /\ ~x.crossed) => x.verdict = row.bot_rca

SugInv == DOMAIN sug = Suggestions /\ \A s \in Suggestions : ThreadInv(sug[s])

\* A request that was not crossed raises the suggestion on offer.
RequestInv(x) ==
    /\ DOMAIN x = DOMAIN NoRequest
    /\ x.pc \notin Over => x.doc \in 1 .. Len(fixes)
    /\ (x.pc \notin Over /\ ~x.crossed) => Current(x.doc)

ReqInv == DOMAIN req = Requests /\ \A r \in Requests : RequestInv(req[r])

FixInv == RowInv /\ DocsInv /\ SugInv /\ ReqInv

(***************************************************************************)
(* What the steps keep.                                                    *)
(***************************************************************************)

\* A document is appended; those before stay where they are.
LEMMA Appended ==
    ASSUME DocsInv, NEW d, DOMAIN d = DocFields, fixes' = Append(fixes, d)
    PROVE  /\ DocsInv'
           /\ Len(fixes) \in Nat
           /\ Len(fixes') = Len(fixes) + 1
           /\ fixes'[Len(fixes) + 1] = d
           /\ \A n \in 1 .. Len(fixes) : fixes'[n] = fixes[n]
<1>1. PICK S : fixes \in Seq(S)
  BY DEF DocsInv
<1>2. fixes \in Seq(S \cup {d})
  BY <1>1, SeqMonotonic, Zenon
<1>3. /\ Append(fixes, d) \in Seq(S \cup {d})
      /\ Len(Append(fixes, d)) = Len(fixes) + 1
      /\ Append(fixes, d)[Len(fixes) + 1] = d
      /\ \A n \in 1 .. Len(fixes) : Append(fixes, d)[n] = fixes[n]
  BY <1>2, AppendProperties
<1>4. Len(fixes) \in Nat
  BY <1>1, LenProperties
<1>5. \A n \in 1 .. Len(fixes') : DOMAIN fixes'[n] = DocFields
  BY <1>3, <1>4 DEF DocsInv
<1>6. QED
  BY <1>3, <1>4, <1>5 DEF DocsInv

\* A document that stays where it is stays current while the offer stays.
LEMMA CurrentKept ==
    ASSUME UNCHANGED offered, row'.bot_rca = row.bot_rca,
           Len(fixes) \in Nat, Len(fixes') \in Nat, Len(fixes) <= Len(fixes'),
           \A n \in 1 .. Len(fixes) : fixes'[n] = fixes[n],
           NEW n, Current(n)
    PROVE  Current(n)'
BY DEF Current

\* The documents are a finite sequence.
LEMMA LengthOfFixes == DocsInv => Len(fixes) \in Nat
BY LenProperties DEF DocsInv

\* The columns the invariant is about stay.
LEMMA RowKept ==
    ASSUME RowInv, row' \in Row, row'.bot_rca = row.bot_rca, row'.bot_fix = row.bot_fix,
           UNCHANGED <<verdicts, fixes, offered>>
    PROVE  RowInv'
BY DEF RowInv, Current

\* Who does not move keeps his part of the invariant.
LEMMA RestKept ==
    ASSUME UNCHANGED <<fixes, offered>>, row'.bot_rca = row.bot_rca
    PROVE  /\ DocsInv => DocsInv'
           /\ SugInv /\ UNCHANGED sug => SugInv'
           /\ ReqInv /\ UNCHANGED req => ReqInv'
BY DEF DocsInv, SugInv, ThreadInv, ReqInv, RequestInv, Current

\* A request keeps the document it raises, or is over.
Keeps(x, y) ==
    /\ DOMAIN y = DOMAIN NoRequest
    /\ y.pc \notin Over => x.pc \notin Over /\ y.doc = x.doc /\ (x.crossed => y.crossed)

\* Requests that keep the document they raise.
LEMMA RequestsKept ==
    ASSUME ReqInv, UNCHANGED <<fixes, offered>>, row'.bot_rca = row.bot_rca,
           DOMAIN req' = Requests,
           \A r \in Requests : Keeps(req[r], req'[r])
    PROVE  ReqInv'
BY DEF ReqInv, RequestInv, Keeps, Current

\* One of them moves.
LEMMA OneRequestKept ==
    ASSUME ReqInv, UNCHANGED <<fixes, offered>>, row'.bot_rca = row.bot_rca,
           NEW r \in Requests, NEW y,
           req' = [req EXCEPT ![r] = y], Keeps(req[r], y)
    PROVE  ReqInv'
<1>1. \A k \in Requests : Keeps(req[k], req'[k])
  BY DEF ReqInv, RequestInv, Keeps
<1>2. QED
  BY <1>1, RequestsKept DEF ReqInv

\* One thread moves.
LEMMA OneThreadKept ==
    ASSUME SugInv, row'.bot_rca = row.bot_rca, NEW s \in Suggestions, NEW x,
           sug' = [sug EXCEPT ![s] = x], ThreadInv(x)
    PROVE  SugInv'
BY DEF SugInv, ThreadInv

\* Nothing has begun.
LEMMA FixInit == Init => FixInv
<1> SUFFICES ASSUME Init PROVE FixInv
  OBVIOUS
<1>1. RowInv
  BY TextsAssumption DEF Init, RowInv, FreshRow, Row, Statuses, DECIDED_STATUSES, JobKinds
<1>2. DocsInv
  <2>1. fixes = <<>> /\ fixes \in Seq({}) /\ Len(fixes) = 0
    BY DEF Init
  <2>2. QED
    BY <2>1 DEF DocsInv
<1>3. SugInv
  BY DEF Init, SugInv, ThreadInv, NoThread
<1>4. ReqInv
  BY DEF Init, ReqInv, RequestInv, NoRequest, Over
<1>5. QED
  BY <1>1, <1>2, <1>3, <1>4 DEF FixInv

(***************************************************************************)
(* Reviewers, investigations and restarts.                                 *)
(***************************************************************************)

\* Every request that is under way is crossed, or nothing of it changes.
LEMMA RequestsCrossed ==
    ASSUME ReqInv, Len(fixes) \in Nat, Len(fixes') \in Nat, Len(fixes) <= Len(fixes'),
           req' = [r \in Requests |->
                      IF req[r].pc \notin Over THEN [req[r] EXCEPT !.crossed = TRUE] ELSE req[r]]
    PROVE  ReqInv'
BY DEF ReqInv, RequestInv, NoRequest

\* Every thread that has read its verdict is crossed.
LEMMA ThreadsCrossed == SugInv /\ CrossAll => SugInv'
BY DEF CrossAll, SugInv, ThreadInv, NoThread

\* A verdict overtakes the suggestion of the one before, and crosses what is
\* under way for it.
LEMMA VerdictStep == FixInv /\ VerdictSaved => FixInv'
<1> SUFFICES ASSUME FixInv, VerdictSaved PROVE FixInv'
  OBVIOUS
<1>1. /\ row' = save_rca(row, verdicts + 1) /\ verdicts' = verdicts + 1
      /\ offered' = [offered EXCEPT !.overtaken = @ \/ row.bot_fix # 0]
      /\ UNCHANGED fixes /\ CrossAll
  BY DEF VerdictSaved
<1>2. row \in Row /\ verdicts \in Nat /\ DOMAIN offered = {"fix", "overtaken"}
  BY DEF FixInv, RowInv
<1>3. row' \in Row
  BY <1>1, <1>2, StoreTypes
<1>4. row'.bot_rca = verdicts + 1 /\ row'.bot_fix = row.bot_fix
  BY <1>1, <1>2 DEF save_rca, Row
<1>5. /\ DOMAIN offered' = {"fix", "overtaken"} /\ offered'.fix = offered.fix
      /\ row.bot_fix # 0 => offered'.overtaken
  BY <1>1, <1>2
<1>6. RowInv'
  BY <1>1, <1>2, <1>3, <1>4, <1>5 DEF FixInv, RowInv, Current
<1>7. SugInv'
  BY <1>1, ThreadsCrossed DEF FixInv
<1>8. ReqInv'
  BY <1>1, LengthOfFixes, RequestsCrossed DEF CrossAll, FixInv
<1>9. QED
  BY <1>1, <1>6, <1>7, <1>8 DEF FixInv, DocsInv

\* A reset clears the row and crosses all that is under way.
LEMMA ResetStep == FixInv /\ reset_rca => FixInv'
<1> SUFFICES ASSUME FixInv, reset_rca PROVE FixInv'
  OBVIOUS
<1>1. row' = reset_row(row) /\ offered' = [fix |-> 0, overtaken |-> FALSE]
      /\ UNCHANGED <<verdicts, fixes>> /\ CrossAll
  BY DEF reset_rca
<1>2. row \in Row /\ verdicts \in Nat
  BY DEF FixInv, RowInv
<1>3. row' \in Row
  BY <1>1, <1>2, StoreTypes
<1>4. row'.bot_rca = 0 /\ row'.bot_fix = 0
  BY <1>1, <1>2 DEF reset_row, Row
<1>5. RowInv'
  BY <1>1, <1>2, <1>3, <1>4 DEF RowInv
<1>6. SugInv'
  BY <1>1, ThreadsCrossed DEF FixInv
<1>7. ReqInv'
  BY <1>1, LengthOfFixes, RequestsCrossed DEF CrossAll, FixInv
<1>8. QED
  BY <1>1, <1>5, <1>6, <1>7 DEF FixInv, DocsInv

\* A rejection clears the suggestion, and crosses the requests that raise it.
LEMMA RejectStep == FixInv /\ reject_fix => FixInv'
<1> SUFFICES ASSUME FixInv, reject_fix PROVE FixInv'
  OBVIOUS
<1>1. row' = clear_fix(row) /\ offered' = [fix |-> 0, overtaken |-> FALSE]
      /\ UNCHANGED <<verdicts, fixes, sug>>
      /\ req' = [r \in Requests |->
                    IF req[r].pc \notin Over THEN [req[r] EXCEPT !.crossed = TRUE] ELSE req[r]]
  BY DEF reject_fix
<1>2. row \in Row
  BY DEF FixInv, RowInv
<1>3. row' \in Row
  BY <1>1, <1>2, StoreTypes
<1>4. row'.bot_rca = row.bot_rca /\ row'.bot_fix = 0
  BY <1>1, <1>2 DEF clear_fix, Row
<1>5. RowInv'
  BY <1>1, <1>3, <1>4 DEF FixInv, RowInv
<1>6. SugInv'
  BY <1>1, <1>4 DEF FixInv, SugInv, ThreadInv
<1>7. ReqInv'
  BY <1>1, LengthOfFixes, RequestsCrossed DEF FixInv
<1>8. QED
  BY <1>1, <1>5, <1>6, <1>7 DEF FixInv, DocsInv

\* A restart ends the threads and the requests.
LEMMA RestartStep == FixInv /\ Restart => FixInv'
<1> SUFFICES ASSUME FixInv, Restart PROVE FixInv'
  OBVIOUS
<1>1. row' = init_db(row) /\ UNCHANGED <<verdicts, fixes, offered>>
  BY DEF Restart
<1>2. row \in Row
  BY DEF FixInv, RowInv
<1>3. row' \in Row
  BY <1>1, <1>2, StoreTypes
<1>4. row'.bot_rca = row.bot_rca /\ row'.bot_fix = row.bot_fix
  BY <1>1, <1>2 DEF init_db, Row
<1>5. RowInv'
  BY <1>1, <1>3, <1>4, RowKept DEF FixInv
<1>6. SugInv'
  BY <1>1 DEF Restart, FixInv, SugInv, ThreadInv, NoThread, Over
<1>7. ReqInv'
  <2>1. DOMAIN req' = Requests /\ \A r \in Requests : Keeps(req[r], req'[r])
    BY DEF Restart, FixInv, ReqInv, RequestInv, Keeps, NoRequest, Over
  <2>2. QED
    BY <1>1, <1>4, <2>1, RequestsKept DEF FixInv
<1>8. QED
  BY <1>1, <1>4, <1>5, <1>6, <1>7, RestKept DEF FixInv

(***************************************************************************)
(* Suggestions.                                                            *)
(***************************************************************************)

\* A step of a thread that writes at most the columns of the job.
LEMMA ThreadStep ==
    ASSUME FixInv, UNCHANGED <<verdicts, fixes, offered, req>>,
           row' \in Row, row'.bot_rca = row.bot_rca, row'.bot_fix = row.bot_fix,
           NEW s \in Suggestions, NEW x, sug' = [sug EXCEPT ![s] = x], ThreadInv(x)
    PROVE  FixInv'
<1>1. RowInv'
  BY RowKept DEF FixInv
<1>2. SugInv'
  BY OneThreadKept DEF FixInv
<1>3. QED
  BY <1>1, <1>2, RestKept DEF FixInv

\* A suggestion stored is the one on offer.
LEMMA SavesFixStep == ASSUME NEW s \in Suggestions, FixInv, SavesFix(s) PROVE FixInv'
<1>0. PICK n : n = Len(fixes) + 1
  OBVIOUS
<1> DEFINE d == [fixable |-> sug[s].fixable, files |-> _build_files(sug[s].edits, sug[s].raw),
                 request |-> 0, results |-> <<>>,
                 suggestion |-> n, verdict |-> sug[s].verdict, crossed |-> sug[s].crossed]
<1>1. /\ sug[s].pc = "save"
      /\ fixes' = Append(fixes, d)
      /\ row' = save_fix(row, n)
      /\ offered' = [fix |-> n, overtaken |-> FALSE]
      /\ sug' = [sug EXCEPT ![s] = [NoThread EXCEPT !.pc = "finish"]]
      /\ req' = [r \in Requests |->
                    IF req[r].pc \notin Over THEN [req[r] EXCEPT !.crossed = TRUE] ELSE req[r]]
      /\ UNCHANGED verdicts
  BY <1>0 DEF SavesFix
<1>2. DOMAIN d = DocFields /\ d.suggestion = n /\ d.verdict = sug[s].verdict /\ d.crossed = sug[s].crossed
  BY DEF DocFields
<1>3. ~sug[s].crossed => sug[s].verdict = row.bot_rca
  BY <1>1 DEF FixInv, SugInv, ThreadInv
<1> HIDE DEF d
<1>4. /\ DocsInv' /\ Len(fixes) \in Nat /\ Len(fixes') = Len(fixes) + 1 /\ fixes'[n] = d
  BY <1>0, <1>1, <1>2, Appended DEF FixInv
<1>5. row' \in Row /\ row'.bot_rca = row.bot_rca /\ row'.bot_fix = n
  <2>1. row \in Row /\ n \in Nat
    BY <1>0, <1>4 DEF FixInv, RowInv
  <2>2. row' \in Row
    BY <1>1, <2>1, StoreTypes
  <2>3. QED
    BY <1>1, <2>1, <2>2 DEF save_fix, Row
<1>6. Current(n)'
  BY <1>0, <1>1, <1>2, <1>3, <1>4, <1>5 DEF Current
<1>7. RowInv'
  BY <1>0, <1>1, <1>4, <1>5, <1>6 DEF FixInv, RowInv
<1>8. SugInv'
  BY <1>1, <1>5 DEF FixInv, SugInv, ThreadInv, NoThread
<1>9. ReqInv'
  BY <1>1, <1>4, RequestsCrossed DEF FixInv
<1>10. QED
  BY <1>4, <1>7, <1>8, <1>9 DEF FixInv

\* Every step of a thread.
LEMMA SuggestingStep == ASSUME NEW s \in Suggestions, FixInv, Suggesting(s) PROVE FixInv'
<1>a. row \in Row /\ DOMAIN sug[s] = DOMAIN NoThread /\ ThreadInv(sug[s])
  BY DEF FixInv, RowInv, SugInv, ThreadInv
<1>1. CASE suggest_fix_endpoint(s)
  <2>1. sug' = [sug EXCEPT ![s] = [sug[s] EXCEPT !.pc = "start_job"]]
    BY <1>1 DEF suggest_fix_endpoint
  <2>2. ThreadInv([sug[s] EXCEPT !.pc = "start_job"])
    BY <1>a DEF ThreadInv, NoThread
  <2>3. QED
    BY <1>1, <1>a, <2>1, <2>2, ThreadStep DEF suggest_fix_endpoint
<1>2. CASE StartsJob(s)
  <2>1. PICK pc \in {"read", "done"} : sug' = [sug EXCEPT ![s] = [sug[s] EXCEPT !.pc = pc]]
    BY <1>2 DEF StartsJob
  <2>2. ThreadInv([sug[s] EXCEPT !.pc = pc])
    BY <1>a DEF ThreadInv, NoThread
  <2>3. row' = start_job(row, "fix") \/ row' = row
    BY <1>2 DEF StartsJob
  <2>4. row' \in Row /\ row'.bot_rca = row.bot_rca /\ row'.bot_fix = row.bot_fix
    <3>1. row' \in Row
      BY <1>a, <2>3, StoreTypes DEF JobKinds
    <3>2. QED
      BY <1>a, <2>3, <3>1 DEF start_job, Row
  <2>5. UNCHANGED <<verdicts, fixes, offered, req>>
    BY <1>2 DEF StartsJob
  <2>6. QED
    BY <2>1, <2>2, <2>4, <2>5, ThreadStep
<1>3. CASE ReadsVerdict(s)
  <2> DEFINE pc == IF row.bot_rca = 0 THEN "fail"
                   ELSE IF _candidate_projects(Evidence[row.bot_rca]) = <<>> THEN "save" ELSE "explore"
             x == [sug[s] EXCEPT !.verdict = row.bot_rca, !.pc = pc]
  <2>1. sug' = [sug EXCEPT ![s] = x] /\ UNCHANGED <<row, verdicts, fixes, offered, req>>
    BY <1>3 DEF ReadsVerdict
  <2>2. ThreadInv(x)
    BY <1>a DEF ThreadInv, NoThread
  <2>3. QED
    BY <1>a, <2>1, <2>2, ThreadStep
<1>4. CASE Explores(s)
  <2>0. sug[s].pc = "explore" /\ UNCHANGED <<row, verdicts, fixes, offered, req>>
    BY <1>4 DEF Explores
  <2>1. CASE sug' = [sug EXCEPT ![s] = [sug[s] EXCEPT !.pc = "save"]]
    <3>1. ThreadInv([sug[s] EXCEPT !.pc = "save"])
      BY <1>a, <2>0 DEF ThreadInv, NoThread
    <3>2. QED
      BY <1>a, <2>0, <2>1, <3>1, ThreadStep
  <2>2. CASE \E edits, keys, pc :
                /\ pc \in {"save", "fetch"}
                /\ sug' = [sug EXCEPT ![s] = [sug[s] EXCEPT !.pc = pc, !.fixable = TRUE,
                                                            !.edits = edits, !.keys = keys]]
    <3>1. PICK edits, keys, pc :
                /\ pc \in {"save", "fetch"}
                /\ sug' = [sug EXCEPT ![s] = [sug[s] EXCEPT !.pc = pc, !.fixable = TRUE,
                                                            !.edits = edits, !.keys = keys]]
      BY <2>2, Zenon
    <3>2. ThreadInv([sug[s] EXCEPT !.pc = pc, !.fixable = TRUE, !.edits = edits, !.keys = keys])
      BY <1>a, <2>0 DEF ThreadInv, NoThread
    <3>3. QED
      BY <1>a, <2>0, <3>1, <3>2, ThreadStep
  <2>3. PICK p \in Proposals :
            LET edits == WithProjects(p.edits, _candidate_projects(Evidence[sug[s].verdict]))
                keys == FetchedKeys(edits, MaxEditFiles)
            IN  sug' = IF ~ p.fixable \/ edits = <<>> THEN [sug EXCEPT ![s].pc = "save"]
                       ELSE [sug EXCEPT ![s].pc = IF keys = <<>> THEN "save" ELSE "fetch",
                                        ![s].fixable = TRUE, ![s].edits = edits, ![s].keys = keys]
    BY <1>4 DEF Explores
  <2> DEFINE edits == WithProjects(p.edits, _candidate_projects(Evidence[sug[s].verdict]))
             keys == FetchedKeys(edits, MaxEditFiles)
             pc == IF keys = <<>> THEN "save" ELSE "fetch"
  <2>4. \/ sug' = [sug EXCEPT ![s] = [sug[s] EXCEPT !.pc = "save"]]
        \/ sug' = [sug EXCEPT ![s].pc = pc, ![s].fixable = TRUE, ![s].edits = edits, ![s].keys = keys]
    BY <2>3
  <2>5. pc \in {"save", "fetch"}
    OBVIOUS
  <2> HIDE DEF edits, keys, pc
  <2>6. \/ sug' = [sug EXCEPT ![s] = [sug[s] EXCEPT !.pc = "save"]]
        \/ sug' = [sug EXCEPT ![s] = [sug[s] EXCEPT !.pc = pc, !.fixable = TRUE,
                                                    !.edits = edits, !.keys = keys]]
    BY <2>4 DEF FixInv, SugInv
  <2>7. QED
    BY <2>1, <2>2, <2>5, <2>6, Zenon
<1>5. CASE ExploringFails(s)
  <2>1. sug' = [sug EXCEPT ![s] = [sug[s] EXCEPT !.pc = "fail"]]
    BY <1>5 DEF ExploringFails
  <2>2. ThreadInv([sug[s] EXCEPT !.pc = "fail"])
    BY <1>a DEF ThreadInv, NoThread
  <2>3. QED
    BY <1>5, <1>a, <2>1, <2>2, ThreadStep DEF ExploringFails
<1>6. CASE Fetches(s)
  <2>0. sug[s].pc = "fetch" /\ UNCHANGED <<row, verdicts, fixes, offered, req>>
    BY <1>6 DEF Fetches
  <2> DEFINE key == Head(sug[s].keys)
             keys == Tail(sug[s].keys)
             pc == IF keys = <<>> THEN "save" ELSE "fetch"
             next == [sug[s] EXCEPT !.keys = keys, !.pc = pc]
             raw == Put(next.raw, key, gitlab.tree[key[1]][DefaultRef[key[1]]][key[2]])
  <2>1. \/ sug' = [sug EXCEPT ![s] = [next EXCEPT !.raw = raw]]
        \/ sug' = [sug EXCEPT ![s] = next]
    BY <1>6 DEF Fetches
  <2> HIDE DEF raw
  <2>2. /\ ThreadInv([[sug[s] EXCEPT !.keys = keys, !.pc = pc] EXCEPT !.raw = raw])
        /\ ThreadInv([sug[s] EXCEPT !.keys = keys, !.pc = pc])
    BY <1>a, <2>0 DEF ThreadInv, NoThread
  <2>3. QED
    BY <1>a, <2>0, <2>1, <2>2, ThreadStep
<1>7. CASE SavesFix(s)
  BY <1>7, SavesFixStep
<1>8. CASE JobEnds(s)
  <2>1. sug' = [sug EXCEPT ![s] = [NoThread EXCEPT !.pc = "done"]]
        /\ UNCHANGED <<verdicts, fixes, offered, req>>
    BY <1>8 DEF JobEnds
  <2>2. ThreadInv([NoThread EXCEPT !.pc = "done"])
    BY DEF ThreadInv, NoThread
  <2>3. row' = finish_job(row) \/ row' = fail_job(row)
    BY <1>8 DEF JobEnds
  <2>4. row' \in Row /\ row'.bot_rca = row.bot_rca /\ row'.bot_fix = row.bot_fix
    <3>1. row' \in Row
      BY <1>a, <2>3, StoreTypes
    <3>2. QED
      BY <1>a, <2>3, <3>1 DEF finish_job, fail_job, Row
  <2>5. QED
    BY <2>1, <2>2, <2>4, ThreadStep
<1>9. QED
  BY <1>1, <1>2, <1>3, <1>4, <1>5, <1>6, <1>7, <1>8 DEF Suggesting

(***************************************************************************)
(* Requests.                                                               *)
(***************************************************************************)

\* On to a repository, with the same document.
LEMMA InProjectKeeps ==
    ASSUME NEW x, DOMAIN x = DOMAIN NoRequest, NEW todo, NEW fix
    PROVE  /\ DOMAIN InProject(x, todo, fix) = DOMAIN NoRequest
           /\ InProject(x, todo, fix).doc = x.doc
           /\ InProject(x, todo, fix).crossed = x.crossed
           /\ InProject(x, todo, fix).pc \in {"save", "file"}
BY DEF InProject, NoRequest

\* A result more, with the same document.
LEMMA WithKeeps ==
    ASSUME NEW x, DOMAIN x = DOMAIN NoRequest, x.pc \notin Over, NEW mr
    PROVE  Keeps(x, With(x, mr))
<1> DEFINE y == [x EXCEPT !.results = Append(@, [project |-> Head(x.todo), mr |-> mr])]
<1>1. DOMAIN y = DOMAIN NoRequest /\ y.doc = x.doc /\ y.crossed = x.crossed
  BY DEF NoRequest
<1>2. With(x, mr) = InProject(y, Tail(x.todo), fixes[x.doc])
  BY DEF With
<1> HIDE DEF y
<1>3. QED
  BY <1>1, <1>2, InProjectKeeps DEF Keeps

\* A request that is over raises nothing.
LEMMA EndedKeeps == \A x : Keeps(x, Ended)
BY DEF Keeps, Ended, NoRequest, Over

\* A step of one request that leaves the row and the documents alone.
LEMMA RequestStep ==
    ASSUME FixInv, UNCHANGED <<row, verdicts, fixes, sug, offered>>,
           NEW r \in Requests, NEW y, req' = [req EXCEPT ![r] = y], Keeps(req[r], y)
    PROVE  FixInv'
<1>1. ReqInv'
  BY OneRequestKept DEF FixInv
<1>2. RowInv'
  BY RowKept DEF FixInv, RowInv
<1>3. QED
  BY <1>1, <1>2, RestKept DEF FixInv

\* Of a request whose branch changes only the history does.
LEMMA UnsettledKeeps ==
    ASSUME ReqInv, NEW p, NEW b
    PROVE  /\ DOMAIN Unsettled(p, b) = Requests
           /\ \A k \in Requests : Keeps(req[k], Unsettled(p, b)[k])
<1>1. ASSUME NEW k \in Requests PROVE Keeps(req[k], Unsettled(p, b)[k])
  <2>1. Unsettled(p, b)[k] \in {req[k], [req[k] EXCEPT !.steady = FALSE]}
    BY DEF Unsettled
  <2>2. QED
    BY <2>1 DEF ReqInv, RequestInv, Keeps, NoRequest
<1>2. QED
  BY <1>1 DEF Unsettled

\* The requests have an answer, or see a branch changed.
LEMMA RequestsStep ==
    ASSUME FixInv, UNCHANGED <<row, verdicts, fixes, sug, offered>>, DOMAIN req' = Requests,
           \A k \in Requests : Keeps(req[k], req'[k])
    PROVE  FixInv'
<1>1. ReqInv' /\ RowInv'
  BY RequestsKept, RowKept DEF FixInv, RowInv
<1>2. QED
  BY <1>1, RestKept DEF FixInv

\* An answer to one request, after a step that unsettles others.
LEMMA AnswerStep ==
    ASSUME FixInv, UNCHANGED <<row, verdicts, fixes, sug, offered>>, NEW p, NEW b,
           NEW r \in Requests, NEW y, Keeps(req[r], y), req' = [Unsettled(p, b) EXCEPT ![r] = y]
    PROVE  FixInv'
<1>1. /\ DOMAIN Unsettled(p, b) = Requests
      /\ \A k \in Requests : Keeps(req[k], Unsettled(p, b)[k])
  BY UnsettledKeeps DEF FixInv
<1>2. DOMAIN req' = Requests /\ \A k \in Requests : Keeps(req[k], req'[k])
  BY <1>1
<1>3. QED
  BY <1>2, RequestsStep

\* A request reads the suggestion of the row.
LEMMA RaiseStep == ASSUME NEW r \in Requests, FixInv, raise_mr(r) PROVE FixInv'
<1>1. PICK targets \in Bodies :
        req' = [req EXCEPT ![r] = InProject([NoRequest EXCEPT !.doc = row.bot_fix, !.targets = targets],
                                            by_project(fixes[row.bot_fix]), fixes[row.bot_fix])]
  BY DEF raise_mr
<1> DEFINE x == [NoRequest EXCEPT !.doc = row.bot_fix, !.targets = targets]
           y == InProject(x, by_project(fixes[row.bot_fix]), fixes[row.bot_fix])
<1>2. DOMAIN x = DOMAIN NoRequest /\ x.doc = row.bot_fix
  BY DEF NoRequest
<1> HIDE DEF x
<1>3. DOMAIN y = DOMAIN NoRequest /\ y.doc = row.bot_fix
  BY <1>2, InProjectKeeps
<1>4. Current(row.bot_fix)
  BY DEF raise_mr, FixInv, RowInv
<1>5. RequestInv(y)
  BY <1>3, <1>4 DEF RequestInv, Current
<1>6. req' = [req EXCEPT ![r] = y] /\ UNCHANGED <<row, verdicts, fixes, sug, offered>>
  BY <1>1 DEF raise_mr, x
<1> HIDE DEF y
<1>7. ReqInv'
  BY <1>5, <1>6 DEF FixInv, ReqInv, RequestInv, Current
<1>8. RowInv'
  BY <1>6, RowKept DEF FixInv, RowInv
<1>9. QED
  BY <1>6, <1>7, <1>8, RestKept DEF FixInv

\* The document of a request is stored again, with the results.
LEMMA SavesMrStep == ASSUME NEW r \in Requests, FixInv, SavesMr(r) PROVE FixInv'
<1>0. PICK n : n = Len(fixes) + 1
  OBVIOUS
<1> DEFINE x == req[r]
           d == [fixes[x.doc] EXCEPT !.request = r, !.results = x.results, !.crossed = @ \/ x.crossed]
<1>1. /\ x.pc = "save"
      /\ fixes' = Append(fixes, d)
      /\ row' = save_fix(row, n)
      /\ req' = [req EXCEPT ![r] = Ended]
      /\ UNCHANGED <<verdicts, sug, offered>>
  BY <1>0 DEF SavesMr
<1>2. x.doc \in 1 .. Len(fixes) /\ (~x.crossed => Current(x.doc))
  BY <1>1 DEF FixInv, ReqInv, RequestInv, Over
<1>3. DOMAIN fixes[x.doc] = DocFields
  BY <1>2 DEF FixInv, DocsInv
<1>4. /\ DOMAIN d = DocFields
      /\ d.suggestion = fixes[x.doc].suggestion
      /\ d.verdict = fixes[x.doc].verdict
      /\ d.crossed = (fixes[x.doc].crossed \/ x.crossed)
  BY <1>3 DEF DocFields
<1>5. \/ d.crossed
      \/ d.suggestion = offered.fix /\ (offered.overtaken \/ d.verdict = row.bot_rca)
  BY <1>2, <1>4 DEF Current
<1> HIDE DEF d
<1>6. /\ DocsInv' /\ Len(fixes) \in Nat /\ Len(fixes') = Len(fixes) + 1 /\ fixes'[n] = d
      /\ \A k \in 1 .. Len(fixes) : fixes'[k] = fixes[k]
  BY <1>0, <1>1, <1>4, Appended DEF FixInv
<1>7. row' \in Row /\ row'.bot_rca = row.bot_rca /\ row'.bot_fix = n
  <2>1. row \in Row /\ n \in Nat
    BY <1>0, <1>6 DEF FixInv, RowInv
  <2>2. row' \in Row
    BY <1>1, <2>1, StoreTypes
  <2>3. QED
    BY <1>1, <2>1, <2>2 DEF save_fix, Row
<1>8. Current(n)'
  BY <1>0, <1>1, <1>5, <1>6, <1>7 DEF Current
<1>9. RowInv'
  BY <1>1, <1>7, <1>8 DEF FixInv, RowInv
<1>10. SugInv'
  BY <1>1, <1>7 DEF FixInv, SugInv, ThreadInv
<1>11. ReqInv'
  <2>1. \A k \in Requests \ {r} : RequestInv(req[k])'
    <3>1. ASSUME NEW k \in Requests \ {r} PROVE RequestInv(req[k])'
      <4>1. req'[k] = req[k] /\ RequestInv(req[k])
        BY <1>1 DEF FixInv, ReqInv
      <4>2. Current(req[k].doc) => Current(req[k].doc)'
        BY <1>1, <1>6, <1>7, <4>1, CurrentKept DEF Current
      <4>3. QED
        BY <4>1, <4>2, <1>6 DEF RequestInv
    <3>2. QED
      BY <3>1
  <2>2. RequestInv(req[r])' /\ DOMAIN req' = Requests
    BY <1>1, EndedKeeps DEF FixInv, ReqInv, RequestInv, Keeps, Ended, NoRequest, Over
  <2>3. QED
    BY <2>1, <2>2 DEF ReqInv
<1>12. QED
  BY <1>6, <1>9, <1>10, <1>11 DEF FixInv

\* A file is read, the document stays.
LEMMA ReadsFileStep == ASSUME NEW r \in Requests, FixInv, ReadsFile(r) PROVE FixInv'
<1> DEFINE x == req[r]
           Goes(y) == IF Len(x.files) > 1 THEN [y EXCEPT !.files = Tail(x.files)]
                      ELSE IF y.actions = <<>> THEN With(y, 0)
                      ELSE [y EXCEPT !.files = <<>>, !.pc = "branch"]
           skipped == [x EXCEPT !.skipped = @ \cup {Head(x.files).file}]
           new == _reapply(CurrentText(x), Applied(Head(x.files)))
           edited == [x EXCEPT !.actions = Put(@, Head(x.files).file, new)]
<1>1. x.pc = "file" /\ DOMAIN x = DOMAIN NoRequest /\ UNCHANGED <<row, verdicts, fixes, sug, offered>>
  BY DEF ReadsFile, FixInv, ReqInv, RequestInv
<1>2. \/ req' = [req EXCEPT ![r] = Goes(skipped)]
      \/ req' = [req EXCEPT ![r] = Goes(edited)]
  BY DEF ReadsFile
<1>3. ASSUME NEW y, DOMAIN y = DOMAIN NoRequest, y.pc = "file", y.doc = x.doc, y.crossed = x.crossed
      PROVE  Keeps(x, Goes(y))
  <2>1. Keeps(x, With(y, 0))
    BY <1>1, <1>3, WithKeeps DEF Keeps, Over
  <2>2. Keeps(x, [y EXCEPT !.files = Tail(x.files)])
    BY <1>1, <1>3 DEF Keeps, NoRequest, Over
  <2>3. Keeps(x, [y EXCEPT !.files = <<>>, !.pc = "branch"])
    BY <1>1, <1>3 DEF Keeps, NoRequest, Over
  <2>4. QED
    BY <2>1, <2>2, <2>3
<1>4. Keeps(x, Goes(skipped))
  <2>1. /\ DOMAIN skipped = DOMAIN NoRequest
        /\ skipped.pc = "file" /\ skipped.doc = x.doc /\ skipped.crossed = x.crossed
    BY <1>1 DEF NoRequest
  <2> HIDE DEF skipped, Goes
  <2>2. QED
    BY <2>1, <1>3
<1>5. Keeps(x, Goes(edited))
  <2>1. /\ DOMAIN edited = DOMAIN NoRequest
        /\ edited.pc = "file" /\ edited.doc = x.doc /\ edited.crossed = x.crossed
    BY <1>1 DEF NoRequest
  <2> HIDE DEF edited, Goes
  <2>2. QED
    BY <2>1, <1>3
<1> HIDE DEF Goes, skipped, edited, new
<1>6. QED
  BY <1>1, <1>2, <1>4, <1>5, RequestStep

\* Every step of a request.
LEMMA RaisingStep == ASSUME NEW r \in Requests, FixInv, Raising(r) PROVE FixInv'
<1> DEFINE x == req[r]
<1>a. DOMAIN x = DOMAIN NoRequest
  BY DEF FixInv, ReqInv, RequestInv
<1>1. CASE raise_mr(r)
  BY <1>1, RaiseStep
<1>2. CASE ReadsFile(r)
  BY <1>2, ReadsFileStep
<1>3. CASE CutsBranch(r)
  <2>1. x.pc = "branch" /\ UNCHANGED <<row, verdicts, fixes, sug, offered>>
    BY <1>3 DEF CutsBranch
  <2>2. PICK p, base, y :
            /\ y \in {[x EXCEPT !.pc = "commit", !.steady = FALSE],
                      [x EXCEPT !.pc = "commit", !.base = base], Ended}
            /\ \/ req' = [req EXCEPT ![r] = y]
               \/ req' = [Unsettled(p, FixBranch) EXCEPT ![r] = y]
    BY <1>3 DEF CutsBranch, Answers
  <2>3. Keeps(x, y)
    BY <1>a, <2>1, <2>2, EndedKeeps DEF Keeps, NoRequest, Over
  <2>4. QED
    BY <2>1, <2>2, <2>3, RequestStep, AnswerStep
<1>4. CASE Commits(r)
  <2>1. x.pc = "commit" /\ UNCHANGED <<row, verdicts, fixes, sug, offered>>
    BY <1>4 DEF Commits
  <2>2. PICK y \in {[x EXCEPT !.pc = "open"], Ended} :
            req' = [Unsettled(Head(x.todo), FixBranch) EXCEPT ![r] = y]
    BY <1>4 DEF Commits, Answers
  <2>3. Keeps(x, y)
    BY <1>a, <2>1, <2>2, EndedKeeps DEF Keeps, NoRequest, Over
  <2>4. QED
    BY <2>1, <2>2, <2>3, AnswerStep
<1>5. CASE OpensMr(r)
  <2>1. PICK n : req' = [req EXCEPT ![r] = With(x, n)] \/ req' = [req EXCEPT ![r] = Ended]
    BY <1>5 DEF OpensMr, Answers
  <2>2. x.pc = "open" /\ UNCHANGED <<row, verdicts, fixes, sug, offered>>
    BY <1>5 DEF OpensMr
  <2>3. Keeps(x, With(x, n))
    BY <1>a, <2>2, WithKeeps DEF Over
  <2>4. QED
    BY <2>1, <2>2, <2>3, EndedKeeps, RequestStep
<1>6. CASE Refused(r)
  <2>1. x.pc \in {"branch", "commit", "open"} /\ req' = [req EXCEPT ![r] = With(x, 0)]
        /\ UNCHANGED <<row, verdicts, fixes, sug, offered>>
    BY <1>6 DEF Refused
  <2>2. Keeps(x, With(x, 0))
    BY <1>a, <2>1, WithKeeps DEF Over
  <2>3. QED
    BY <2>1, <2>2, RequestStep
<1>7. CASE Breaks(r)
  BY <1>7, EndedKeeps, RequestStep DEF Breaks
<1>8. CASE SavesMr(r)
  BY <1>8, SavesMrStep
<1>9. QED
  BY <1>1, <1>2, <1>3, <1>4, <1>5, <1>6, <1>7, <1>8 DEF Raising

(***************************************************************************)
(* Developers.                                                             *)
(***************************************************************************)

\* Developers change GitLab, and of the requests only their history.
LEMMA DevelopersStep ==
    ASSUME FixInv, UNCHANGED <<row, verdicts, fixes, sug, offered>>, NEW p, NEW b,
           req' = req \/ req' = Unsettled(p, b)
    PROVE  FixInv'
<1>1. CASE req' = req
  <2>1. DOMAIN req' = Requests /\ \A k \in Requests : Keeps(req[k], req'[k])
    BY <1>1 DEF FixInv, ReqInv, RequestInv, Keeps
  <2>2. QED
    BY <2>1, RequestsStep
<1>2. CASE req' = Unsettled(p, b)
  <2>1. DOMAIN req' = Requests /\ \A k \in Requests : Keeps(req[k], req'[k])
    BY <1>2, UnsettledKeeps DEF FixInv
  <2>2. QED
    BY <2>1, RequestsStep
<1>3. QED
  BY <1>1, <1>2

\* FixInv is inductive.
LEMMA FixStep == FixInv /\ [Next]_vars => FixInv'
<1> SUFFICES ASSUME FixInv, [Next]_vars PROVE FixInv'
  OBVIOUS
<1>1. ASSUME NEW p \in Projects, NEW b \in Targets \cup {FixBranch}, NEW f \in Files,
             NEW text \in Contents[f], Pushes(p, b, f, text)
      PROVE  FixInv'
  BY <1>1, DevelopersStep DEF Pushes
<1>2. ASSUME NEW i \in DOMAIN gitlab.mrs, Closes(i) PROVE FixInv'
  BY <1>2, DevelopersStep DEF Closes
<1>3. CASE UNCHANGED vars
  BY <1>3, RestKept, RowKept DEF vars, FixInv, RowInv
<1>4. QED
  BY <1>1, <1>2, <1>3, VerdictStep, ResetStep, RejectStep, RestartStep, SuggestingStep, RaisingStep
  DEF Next

(***************************************************************************)
(* The work of a request in one repository: F are the files to edit there. *)
(***************************************************************************)

Working == {"file", "branch", "commit", "open"}

\* What is left of the files are the last ones.
Left(x, F) ==
    /\ x.files \in Seq(Range(F))
    /\ Len(x.files) <= Len(F)
    /\ \A j \in 1 .. Len(x.files) : x.files[j] = F[Len(F) - Len(x.files) + j]
    /\ x.pc = "file" <=> x.files # <<>>

Seen(x, F) == {F[i].file : i \in 1 .. Len(F) - Len(x.files)}

\* Each of the others is edited or skipped.
Handled(x, F) ==
    /\ DOMAIN x.actions \cap x.skipped = {}
    /\ DOMAIN x.actions \cup x.skipped = Seen(x, F)
    /\ x.pc # "file" => x.actions # <<>>

\* Edited are the texts of base.
Edited(x, F, base) ==
    \A i \in 1 .. Len(F) :
        F[i].file \in DOMAIN x.actions =>
            x.actions[F[i].file] = _reapply(base[F[i].file], Applied(F[i]))

\* While nobody interferes: the texts are the target's, later those of the
\* branch, which holds nothing else.
Undisturbed(x, F, tree) ==
    /\ x.pc \in {"file", "branch"} => Edited(x, F, tree[Head(x.todo)][target(x)])
    /\ x.pc \in {"commit", "open"} => Edited(x, F, x.base)
    /\ x.pc = "commit" => tree[Head(x.todo)][FixBranch] = x.base
    /\ x.pc = "open" => tree[Head(x.todo)][FixBranch] = Updated(x.base, x.actions)

WorkIn(x, fix, tree) ==
    /\ Left(x, FilesIn(fix, Head(x.todo)))
    /\ Handled(x, FilesIn(fix, Head(x.todo)))
    /\ x.steady => Undisturbed(x, FilesIn(fix, Head(x.todo)), tree)

\* The results and what is to do are the repositories of the fix, in order.
Progress(x, all) ==
    /\ x.targets \in Bodies
    /\ x.todo \in Seq(Projects)
    /\ x.results \in Seq(Range(x.results))
    /\ Len(x.results) + Len(x.todo) = Len(all)
    /\ \A i \in 1 .. Len(x.results) : x.results[i].project = all[i]
    /\ \A j \in 1 .. Len(x.todo) : x.todo[j] = all[Len(x.results) + j]
    /\ x.pc = "save" <=> x.todo = <<>>

\* The same request, crossed perhaps, or no longer steady.
SameWork(x, y) ==
    /\ y.pc = x.pc /\ y.doc = x.doc /\ y.targets = x.targets /\ y.todo = x.todo
    /\ y.files = x.files /\ y.actions = x.actions /\ y.skipped = x.skipped
    /\ y.results = x.results /\ y.base = x.base
    /\ y.steady => x.steady

\* History does not count for how far a request is.
LEMMA ProgressSame ==
    ASSUME NEW x, NEW y, NEW all, Progress(x, all), SameWork(x, y)
    PROVE  Progress(y, all)
BY DEF Progress, SameWork

\* Nothing it looks at while it is steady has changed.
LEMMA WorkSame ==
    ASSUME NEW x, NEW y, NEW fix, NEW d, NEW tree, NEW tree2,
           d.files = fix.files, SameWork(x, y), WorkIn(x, fix, tree),
           y.steady =>
              /\ x.pc \in {"file", "branch"} =>
                    tree2[Head(x.todo)][target(x)] = tree[Head(x.todo)][target(x)]
              /\ x.pc \in {"commit", "open"} =>
                    tree2[Head(x.todo)][FixBranch] = tree[Head(x.todo)][FixBranch]
    PROVE  WorkIn(y, d, tree2)
<1> DEFINE F == FilesIn(fix, Head(x.todo))
<1>1. FilesIn(d, Head(y.todo)) = F
  BY SameFiles DEF SameWork
<1>2. target(y) = target(x)
  BY DEF target, SameWork
<1>3. Left(y, F) /\ Handled(y, F)
  BY DEF WorkIn, Left, Handled, Seen, SameWork
<1>4. ASSUME y.steady PROVE Undisturbed(y, F, tree2)
  <2>1. Undisturbed(x, F, tree)
    BY <1>4 DEF WorkIn, SameWork
  <2>2. \A base : Edited(x, F, base) => Edited(y, F, base)
    BY DEF Edited, SameWork
  <2> HIDE DEF F
  <2>3. QED
    BY <1>2, <1>4, <2>1, <2>2 DEF Undisturbed, SameWork
<1> HIDE DEF F
<1>5. QED
  BY <1>1, <1>3, <1>4 DEF WorkIn, SameWork

\* A repository is entered with its files, none of them handled.
LEMMA WorkBegins ==
    ASSUME NEW fix, FilesOk(fix.files), NEW x, NEW tree,
           x.todo # <<>>, FilesIn(fix, Head(x.todo)) # <<>>,
           x.pc = "file", x.files = FilesIn(fix, Head(x.todo)),
           x.actions = <<>>, x.skipped = {}, x.steady = TRUE
    PROVE  WorkIn(x, fix, tree)
<1> DEFINE F == FilesIn(fix, Head(x.todo))
<1>1. F \in Seq(Range(F)) /\ Len(F) \in Nat /\ DOMAIN F = 1 .. Len(F)
  BY FilesInAre
<1> HIDE DEF F
<1>2. Len(F) - Len(x.files) = 0
  BY <1>1 DEF F
<1>3. Left(x, F)
  BY <1>1, <1>2 DEF Left, F
<1>4. Seen(x, F) = {}
  BY <1>2 DEF Seen
<1>5. Handled(x, F)
  BY <1>4 DEF Handled
<1>6. Undisturbed(x, F, tree)
  BY DEF Undisturbed, Edited
<1>7. QED
  BY <1>3, <1>5, <1>6 DEF WorkIn, F

\* Arithmetic: the j-th of the last k - 1 of m is the next of the last k.
LEMMA LaterPlace ==
    ASSUME NEW m \in Int, NEW k \in Int, NEW j \in Int, 1 <= j, j <= k - 1
    PROVE  j + 1 \in 1 .. k /\ m - k + (j + 1) = m - (k - 1) + j
OBVIOUS

\* One file more is handled: skipped, or edited from what the target holds.
LEMMA FileHandled ==
    ASSUME NEW fix, FilesOk(fix.files), NEW x, NEW tree, WorkIn(x, fix, tree), x.pc = "file",
           NEW y, y.todo = x.todo, y.targets = x.targets, y.steady => x.steady,
           y.files = Tail(x.files), y.pc = IF Len(x.files) > 1 THEN "file" ELSE "branch",
           y.pc # "file" => y.actions # <<>>,
           \/ y.actions = x.actions /\ y.skipped = x.skipped \cup {Head(x.files).file}
           \/ /\ y.actions = Put(x.actions, Head(x.files).file,
                                 _reapply(tree[Head(x.todo)][target(x)][Head(x.files).file],
                                          Applied(Head(x.files))))
              /\ y.skipped = x.skipped
    PROVE  WorkIn(y, fix, tree)
<1> DEFINE F == FilesIn(fix, Head(x.todo))
           f == Head(x.files)
           m == Len(F)
           k == Len(x.files)
           base == tree[Head(x.todo)][target(x)]
<1>1. /\ F \in Seq(Range(F)) /\ m \in Nat /\ DOMAIN F = 1 .. m
      /\ \A i, j \in DOMAIN F : F[i].file = F[j].file => i = j
  BY FilesInAre
<1>2. /\ Left(x, F) /\ Handled(x, F)
      /\ x.steady => Undisturbed(x, F, tree)
  BY DEF WorkIn
<1>3. target(y) = target(x)
  BY DEF target
<1> HIDE DEF F
<1>4. /\ x.files \in Seq(Range(F)) /\ k \in Nat /\ k >= 1 /\ k <= m
      /\ \A j \in 1 .. k : x.files[j] = F[m - k + j]
      /\ x.files # <<>>
  <2>1. x.files \in Seq(Range(F)) /\ x.files # <<>> /\ k <= m /\ \A j \in 1 .. k : x.files[j] = F[m - k + j]
    BY <1>2 DEF Left
  <2>2. k \in Nat /\ k # 0
    BY <2>1, EmptySeq, LenProperties
  <2> HIDE DEF k, m
  <2>3. k >= 1
    BY <2>2
  <2>4. QED
    BY <2>1, <2>2, <2>3
<1>5. /\ Tail(x.files) \in Seq(Range(F)) /\ Len(Tail(x.files)) = k - 1
      /\ \A j \in 1 .. k - 1 : Tail(x.files)[j] = x.files[j + 1]
  BY <1>4, HeadTailProperties
<1>6. f = F[m - k + 1] /\ m - k + 1 \in 1 .. m
  <2>1. f = x.files[1]
    BY <1>4
  <2> HIDE DEF f, k, m
  <2>2. 1 \in 1 .. k /\ m - k + 1 \in 1 .. m
    BY <1>1, <1>4
  <2>3. QED
    BY <1>4, <2>1, <2>2
<1> HIDE DEF f, m, k
<1>7. Left(y, F)
  <2>1. \A j \in 1 .. k - 1 : Tail(x.files)[j] = F[m - (k - 1) + j]
    <3>1. ASSUME NEW j \in 1 .. k - 1 PROVE Tail(x.files)[j] = F[m - (k - 1) + j]
      <4>1. j + 1 \in 1 .. k /\ m - k + (j + 1) = m - (k - 1) + j
        <5>1. m \in Int /\ k \in Int /\ j \in Int /\ 1 <= j /\ j <= k - 1
          BY <1>1, <1>4
        <5>2. QED
          BY <5>1, LaterPlace
      <4>2. QED
        BY <4>1, <1>4, <1>5
    <3>2. QED
      BY <3>1
  <2>2. y.pc = "file" <=> Tail(x.files) # <<>>
    <3>1. Tail(x.files) = <<>> <=> k - 1 = 0
      <4>1. Tail(x.files) # <<>> => Len(Tail(x.files)) \in Nat \ {0}
        BY <1>5, EmptySeq
      <4>2. Tail(x.files) = <<>> => Len(Tail(x.files)) = 0
        BY EmptySeq
      <4>3. QED
        BY <4>1, <4>2, <1>5
    <3>2. QED
      BY <3>1, <1>4 DEF k
  <2>3. Len(y.files) = k - 1 /\ k - 1 <= m
    BY <1>1, <1>4, <1>5
  <2>4. QED
    BY <1>5, <2>1, <2>2, <2>3 DEF Left, m
<1>8. Seen(y, F) = Seen(x, F) \cup {f.file} /\ f.file \notin Seen(x, F)
  <2>1. Seen(y, F) = {F[i].file : i \in 1 .. m - (k - 1)}
    BY <1>5 DEF Seen, m
  <2>2. Seen(x, F) = {F[i].file : i \in 1 .. m - k}
    BY DEF Seen, m, k
  <2>3. 1 .. m - (k - 1) = (1 .. m - k) \cup {m - k + 1}
    BY <1>1, <1>4
  <2>4. \A i \in 1 .. m - k : i \in DOMAIN F /\ i # m - k + 1
    BY <1>1, <1>4
  <2>5. \A i \in 1 .. m - k : F[i].file # f.file
    BY <2>4, <1>1, <1>6
  <2>6. QED
    BY <2>1, <2>2, <2>3, <2>5, <1>6
<1>9. DOMAIN x.actions \cap x.skipped = {} /\ DOMAIN x.actions \cup x.skipped = Seen(x, F)
  BY <1>2 DEF Handled
<1> DEFINE new == _reapply(base[f.file], Applied(f))
<1>10. \/ y.actions = x.actions /\ y.skipped = x.skipped \cup {f.file}
       \/ y.actions = Put(x.actions, f.file, new) /\ y.skipped = x.skipped
  BY DEF f
<1> HIDE DEF base, new
<1>11. CASE y.actions = x.actions /\ y.skipped = x.skipped \cup {f.file}
  <2>1. Handled(y, F)
    BY <1>8, <1>9, <1>11 DEF Handled
  <2>2. ASSUME y.steady PROVE Undisturbed(y, F, tree)
    <3>1. Edited(x, F, base)
      BY <1>2, <2>2 DEF Undisturbed, base
    <3>2. Edited(y, F, base)
      BY <1>11, <3>1 DEF Edited
    <3>3. QED
      BY <1>3, <3>2 DEF Undisturbed, base
  <2>3. QED
    BY <1>2, <1>7, <2>1, <2>2 DEF WorkIn, F
<1>12. CASE y.actions = Put(x.actions, f.file, new) /\ y.skipped = x.skipped
  <2>1. /\ DOMAIN y.actions = DOMAIN x.actions \cup {f.file}
        /\ y.actions[f.file] = new
        /\ \A g \in DOMAIN x.actions : g # f.file => y.actions[g] = x.actions[g]
    BY <1>12 DEF Put
  <2>2. Handled(y, F)
    BY <1>8, <1>9, <1>12, <2>1 DEF Handled
  <2>3. ASSUME y.steady PROVE Undisturbed(y, F, tree)
    <3>1. Edited(x, F, base)
      BY <1>2, <2>3 DEF Undisturbed, base
    <3>2. ASSUME NEW i \in 1 .. Len(F), F[i].file \in DOMAIN y.actions
          PROVE  y.actions[F[i].file] = _reapply(base[F[i].file], Applied(F[i]))
      <4>1. CASE F[i].file = f.file
        <5>1. F[i] = f
          BY <1>1, <1>6, <4>1 DEF m
        <5>2. QED
          BY <2>1, <5>1 DEF new
      <4>2. CASE F[i].file # f.file
        BY <2>1, <3>1, <3>2, <4>2 DEF Edited
      <4>3. QED
        BY <4>1, <4>2
    <3>3. Edited(y, F, base)
      BY <3>2 DEF Edited
    <3>4. QED
      BY <1>3, <3>3 DEF Undisturbed, base
  <2>4. QED
    BY <1>2, <1>7, <2>2, <2>3 DEF WorkIn, F
<1>13. QED
  BY <1>10, <1>11, <1>12

\* The branch is cut from the target, or was there.
LEMMA BranchCut ==
    ASSUME NEW fix, NEW x, NEW tree, WorkIn(x, fix, tree), x.pc = "branch",
           NEW y, y.pc = "commit", y.todo = x.todo, y.targets = x.targets, y.files = x.files,
           y.actions = x.actions, y.skipped = x.skipped,
           NEW tree2,
           y.steady => /\ x.steady
                       /\ y.base = tree[Head(x.todo)][target(x)]
                       /\ tree2[Head(x.todo)][FixBranch] = y.base
    PROVE  WorkIn(y, fix, tree2)
<1> DEFINE F == FilesIn(fix, Head(x.todo))
<1>1. Left(y, F) /\ Handled(y, F)
  BY DEF WorkIn, Left, Handled, Seen
<1>2. ASSUME y.steady PROVE Undisturbed(y, F, tree2)
  <2>1. Edited(x, F, y.base)
    BY <1>2 DEF WorkIn, Undisturbed
  <2>2. Edited(y, F, y.base)
    BY <2>1 DEF Edited
  <2> HIDE DEF F
  <2>3. QED
    BY <1>2, <2>2 DEF Undisturbed
<1> HIDE DEF F
<1>3. QED
  BY <1>1, <1>2 DEF WorkIn, F

\* The commit leaves on the branch what was cut, with the edits.
LEMMA BranchCommitted ==
    ASSUME NEW fix, NEW x, NEW tree, WorkIn(x, fix, tree), x.pc = "commit",
           NEW y, y.pc = "open", y.todo = x.todo, y.targets = x.targets, y.files = x.files,
           y.actions = x.actions, y.skipped = x.skipped, y.base = x.base, y.steady => x.steady,
           NEW tree2,
           tree2[Head(x.todo)][FixBranch] = Updated(tree[Head(x.todo)][FixBranch], x.actions)
    PROVE  WorkIn(y, fix, tree2)
<1> DEFINE F == FilesIn(fix, Head(x.todo))
<1>1. Left(y, F) /\ Handled(y, F)
  BY DEF WorkIn, Left, Handled, Seen
<1>2. ASSUME y.steady PROVE Undisturbed(y, F, tree2)
  <2>1. Edited(x, F, x.base) /\ tree[Head(x.todo)][FixBranch] = x.base
    BY <1>2 DEF WorkIn, Undisturbed
  <2>2. Edited(y, F, y.base)
    BY <2>1 DEF Edited
  <2> HIDE DEF F
  <2>3. QED
    BY <2>1, <2>2 DEF Undisturbed
<1> HIDE DEF F
<1>3. QED
  BY <1>1, <1>2 DEF WorkIn, F

(***************************************************************************)
(* From one repository to the next.                                        *)
(***************************************************************************)

\* The repository in hand, and the branch it goes to.
LEMMA AtWork ==
    ASSUME NEW x, NEW all, Progress(x, all), x.todo # <<>>
    PROVE  /\ Head(x.todo) \in Projects /\ target(x) \in Targets \cup {FixBranch}
           /\ Len(x.todo) \in Nat \ {0} /\ Head(x.todo) = x.todo[1]
<1>1. x.todo \in Seq(Projects) /\ x.targets \in Bodies
  BY DEF Progress
<1>2. Head(x.todo) \in Projects /\ Len(x.todo) \in Nat \ {0} /\ Head(x.todo) = x.todo[1]
  BY <1>1, EmptySeq, HeadTailProperties
<1>3. /\ x.targets[Head(x.todo)] \in Targets \cup {FixBranch, NoTarget}
      /\ DefaultRef[Head(x.todo)] \in Targets
  BY <1>1, <1>2, FixAssumption
<1>4. QED
  BY <1>2, <1>3 DEF target

\* A request begins with the first repository and no results.
LEMMA FirstProject ==
    ASSUME NEW fix, FilesOk(fix.files), by_project(fix) # <<>>,
           NEW x, x.targets \in Bodies, x.todo = by_project(fix), x.results = <<>>, x.pc = "file"
    PROVE  Progress(x, by_project(fix))
<1> DEFINE all == by_project(fix)
<1>1. all \in Seq(Projects) /\ Len(all) \in Nat
  BY ProjectsAre
<1>2. x.results \in Seq(Range(x.results)) /\ Len(x.results) = 0
  BY EmptySeq
<1> HIDE DEF all
<1>3. \A j \in 1 .. Len(all) : Len(x.results) + j = j
  BY <1>1, <1>2
<1>4. QED
  BY <1>1, <1>2, <1>3 DEF Progress, all

\* Appending, for a sequence of whatever its elements are.
LEMMA AppendsOne ==
    ASSUME NEW s, s \in Seq(Range(s)), NEW e
    PROVE  /\ Append(s, e) \in Seq(Range(s) \cup {e}) /\ Len(Append(s, e)) = Len(s) + 1
           /\ Append(s, e)[Len(s) + 1] = e
           /\ \A i \in 1 .. Len(s) : Append(s, e)[i] = s[i]
<1>1. Range(s) \subseteq Range(s) \cup {e}
  OBVIOUS
<1>2. s \in Seq(Range(s) \cup {e})
  BY <1>1, SeqMonotonic
<1>3. QED
  BY <1>2, AppendProperties

Result(p, mr) == [project |-> p, mr |-> mr]

\* A result for the repository in hand, and on to the next.
LEMMA NextProject ==
    ASSUME NEW x, NEW all, Progress(x, all), x.todo # <<>>, Len(all) \in Nat, NEW mr,
           NEW y, y.targets = x.targets, y.todo = Tail(x.todo),
           y.results = Append(x.results, Result(Head(x.todo), mr)),
           y.pc = "save" <=> y.todo = <<>>
    PROVE  /\ Progress(y, all)
           /\ Len(x.results) \in Nat /\ Len(y.results) = Len(x.results) + 1
           /\ y.results[Len(x.results) + 1] = Result(Head(x.todo), mr)
           /\ \A i \in 1 .. Len(x.results) : y.results[i] = x.results[i]
           /\ \A j \in 1 .. Len(y.todo) : j + 1 \in 1 .. Len(x.todo) /\ y.todo[j] = x.todo[j + 1]
<1> DEFINE n == Len(x.results)
           res == Result(Head(x.todo), mr)
<1>1. /\ x.todo \in Seq(Projects) /\ x.results \in Seq(Range(x.results))
      /\ n + Len(x.todo) = Len(all)
      /\ \A i \in 1 .. n : x.results[i].project = all[i]
      /\ \A j \in 1 .. Len(x.todo) : x.todo[j] = all[n + j]
      /\ x.targets \in Bodies
  BY DEF Progress
<1>2. Len(x.todo) \in Nat \ {0} /\ Head(x.todo) = x.todo[1]
  BY AtWork
<1>3. /\ y.todo \in Seq(Projects) /\ Len(y.todo) = Len(x.todo) - 1
      /\ \A j \in 1 .. Len(y.todo) : y.todo[j] = x.todo[j + 1]
  BY <1>1, HeadTailProperties
<1>4. n \in Nat
  BY <1>1, LenProperties
<1>5. /\ y.results \in Seq(Range(x.results) \cup {res}) /\ Len(y.results) = n + 1
      /\ y.results[n + 1] = res
      /\ \A i \in 1 .. n : y.results[i] = x.results[i]
  BY <1>1, AppendsOne
<1>6. y.results \in Seq(Range(y.results))
  BY <1>5, SeqOfRange
<1>7. res.project = Head(x.todo)
  BY DEF Result
<1> HIDE DEF n, res
<1>8. \A i \in 1 .. n + 1 : y.results[i].project = all[i]
  <2>1. 1 \in 1 .. Len(x.todo)
    BY <1>2
  <2>2. Head(x.todo) = all[n + 1]
    BY <1>1, <1>2, <2>1
  <2>3. \A i \in 1 .. n + 1 : i \in 1 .. n \/ i = n + 1
    BY <1>4
  <2>4. QED
    BY <2>2, <2>3, <1>1, <1>5, <1>7
<1>9. \A j \in 1 .. Len(y.todo) : j + 1 \in 1 .. Len(x.todo)
  BY <1>2, <1>3
<1>10. \A j \in 1 .. Len(y.todo) : y.todo[j] = all[n + 1 + j]
  <2>1. ASSUME NEW j \in 1 .. Len(y.todo) PROVE y.todo[j] = all[n + 1 + j]
    <3>1. j + 1 \in 1 .. Len(x.todo) /\ n + (j + 1) = n + 1 + j
      <4>1. j \in Int
        OBVIOUS
      <4>2. QED
        BY <1>4, <1>9, <4>1
    <3>2. x.todo[j + 1] = all[n + (j + 1)]
      BY <1>1, <3>1
    <3>3. QED
      BY <1>3, <3>1, <3>2
  <2>2. QED
    BY <2>1
<1>11. Len(y.results) + Len(y.todo) = Len(all)
  <2>1. /\ Len(y.results) = n + 1 /\ Len(y.todo) = Len(x.todo) - 1 /\ n + Len(x.todo) = Len(all)
        /\ n \in Int /\ Len(x.todo) \in Int
    BY <1>1, <1>2, <1>3, <1>4, <1>5
  <2>2. \A a, b \in Int : (a + 1) + (b - 1) = a + b
    OBVIOUS
  <2>3. QED
    BY <2>1, <2>2
<1>12. Progress(y, all)
  BY <1>1, <1>3, <1>5, <1>6, <1>8, <1>10, <1>11 DEF Progress
<1>13. QED
  BY <1>3, <1>4, <1>5, <1>9, <1>12 DEF n, res

(***************************************************************************)
(* The merge requests of a request, and the results of it.                 *)
(***************************************************************************)

Opened(mrs, r, p) == {i \in DOMAIN mrs : mrs[i].request = r /\ mrs[i].project = p}

\* Each success is a merge request of r, and where there is an error r opened none.
ResultsIn(results, mrs, docs, r, suggestion) ==
    \A i \in 1 .. Len(results) :
       /\ Opened(mrs, r, results[i].project) = {results[i].mr} \ {0}
       /\ results[i].mr # 0 => docs[mrs[results[i].mr].doc].suggestion = suggestion

\* Merge requests stay, but for being closed.
SameMr(m, m2) ==
    /\ m2.request = m.request /\ m2.project = m.project /\ m2.doc = m.doc
    /\ m2.skipped = m.skipped /\ m2.base = m.base /\ m2.head = m.head
    /\ m2.steady => m.steady

Stay(mrs, mrs2) ==
    /\ DOMAIN mrs \subseteq DOMAIN mrs2
    /\ \A i \in DOMAIN mrs : SameMr(mrs[i], mrs2[i])

\* No merge request more of r in p.
LEMMA OpenedKept ==
    ASSUME NEW mrs, NEW mrs2, Stay(mrs, mrs2), NEW r, NEW p,
           \A i \in DOMAIN mrs2 \ DOMAIN mrs : ~ (mrs2[i].request = r /\ mrs2[i].project = p)
    PROVE  Opened(mrs2, r, p) = Opened(mrs, r, p)
BY DEF Opened, Stay, SameMr

\* Results stay true while r opens none in their repositories.
LEMMA ResultsKept ==
    ASSUME NEW mrs, NEW mrs2, Stay(mrs, mrs2), NEW docs, NEW docs2, NEW r, NEW results, NEW suggestion,
           ResultsIn(results, mrs, docs, r, suggestion),
           \A i \in DOMAIN mrs : docs2[mrs[i].doc].suggestion = docs[mrs[i].doc].suggestion,
           \A k \in DOMAIN mrs2 \ DOMAIN mrs : \A i \in 1 .. Len(results) :
               ~ (mrs2[k].request = r /\ mrs2[k].project = results[i].project)
    PROVE  ResultsIn(results, mrs2, docs2, r, suggestion)
<1> SUFFICES ASSUME NEW i \in 1 .. Len(results)
             PROVE  /\ Opened(mrs2, r, results[i].project) = {results[i].mr} \ {0}
                    /\ results[i].mr # 0 => docs2[mrs2[results[i].mr].doc].suggestion = suggestion
  BY DEF ResultsIn
<1>1. /\ Opened(mrs, r, results[i].project) = {results[i].mr} \ {0}
      /\ results[i].mr # 0 => docs[mrs[results[i].mr].doc].suggestion = suggestion
  BY DEF ResultsIn
<1>2. Opened(mrs2, r, results[i].project) = Opened(mrs, r, results[i].project)
  BY OpenedKept
<1>3. results[i].mr # 0 => results[i].mr \in DOMAIN mrs
  BY <1>1 DEF Opened
<1>4. QED
  BY <1>1, <1>2, <1>3 DEF Stay, SameMr

\* The results with the one of the repository in hand.
LEMMA ResultsMore ==
    ASSUME NEW results, NEW more, Len(results) \in Nat, Len(more) = Len(results) + 1,
           \A i \in 1 .. Len(results) : more[i] = results[i],
           NEW mrs, NEW docs, NEW r, NEW suggestion, ResultsIn(results, mrs, docs, r, suggestion),
           NEW p, NEW mr, more[Len(results) + 1] = Result(p, mr),
           Opened(mrs, r, p) = {mr} \ {0},
           mr # 0 => docs[mrs[mr].doc].suggestion = suggestion
    PROVE  ResultsIn(more, mrs, docs, r, suggestion)
<1>1. \A i \in 1 .. Len(more) : i \in 1 .. Len(results) \/ i = Len(results) + 1
  OBVIOUS
<1>2. more[Len(results) + 1].project = p /\ more[Len(results) + 1].mr = mr
  BY DEF Result
<1>3. QED
  BY <1>1, <1>2 DEF ResultsIn

(***************************************************************************)
(* The inductive invariant of threads, requests, documents and GitLab.     *)
(***************************************************************************)

ThreadPcs == {"start_job", "read", "explore", "fetch", "save", "finish", "fail"} \cup Over

ThreadFits(x) ==
    /\ x.pc \in ThreadPcs
    /\ x.edits \in Seq(Range(x.edits)) /\ x.keys \in Seq(Range(x.keys))
    /\ \A i \in 1 .. Len(x.keys) : x.keys[i] = <<x.keys[i][1], x.keys[i][2]>>
    /\ x.pc = "fetch" => x.keys # <<>>
    /\ x.pc \in {"unstarted", "start_job", "read", "explore"} => x.keys = <<>> /\ x.raw = <<>>
    /\ DOMAIN x.raw \subseteq Projects \X Files /\ IsFiniteSet(DOMAIN x.raw)
    /\ Cardinality(DOMAIN x.raw) + Len(x.keys) <= MaxEditFiles

ThreadsFit == \A s \in Suggestions : ThreadFits(sug[s])

\* The results of a document are those of a request that is over.
DocTrue(d, mrs, docs, reqs) ==
    d.results # <<>> =>
       /\ d.request \in Requests /\ reqs[d.request].pc = "done"
       /\ [i \in DOMAIN d.results |-> d.results[i].project] = by_project(d)
       /\ DOMAIN d.results = 1 .. Len(d.results)
       /\ ResultsIn(d.results, mrs, docs, d.request, d.suggestion)

DocsFit ==
    \A n \in 1 .. Len(fixes) :
        FilesOk(fixes[n].files) /\ DocTrue(fixes[n], gitlab.mrs, fixes, req)

TreesFit ==
    /\ DOMAIN gitlab = {"tree", "mrs"}
    /\ DOMAIN gitlab.tree = Projects
    /\ \A p \in Projects :
          /\ DOMAIN gitlab.tree[p] = Targets \cup {FixBranch}
          /\ \A b \in Targets \cup {FixBranch} : DOMAIN gitlab.tree[p][b] \subseteq Files

\* A request at work: how far it is, and what it has opened so far.
Underway(k, x, fix, mrs, docs) ==
    /\ Progress(x, by_project(fix))
    /\ ResultsIn(x.results, mrs, docs, k, fix.suggestion)
    /\ \A j \in 1 .. Len(x.todo) : Opened(mrs, k, x.todo[j]) = {}

RequestFits(k) ==
    /\ req[k].pc \in Working \cup {"save"} \cup Over
    /\ req[k].pc = "unstarted" => \A i \in DOMAIN gitlab.mrs : gitlab.mrs[i].request # k
    /\ req[k].pc \notin Over => Underway(k, req[k], fixes[req[k].doc], gitlab.mrs, fixes)
    /\ req[k].pc \in Working => WorkIn(req[k], fixes[req[k].doc], gitlab.tree)

RequestsFit == \A k \in Requests : RequestFits(k)

ReviewedDiff(mr, fix) ==
    mr.steady =>
       /\ DOMAIN mr.head = DOMAIN mr.base
       /\ \A f \in DOMAIN mr.base :
          LET own == {x \in Range(FilesIn(fix, mr.project)) : x.file = f}
          IN  IF own = {} \/ f \in mr.skipped THEN mr.head[f] = mr.base[f]
              ELSE \A x \in own :
                      /\ mr.head[f] = _reapply(mr.base[f], Applied(x))
                      /\ mr.base[f] = x.old => mr.head[f] = x.new

MrFields == {"project", "target", "open", "request", "doc", "skipped", "base", "head", "steady"}

MrFits(mr) ==
    /\ DOMAIN mr = MrFields
    /\ mr.request \in Requests /\ req[mr.request].pc # "unstarted"
    /\ mr.doc \in 1 .. Len(fixes) /\ mr.project \in Projects
    /\ ReviewedDiff(mr, fixes[mr.doc])

MrsFit ==
    /\ gitlab.mrs \in Seq(Range(gitlab.mrs))
    /\ \A i \in DOMAIN gitlab.mrs : MrFits(gitlab.mrs[i])

MrInv == FixInv /\ ThreadsFit /\ DocsFit /\ TreesFit /\ RequestsFit /\ MrsFit

-----------------------------------------------------------------------------
(* What the steps keep. *)

Grow == /\ Len(fixes) \in Nat /\ Len(fixes') \in Nat /\ Len(fixes) <= Len(fixes')
        /\ \A n \in 1 .. Len(fixes) : fixes'[n] = fixes[n]

\* A request that does nothing of its own in a step: it may be crossed, no
\* longer steady, or stopped.
Rests(x, y) == SameWork(x, y) \/ (x.pc \notin Over /\ y.pc \in {"done", "killed"})

\* What a steady request relies on has not changed.
TreeKept(x) ==
    /\ x.pc \in {"file", "branch"} =>
          gitlab'.tree[Head(x.todo)][target(x)] = gitlab.tree[Head(x.todo)][target(x)]
    /\ x.pc \in {"commit", "open"} =>
          gitlab'.tree[Head(x.todo)][FixBranch] = gitlab.tree[Head(x.todo)][FixBranch]

\* A request that rests is as far as it was.
LEMMA UnderwayKept ==
    ASSUME NEW k, NEW x, NEW y, NEW fix, NEW mrs, NEW mrs2, NEW docs, NEW docs2,
           Underway(k, x, fix, mrs, docs), SameWork(x, y), Stay(mrs, mrs2),
           \A i \in DOMAIN mrs2 \ DOMAIN mrs : mrs2[i].request # k,
           \A i \in DOMAIN mrs : docs2[mrs[i].doc] = docs[mrs[i].doc]
    PROVE  Underway(k, y, fix, mrs2, docs2)
<1>1. Progress(y, by_project(fix))
  BY ProgressSame DEF Underway
<1>2. ResultsIn(x.results, mrs2, docs2, k, fix.suggestion)
  BY ResultsKept DEF Underway
<1>3. \A p : Opened(mrs2, k, p) = Opened(mrs, k, p)
  BY OpenedKept
<1>4. QED
  BY <1>1, <1>2, <1>3 DEF Underway, SameWork

\* A request at rest keeps its part of the invariant.
LEMMA RequestRests ==
    ASSUME MrInv, Grow, NEW k \in Requests, Rests(req[k], req'[k]),
           Stay(gitlab.mrs, gitlab'.mrs),
           \A i \in DOMAIN gitlab'.mrs \ DOMAIN gitlab.mrs : gitlab'.mrs[i].request # k,
           req'[k].steady /\ req[k].steady => TreeKept(req[k])
    PROVE  RequestFits(k)'
<1> DEFINE x == req[k]
           y == req'[k]
<1>1. RequestFits(k) /\ RequestInv(x)
  BY DEF MrInv, RequestsFit, FixInv, ReqInv
<1>2. \A i \in DOMAIN gitlab.mrs : fixes'[gitlab.mrs[i].doc] = fixes[gitlab.mrs[i].doc]
  BY DEF MrInv, MrsFit, MrFits, Grow
<1>3. CASE SameWork(x, y)
  <2>1. y.pc = x.pc /\ y.doc = x.doc
    BY <1>3 DEF SameWork
  <2>2. x.pc = "unstarted" => \A i \in DOMAIN gitlab'.mrs : gitlab'.mrs[i].request # k
    BY <1>1 DEF RequestFits, Stay, SameMr
  <2>3. ASSUME x.pc \notin Over
        PROVE  /\ fixes'[y.doc] = fixes[x.doc]
               /\ Underway(k, y, fixes[x.doc], gitlab'.mrs, fixes')
    <3>1. x.doc \in 1 .. Len(fixes)
      BY <1>1, <2>3 DEF RequestInv
    <3>2. Underway(k, x, fixes[x.doc], gitlab.mrs, fixes)
      BY <1>1, <2>3 DEF RequestFits
    <3>3. Underway(k, y, fixes[x.doc], gitlab'.mrs, fixes')
      BY <3>2, <1>2, <1>3, UnderwayKept
    <3>4. QED
      BY <2>1, <3>1, <3>3 DEF Grow
  <2>4. ASSUME x.pc \in Working PROVE WorkIn(y, fixes[x.doc], gitlab'.tree)
    <3>1. WorkIn(x, fixes[x.doc], gitlab.tree)
      BY <1>1, <2>4 DEF RequestFits
    <3>2. y.steady => TreeKept(x)
      BY <1>3 DEF SameWork
    <3>3. QED
      BY <1>3, <3>1, <3>2, WorkSame DEF TreeKept
  <2>5. x.pc \in Working => x.pc \notin Over
    BY DEF Working, Over
  <2>6. QED
    BY <1>1, <2>1, <2>2, <2>3, <2>4, <2>5 DEF RequestFits
<1>4. CASE x.pc \notin Over /\ y.pc \in {"done", "killed"}
  BY <1>4 DEF RequestFits, Over, Working
<1>5. QED
  BY <1>3, <1>4 DEF Rests

\* So do the documents stored before.
LEMMA DocsKept ==
    ASSUME MrInv, Grow, Stay(gitlab.mrs, gitlab'.mrs),
           \A i \in DOMAIN gitlab'.mrs \ DOMAIN gitlab.mrs :
               gitlab'.mrs[i].request \in Requests /\ req[gitlab'.mrs[i].request].pc # "done",
           \A k \in Requests : req[k].pc = "done" => req'[k].pc = "done"
    PROVE  \A n \in 1 .. Len(fixes) :
               FilesOk(fixes'[n].files) /\ DocTrue(fixes'[n], gitlab'.mrs, fixes', req')
<1> SUFFICES ASSUME NEW n \in 1 .. Len(fixes)
             PROVE  FilesOk(fixes'[n].files) /\ DocTrue(fixes'[n], gitlab'.mrs, fixes', req')
  OBVIOUS
<1> DEFINE d == fixes[n]
<1>1. FilesOk(d.files) /\ DocTrue(d, gitlab.mrs, fixes, req) /\ fixes'[n] = d
  BY DEF MrInv, DocsFit, Grow
<1>2. \A i \in DOMAIN gitlab.mrs : fixes'[gitlab.mrs[i].doc] = fixes[gitlab.mrs[i].doc]
  BY DEF MrInv, MrsFit, MrFits, Grow
<1> HIDE DEF d
<1>3. ASSUME d.results # <<>>
      PROVE  ResultsIn(d.results, gitlab'.mrs, fixes', d.request, d.suggestion)
  <2>1. ResultsIn(d.results, gitlab.mrs, fixes, d.request, d.suggestion) /\ req[d.request].pc = "done"
    BY <1>1, <1>3 DEF DocTrue
  <2>2. \A i \in DOMAIN gitlab'.mrs \ DOMAIN gitlab.mrs : gitlab'.mrs[i].request # d.request
    BY <2>1
  <2>3. QED
    BY <1>2, <2>1, <2>2, ResultsKept
<1>4. DocTrue(d, gitlab'.mrs, fixes', req')
  BY <1>1, <1>3 DEF DocTrue
<1>5. QED
  BY <1>1, <1>4

\* So do the merge requests opened before.
LEMMA MrsKept ==
    ASSUME MrInv, Grow, Stay(gitlab.mrs, gitlab'.mrs),
           \A i \in DOMAIN gitlab.mrs : DOMAIN gitlab'.mrs[i] = MrFields,
           \A k \in Requests : req[k].pc # "unstarted" => req'[k].pc # "unstarted"
    PROVE  \A i \in DOMAIN gitlab.mrs : MrFits(gitlab.mrs[i])'
<1> SUFFICES ASSUME NEW i \in DOMAIN gitlab.mrs PROVE MrFits(gitlab.mrs[i])'
  OBVIOUS
<1> DEFINE m == gitlab.mrs[i]
           m2 == gitlab'.mrs[i]
<1>1. MrFits(m) /\ SameMr(m, m2) /\ DOMAIN m2 = MrFields
  BY DEF MrInv, MrsFit, Stay
<1>2. m2.doc \in 1 .. Len(fixes) /\ fixes'[m2.doc] = fixes[m.doc] /\ m2.doc \in 1 .. Len(fixes')
  BY <1>1 DEF MrFits, SameMr, Grow
<1>3. ReviewedDiff(m2, fixes[m.doc])
  BY <1>1 DEF MrFits, ReviewedDiff, SameMr
<1>4. m2.request \in Requests /\ req'[m2.request].pc # "unstarted" /\ m2.project \in Projects
  BY <1>1 DEF MrFits, SameMr
<1>5. QED
  BY <1>1, <1>2, <1>3, <1>4 DEF MrFits

(***************************************************************************)
(* Steps that leave GitLab and the requests' work alone.                   *)
(***************************************************************************)

\* Trivially, merge requests that do not change stay.
LEMMA MrsStay == \A mrs : Stay(mrs, mrs)
BY DEF Stay, SameMr

\* A request that does not change does the same work.
LEMMA SameSelf == \A x : SameWork(x, x)
BY DEF SameWork

\* Nor does history change it.
LEMMA SameCrossed ==
    ASSUME NEW x, DOMAIN x = DOMAIN NoRequest
    PROVE  SameWork(x, [x EXCEPT !.crossed = TRUE]) /\ SameWork(x, [x EXCEPT !.steady = FALSE])
BY DEF SameWork, NoRequest

\* No document more.
LEMMA LengthGrows == FixInv /\ UNCHANGED fixes => Grow
BY LengthOfFixes DEF Grow, FixInv

\* A step that leaves GitLab alone and does nothing for a request.
LEMMA QuietStep ==
    ASSUME MrInv, FixInv', ThreadsFit', Grow, UNCHANGED gitlab,
           \A n \in Len(fixes) + 1 .. Len(fixes') :
               FilesOk(fixes'[n].files) /\ DocTrue(fixes'[n], gitlab'.mrs, fixes', req'),
           \A k \in Requests : Rests(req[k], req'[k])
    PROVE  MrInv'
<1>1. \A k \in Requests : req[k].pc = "done" => req'[k].pc = "done"
  BY DEF Rests, SameWork, Over
<1>2. \A k \in Requests : req[k].pc # "unstarted" => req'[k].pc # "unstarted"
  BY DEF Rests, SameWork
<1>3. RequestsFit'
  <2>1. ASSUME NEW k \in Requests PROVE RequestFits(k)'
    BY RequestRests, MrsStay DEF TreeKept
  <2>2. QED
    BY <2>1 DEF RequestsFit
<1>4. DocsFit'
  <2>1. \A n \in 1 .. Len(fixes) : FilesOk(fixes'[n].files) /\ DocTrue(fixes'[n], gitlab'.mrs, fixes', req')
    BY <1>1, DocsKept, MrsStay
  <2>2. \A n \in 1 .. Len(fixes') : n \in 1 .. Len(fixes) \/ n \in Len(fixes) + 1 .. Len(fixes')
    BY DEF Grow
  <2>3. QED
    BY <2>1, <2>2 DEF DocsFit
<1>5. MrsFit'
  <2>1. \A i \in DOMAIN gitlab.mrs : DOMAIN gitlab'.mrs[i] = MrFields
    BY DEF MrInv, MrsFit, MrFits
  <2>2. \A i \in DOMAIN gitlab.mrs : MrFits(gitlab.mrs[i])'
    BY <1>2, <2>1, MrsKept, MrsStay
  <2>3. QED
    BY <2>2 DEF MrInv, MrsFit
<1>6. TreesFit'
  BY DEF MrInv, TreesFit
<1>7. QED
  BY <1>3, <1>4, <1>5, <1>6 DEF MrInv

\* A thread that holds nothing.
LEMMA NoThreadFits ==
    ASSUME NEW pc \in {"killed", "finish", "done", "unstarted"}
    PROVE  ThreadFits([NoThread EXCEPT !.pc = pc])
<1> DEFINE x == [NoThread EXCEPT !.pc = pc]
<1>1. x.pc = pc /\ x.edits = <<>> /\ x.keys = <<>> /\ x.raw = <<>>
  BY DEF NoThread
<1>2. \A S : <<>> \in Seq(S) /\ Len(<<>>) = 0
  BY EmptySeq
<1>3. DOMAIN <<>> = {}
  OBVIOUS
<1>4. IsFiniteSet({}) /\ Cardinality({}) = 0
  BY FS_EmptySet
<1>5. MaxEditFiles \in Nat
  BY FixAssumption
<1> HIDE DEF x
<1>6. x.edits \in Seq(Range(x.edits)) /\ x.keys \in Seq(Range(x.keys)) /\ Len(x.keys) = 0
  BY <1>1, <1>2
<1>7. DOMAIN x.raw = {}
  BY <1>1, <1>3
<1>8. DOMAIN x.raw \subseteq Projects \X Files /\ IsFiniteSet(DOMAIN x.raw) /\ Cardinality(DOMAIN x.raw) = 0
  BY <1>4, <1>7
<1>9. x.pc \in ThreadPcs /\ x.pc # "fetch"
  BY <1>1 DEF ThreadPcs, Over
<1>10. Cardinality(DOMAIN x.raw) + Len(x.keys) <= MaxEditFiles
  BY <1>5, <1>6, <1>8
<1>11. \A i \in 1 .. Len(x.keys) : x.keys[i] = <<x.keys[i][1], x.keys[i][2]>>
  BY <1>6
<1>12. ThreadFits(x)
  BY <1>1, <1>6, <1>8, <1>9, <1>10, <1>11 DEF ThreadFits
<1>13. QED
  BY <1>12 DEF x

\* The value threads start with is of that form.
LEMMA NoThreadIs == NoThread = [NoThread EXCEPT !.pc = "unstarted"]
BY DEF NoThread

\* A thread that keeps what it has.
LEMMA ThreadMoves ==
    ASSUME NEW x, DOMAIN x = DOMAIN NoThread, ThreadFits(x), NEW pc \in ThreadPcs,
           pc # "fetch", pc \in {"unstarted", "start_job", "read", "explore"} => x.pc \in {"unstarted", "start_job", "read", "explore"}
    PROVE  ThreadFits([x EXCEPT !.pc = pc])
<1> DEFINE y == [x EXCEPT !.pc = pc]
<1>1. y.pc = pc /\ y.edits = x.edits /\ y.keys = x.keys /\ y.raw = x.raw
  BY DEF NoThread
<1> HIDE DEF y
<1>2. QED
  BY <1>1 DEF ThreadFits, y

\* At most _MAX_EDIT_FILES files are fetched.
LEMMA FetchedKeysAre ==
    ASSUME NEW edits, Len(edits) \in Nat, DOMAIN edits = 1 .. Len(edits), NEW max \in Nat
    PROVE  /\ FetchedKeys(edits, max) \in Seq(Range(FetchedKeys(edits, max)))
           /\ Len(FetchedKeys(edits, max)) \in Nat /\ Len(FetchedKeys(edits, max)) <= max
           /\ \A i \in 1 .. Len(FetchedKeys(edits, max)) :
                 FetchedKeys(edits, max)[i] = <<FetchedKeys(edits, max)[i][1], FetchedKeys(edits, max)[i][2]>>
<1> DEFINE all == KeysOf(edits)
           S == {i \in DOMAIN all : all[i][2] # NoFile}
           named == NamedKeys(edits)
           n == Cardinality(S)
           c == IF n <= max THEN n ELSE max
           keys == FetchedKeys(edits, max)
<1>1. /\ Len(all) \in Nat /\ DOMAIN all = 1 .. Len(all)
      /\ \A i \in DOMAIN all : all[i] = <<all[i][1], all[i][2]>>
  BY KeysAre
<1> HIDE DEF all
<1>2. S \in SUBSET (1 .. Len(all))
  BY <1>1
<1>3. named = Picked(all, S)
  BY DEF NamedKeys, all
<1> HIDE DEF S, named
<1>4. /\ n \in Nat /\ DOMAIN named = 1 .. n
      /\ \A k \in 1 .. n : Ascending(S)[k] \in S /\ named[k] = all[Ascending(S)[k]]
  BY <1>1, <1>2, <1>3, PickedIs
<1> HIDE DEF n
<1>5. \A k \in 1 .. n : named[k] = <<named[k][1], named[k][2]>>
  BY <1>1, <1>2, <1>4
<1>6. c \in Nat /\ c <= max /\ {k \in 1 .. n : k <= max} = 1 .. c /\ c <= n
  BY <1>4
<1> HIDE DEF c
<1>7. keys = [i \in 1 .. c |-> named[i]]
  BY <1>4, <1>6 DEF FetchedKeys, named
<1>8. keys \in Seq(Range(keys)) /\ Len(keys) = c
  <2>1. keys \in [1 .. c -> Range(keys)]
    BY <1>7 DEF Range
  <2>2. QED
    BY <2>1, <1>6
<1>9. \A i \in 1 .. c : keys[i] = <<keys[i][1], keys[i][2]>>
  <2>1. \A i \in 1 .. c : i \in 1 .. n /\ keys[i] = named[i]
    BY <1>4, <1>6, <1>7
  <2>2. QED
    BY <2>1, <1>5
<1> HIDE DEF keys
<1>10. QED
  BY <1>6, <1>8, <1>9 DEF keys

(***************************************************************************)
(* The threads.                                                            *)
(***************************************************************************)

\* One thread moves, the others rest.
LEMMA ThreadsKept ==
    ASSUME MrInv, NEW s \in Suggestions, NEW x, sug' = [sug EXCEPT ![s] = x], ThreadFits(x)
    PROVE  ThreadsFit'
BY DEF MrInv, FixInv, SugInv, ThreadsFit

\* A thread moves on, nothing else of what the invariant is about.
LEMMA ThreadFitsStep ==
    ASSUME MrInv, FixInv', UNCHANGED <<fixes, req, gitlab>>,
           NEW s \in Suggestions, NEW x, sug' = [sug EXCEPT ![s] = x], ThreadFits(x)
    PROVE  MrInv'
<1>1. ThreadsFit'
  BY ThreadsKept
<1>2. Grow
  BY LengthGrows DEF MrInv
<1>3. \A n \in Len(fixes) + 1 .. Len(fixes') : FALSE
  BY <1>2 DEF Grow
<1>4. \A k \in Requests : Rests(req[k], req'[k])
  BY SameSelf DEF Rests
<1>5. QED
  BY <1>1, <1>2, <1>3, <1>4, QuietStep

\* The agent's edits, and the files to fetch.
LEMMA EditsFit ==
    ASSUME NEW p \in Proposals, NEW candidates
    PROVE  /\ WithProjects(p.edits, candidates) \in Seq(Range(WithProjects(p.edits, candidates)))
           /\ Len(WithProjects(p.edits, candidates)) \in Nat
           /\ DOMAIN WithProjects(p.edits, candidates) = 1 .. Len(WithProjects(p.edits, candidates))
<1> DEFINE e == WithProjects(p.edits, candidates)
           m == Len(p.edits)
<1>1. p.edits \in Seq(Range(p.edits))
  BY FixAssumption
<1>2. m \in Nat /\ DOMAIN p.edits = 1 .. m
  BY <1>1, LenProperties
<1>3. \E g : e = [i \in 1 .. m |-> g[i]]
  <2>1. e = [i \in 1 .. m |-> e[i]]
    BY <1>2 DEF WithProjects
  <2>2. QED
    BY <2>1
<1> HIDE DEF e, m
<1>4. e \in [1 .. m -> Range(e)]
  BY <1>3 DEF Range
<1>5. e \in Seq(Range(e)) /\ Len(e) = m /\ DOMAIN e = 1 .. m
  BY <1>2, <1>4
<1>6. QED
  BY <1>2, <1>5 DEF e

\* The agent answers.
LEMMA ExploresFits == ASSUME MrInv, FixInv', NEW s \in Suggestions, Explores(s) PROVE MrInv'
<1>0. sug[s].pc = "explore" /\ UNCHANGED <<fixes, req, gitlab>>
  BY DEF Explores
<1>1. PICK p \in Proposals :
          LET edits == WithProjects(p.edits, _candidate_projects(Evidence[sug[s].verdict]))
              keys == FetchedKeys(edits, MaxEditFiles)
          IN  sug' = IF ~ p.fixable \/ edits = <<>> THEN [sug EXCEPT ![s].pc = "save"]
                     ELSE [sug EXCEPT ![s].pc = IF keys = <<>> THEN "save" ELSE "fetch",
                                      ![s].fixable = TRUE, ![s].edits = edits, ![s].keys = keys]
  BY DEF Explores
<1> DEFINE edits == WithProjects(p.edits, _candidate_projects(Evidence[sug[s].verdict]))
           keys == FetchedKeys(edits, MaxEditFiles)
           pc == IF keys = <<>> THEN "save" ELSE "fetch"
<1>2. \/ sug' = [sug EXCEPT ![s].pc = "save"]
      \/ sug' = [sug EXCEPT ![s].pc = pc, ![s].fixable = TRUE, ![s].edits = edits, ![s].keys = keys]
  BY <1>1
<1>3. edits \in Seq(Range(edits)) /\ Len(edits) \in Nat /\ DOMAIN edits = 1 .. Len(edits)
  BY EditsFit
<1> HIDE DEF edits
<1>4. MaxEditFiles \in Nat
  BY FixAssumption
<1>5. /\ keys \in Seq(Range(keys)) /\ Len(keys) \in Nat /\ Len(keys) <= MaxEditFiles
      /\ \A i \in 1 .. Len(keys) : keys[i] = <<keys[i][1], keys[i][2]>>
  BY <1>3, <1>4, FetchedKeysAre
<1>6. pc \in {"save", "fetch"} /\ (pc = "fetch" => keys # <<>>)
  OBVIOUS
<1> HIDE DEF keys, pc
<1>7. s \in DOMAIN sug /\ DOMAIN sug[s] = DOMAIN NoThread /\ ThreadFits(sug[s])
  BY DEF MrInv, FixInv, SugInv, ThreadInv, ThreadsFit
<1>8. CASE sug' = [sug EXCEPT ![s].pc = "save"]
  <2>1. ThreadFits([sug[s] EXCEPT !.pc = "save"])
    BY <1>7, ThreadMoves DEF ThreadPcs
  <2>2. QED
    BY <1>0, <1>8, <2>1, ThreadFitsStep
<1>9. CASE sug' = [sug EXCEPT ![s].pc = pc, ![s].fixable = TRUE, ![s].edits = edits, ![s].keys = keys]
  <2> DEFINE x == [sug[s] EXCEPT !.pc = pc, !.fixable = TRUE, !.edits = edits, !.keys = keys]
  <2>1. sug' = [sug EXCEPT ![s] = x]
    BY <1>7, <1>9
  <2>2. x.pc = pc /\ x.edits = edits /\ x.keys = keys /\ x.raw = sug[s].raw
    BY <1>7 DEF NoThread
  <2> HIDE DEF x
  <2>3. x.raw = <<>> /\ DOMAIN <<>> = {}
    BY <1>0, <1>7, <2>2 DEF ThreadFits
  <2>4. IsFiniteSet({}) /\ Cardinality({}) = 0
    BY FS_EmptySet
  <2>5. /\ DOMAIN x.raw \subseteq Projects \X Files /\ IsFiniteSet(DOMAIN x.raw)
        /\ Cardinality(DOMAIN x.raw) = 0
    BY <2>3, <2>4
  <2>6. Cardinality(DOMAIN x.raw) + Len(x.keys) <= MaxEditFiles
    BY <1>4, <1>5, <2>2, <2>5
  <2>7. x.pc \in ThreadPcs /\ x.pc \notin {"unstarted", "start_job", "read", "explore"}
    BY <1>6, <2>2 DEF ThreadPcs
  <2>8. ThreadFits(x)
    BY <1>3, <1>5, <1>6, <2>2, <2>5, <2>6, <2>7 DEF ThreadFits
  <2>9. QED
    BY <1>0, <2>1, <2>8, ThreadFitsStep
<1>10. QED
  BY <1>2, <1>8, <1>9

\* A file is fetched, or left out: one less to fetch, at most one more held.
LEMMA FetchesFits == ASSUME MrInv, FixInv', NEW s \in Suggestions, Fetches(s) PROVE MrInv'
<1> DEFINE x == sug[s]
           key == Head(x.keys)
           keys == Tail(x.keys)
           pc == IF keys = <<>> THEN "save" ELSE "fetch"
           next == [x EXCEPT !.keys = keys, !.pc = pc]
           text == gitlab.tree[key[1]][DefaultRef[key[1]]][key[2]]
           raw == Put(next.raw, key, text)
<1>0. x.pc = "fetch" /\ UNCHANGED <<fixes, req, gitlab>>
  BY DEF Fetches
<1>1. \/ key[1] \in Projects /\ key[2] \in Files /\ sug' = [sug EXCEPT ![s] = [next EXCEPT !.raw = raw]]
      \/ sug' = [sug EXCEPT ![s] = next]
  <2>1. key[1] \in Projects => DOMAIN gitlab.tree[key[1]][DefaultRef[key[1]]] \subseteq Files
    BY FixAssumption DEF MrInv, TreesFit
  <2>2. \/ /\ key[1] \in Projects /\ key[2] \in DOMAIN gitlab.tree[key[1]][DefaultRef[key[1]]]
           /\ sug' = [sug EXCEPT ![s] = [next EXCEPT !.raw = raw]]
        \/ sug' = [sug EXCEPT ![s] = next]
    BY DEF Fetches
  <2>3. QED
    BY <2>1, <2>2
<1>2. DOMAIN x = DOMAIN NoThread /\ ThreadFits(x)
  BY DEF MrInv, FixInv, SugInv, ThreadInv, ThreadsFit
<1>3. /\ next.pc = pc /\ next.edits = x.edits /\ next.keys = keys /\ next.raw = x.raw
      /\ DOMAIN next = DOMAIN NoThread
  BY <1>2 DEF NoThread
<1>4. /\ x.keys \in Seq(Range(x.keys)) /\ x.keys # <<>> /\ MaxEditFiles \in Nat
      /\ \A i \in 1 .. Len(x.keys) : x.keys[i] = <<x.keys[i][1], x.keys[i][2]>>
  BY <1>0, <1>2, FixAssumption DEF ThreadFits
<1>5. /\ keys \in Seq(Range(x.keys)) /\ Len(keys) = Len(x.keys) - 1
      /\ \A i \in 1 .. Len(keys) : keys[i] = x.keys[i + 1]
      /\ Len(x.keys) \in Nat /\ Len(x.keys) # 0 /\ key = x.keys[1]
  <2> DEFINE k == x.keys
             S == Range(x.keys)
  <2>1. k \in Seq(S) /\ k # <<>>
    BY <1>4
  <2> HIDE DEF k, S
  <2>2. Tail(k) \in Seq(S) /\ Len(Tail(k)) = Len(k) - 1 /\ \A i \in 1 .. Len(Tail(k)) : Tail(k)[i] = k[i + 1]
    BY <2>1, HeadTailProperties
  <2>3. Len(k) \in Nat /\ Len(k) # 0 /\ Head(k) = k[1]
    BY <2>1, EmptySeq
  <2>4. QED
    BY <2>2, <2>3 DEF k, S
<1>6. keys \in Seq(Range(keys))
  BY <1>5, SeqOfRange
<1>7. key = <<key[1], key[2]>>
  <2>1. 1 \in 1 .. Len(x.keys)
    BY <1>5
  <2>2. QED
    BY <2>1, <1>4, <1>5
<1>8. pc \in {"save", "fetch"} /\ (pc = "fetch" => keys # <<>>)
  OBVIOUS
<1> HIDE DEF key, keys, pc, text
<1>9. \A i \in 1 .. Len(keys) : keys[i] = <<keys[i][1], keys[i][2]>>
  <2>1. \A i \in 1 .. Len(keys) : i + 1 \in 1 .. Len(x.keys)
    BY <1>5
  <2>2. QED
    BY <2>1, <1>4, <1>5
<1>10. /\ DOMAIN x.raw \subseteq Projects \X Files /\ IsFiniteSet(DOMAIN x.raw)
       /\ Cardinality(DOMAIN x.raw) + Len(x.keys) <= MaxEditFiles
       /\ x.edits \in Seq(Range(x.edits))
  BY <1>2 DEF ThreadFits
<1>11. Cardinality(DOMAIN x.raw) \in Nat
  BY <1>10, FS_CardinalityType
<1>12. pc \in ThreadPcs /\ pc \notin {"unstarted", "start_job", "read", "explore"}
  BY <1>8 DEF ThreadPcs
<1>13. ThreadFits(next)
  <2> HIDE DEF next
  <2>1. Cardinality(DOMAIN next.raw) + Len(next.keys) <= MaxEditFiles
    BY <1>3, <1>4, <1>5, <1>10, <1>11
  <2>2. QED
    BY <2>1, <1>3, <1>6, <1>8, <1>9, <1>10, <1>12 DEF ThreadFits
<1>14. CASE key[1] \in Projects /\ key[2] \in Files /\ sug' = [sug EXCEPT ![s] = [next EXCEPT !.raw = raw]]
  <2> DEFINE y == [next EXCEPT !.raw = raw]
  <2>1. y.pc = pc /\ y.edits = x.edits /\ y.keys = keys /\ y.raw = raw
    BY <1>3 DEF NoThread
  <2>2. DOMAIN raw = DOMAIN x.raw \cup {key}
    BY <1>3 DEF Put
  <2> HIDE DEF y, raw, next
  <2>3. /\ IsFiniteSet(DOMAIN raw)
        /\ Cardinality(DOMAIN raw) \in {Cardinality(DOMAIN x.raw), Cardinality(DOMAIN x.raw) + 1}
    BY <1>10, <2>2, FS_AddElement
  <2>4. key \in Projects \X Files
    BY <1>7, <1>14
  <2>5. DOMAIN raw \subseteq Projects \X Files
    BY <1>10, <2>2, <2>4
  <2>6. Cardinality(DOMAIN raw) + Len(keys) <= MaxEditFiles
    BY <1>4, <1>5, <1>10, <1>11, <2>3
  <2>7. ThreadFits(y)
    BY <2>1, <2>3, <2>5, <2>6, <1>6, <1>8, <1>9, <1>10, <1>12 DEF ThreadFits
  <2>8. sug' = [sug EXCEPT ![s] = y]
    BY <1>14 DEF y
  <2>9. QED
    BY <1>0, <2>7, <2>8, ThreadFitsStep
<1>15. CASE sug' = [sug EXCEPT ![s] = next]
  BY <1>0, <1>13, <1>15, ThreadFitsStep
<1>16. QED
  BY <1>1, <1>14, <1>15

\* A thread that goes on with what it has, or has nothing yet.
LEMMA ThreadGoesOn ==
    ASSUME MrInv, FixInv', UNCHANGED <<fixes, req, gitlab>>, NEW s \in Suggestions,
           NEW pc \in ThreadPcs \ {"fetch"}, sug' = [sug EXCEPT ![s].pc = pc],
           pc \in {"unstarted", "start_job", "read", "explore"}
              => sug[s].pc \in {"unstarted", "start_job", "read", "explore"}
    PROVE  MrInv'
<1>1. s \in DOMAIN sug /\ DOMAIN sug[s] = DOMAIN NoThread /\ ThreadFits(sug[s])
  BY DEF MrInv, FixInv, SugInv, ThreadInv, ThreadsFit
<1>2. ThreadFits([sug[s] EXCEPT !.pc = pc])
  BY <1>1, ThreadMoves
<1>3. QED
  BY <1>2, ThreadFitsStep

\* The thread reads the verdict.
LEMMA ReadsVerdictFits ==
    ASSUME MrInv, FixInv', NEW s \in Suggestions, ReadsVerdict(s) PROVE MrInv'
<1> DEFINE pc == IF row.bot_rca = 0 THEN "fail"
                 ELSE IF _candidate_projects(Evidence[row.bot_rca]) = <<>> THEN "save" ELSE "explore"
           x == sug[s]
           y == [x EXCEPT !.verdict = row.bot_rca, !.pc = pc]
<1>0. /\ x.pc = "read" /\ UNCHANGED <<fixes, req, gitlab>>
      /\ sug' = [sug EXCEPT ![s].verdict = row.bot_rca, ![s].pc = pc]
  BY DEF ReadsVerdict
<1>1. s \in DOMAIN sug /\ DOMAIN x = DOMAIN NoThread /\ ThreadFits(x)
  BY DEF MrInv, FixInv, SugInv, ThreadInv, ThreadsFit
<1>2. pc \in {"fail", "save", "explore"}
  OBVIOUS
<1> HIDE DEF pc
<1>3. y.pc = pc /\ y.edits = x.edits /\ y.keys = x.keys /\ y.raw = x.raw
  BY <1>1 DEF NoThread
<1>4. sug' = [sug EXCEPT ![s] = y]
  BY <1>0, <1>1
<1> HIDE DEF y
<1>5. pc \in ThreadPcs /\ pc # "fetch"
  BY <1>2 DEF ThreadPcs
<1>6. ThreadFits(y)
  BY <1>0, <1>1, <1>3, <1>5 DEF ThreadFits
<1>7. QED
  BY <1>0, <1>4, <1>6, ThreadFitsStep

\* A document stored beside the others, and the requests only crossed.
LEMMA SavesFixFits ==
    ASSUME MrInv, FixInv', NEW s \in Suggestions, SavesFix(s) PROVE MrInv'
<1> DEFINE x == sug[s]
           n == Len(fixes) + 1
           d == [fixable |-> x.fixable, files |-> _build_files(x.edits, x.raw),
                 request |-> 0, results |-> <<>>,
                 suggestion |-> n, verdict |-> x.verdict, crossed |-> x.crossed]
           y == [NoThread EXCEPT !.pc = "finish"]
<1>0. /\ fixes' = Append(fixes, d) /\ UNCHANGED gitlab /\ sug' = [sug EXCEPT ![s] = y]
      /\ req' = [r \in Requests |->
                      IF req[r].pc \notin Over THEN [req[r] EXCEPT !.crossed = TRUE] ELSE req[r]]
  BY DEF SavesFix
<1>1. ThreadFits(x)
  BY DEF MrInv, ThreadsFit
<1>2. FilesOk(_build_files(x.edits, x.raw))
  <2>1. x.edits \in Seq(Range(x.edits)) /\ DOMAIN x.raw \subseteq Projects \X Files
    BY <1>1 DEF ThreadFits
  <2>2. Len(x.edits) \in Nat /\ DOMAIN x.edits = 1 .. Len(x.edits)
    BY <2>1, LenProperties
  <2>3. QED
    BY <2>1, <2>2, BuiltFiles
<1>3. d.files = _build_files(x.edits, x.raw) /\ d.results = <<>> /\ DOMAIN d = DocFields
  BY DEF DocFields
<1> HIDE DEF d, n
<1>4. /\ Len(fixes) \in Nat /\ Len(fixes') = Len(fixes) + 1 /\ fixes'[Len(fixes) + 1] = d
      /\ \A k \in 1 .. Len(fixes) : fixes'[k] = fixes[k]
  BY <1>0, <1>3, Appended DEF MrInv, FixInv
<1>5. Grow
  BY <1>4 DEF Grow
<1>6. \A k \in Len(fixes) + 1 .. Len(fixes') :
          FilesOk(fixes'[k].files) /\ DocTrue(fixes'[k], gitlab'.mrs, fixes', req')
  <2>1. \A k \in Len(fixes) + 1 .. Len(fixes') : k = Len(fixes) + 1
    BY <1>4
  <2>2. DocTrue(d, gitlab'.mrs, fixes', req')
    BY <1>3 DEF DocTrue
  <2>3. QED
    BY <2>1, <2>2, <1>2, <1>3, <1>4
<1>7. ThreadsFit'
  BY <1>0, NoThreadFits, ThreadsKept
<1>8. \A k \in Requests : Rests(req[k], req'[k])
  BY <1>0, SameSelf, SameCrossed DEF Rests, MrInv, FixInv, ReqInv, RequestInv
<1>9. QED
  BY <1>0, <1>5, <1>6, <1>7, <1>8, QuietStep

\* Every step of a thread.
LEMMA SuggestingFits ==
    ASSUME MrInv, FixInv', NEW s \in Suggestions, Suggesting(s) PROVE MrInv'
<1>1. CASE suggest_fix_endpoint(s)
  <2>1. sug[s].pc = "unstarted"
    <3>1. Started(sug) = 1 .. (s - 1) /\ s \notin 1 .. (s - 1) /\ DOMAIN sug = Suggestions
      BY <1>1 DEF suggest_fix_endpoint, FirstFree, MrInv, FixInv, SugInv, Suggestions
    <3>2. QED
      BY <3>1 DEF Started
  <2>2. QED
    BY <1>1, <2>1, ThreadGoesOn DEF suggest_fix_endpoint, ThreadPcs
<1>2. CASE StartsJob(s)
  <2>1. sug[s].pc = "start_job" /\ UNCHANGED <<fixes, req, gitlab>>
    BY <1>2 DEF StartsJob
  <2>2. sug' = [sug EXCEPT ![s].pc = "read"] \/ sug' = [sug EXCEPT ![s].pc = "done"]
    BY <1>2 DEF StartsJob
  <2>3. "read" \in ThreadPcs /\ "done" \in ThreadPcs
    BY DEF ThreadPcs, Over
  <2>4. QED
    BY <2>1, <2>2, <2>3, ThreadGoesOn
<1>3. CASE ReadsVerdict(s)
  BY <1>3, ReadsVerdictFits
<1>4. CASE Explores(s)
  BY <1>4, ExploresFits
<1>5. CASE ExploringFails(s)
  BY <1>5, ThreadGoesOn DEF ExploringFails, ThreadPcs
<1>6. CASE Fetches(s)
  BY <1>6, FetchesFits
<1>7. CASE SavesFix(s)
  BY <1>7, SavesFixFits
<1>8. CASE JobEnds(s)
  <2>1. sug' = [sug EXCEPT ![s] = [NoThread EXCEPT !.pc = "done"]] /\ UNCHANGED <<fixes, req, gitlab>>
    BY <1>8 DEF JobEnds
  <2>2. QED
    BY <2>1, NoThreadFits, ThreadFitsStep
<1>9. QED
  BY <1>1, <1>2, <1>3, <1>4, <1>5, <1>6, <1>7, <1>8 DEF Suggesting

\* Nothing of this moves.
LEMMA StillnessFits ==
    ASSUME MrInv, FixInv', UNCHANGED <<fixes, sug, req, gitlab>> PROVE MrInv'
<1>1. ThreadsFit'
  BY DEF MrInv, ThreadsFit
<1>2. Grow
  BY LengthGrows DEF MrInv
<1>3. \A n \in Len(fixes) + 1 .. Len(fixes') : FALSE
  BY <1>2 DEF Grow
<1>4. \A k \in Requests : Rests(req[k], req'[k])
  BY SameSelf DEF Rests
<1>5. QED
  BY <1>1, <1>2, <1>3, <1>4, QuietStep

\* Verdicts, reviewers and restarts: threads and requests are crossed or stopped.
LEMMA CrossedFits ==
    ASSUME MrInv, FixInv', VerdictSaved \/ reset_rca \/ reject_fix \/ Restart PROVE MrInv'
<1>0. UNCHANGED <<fixes, gitlab>>
  BY DEF VerdictSaved, reset_rca, reject_fix, Restart
<1>1. ASSUME NEW s \in Suggestions PROVE ThreadFits(sug'[s])
  <2> DEFINE x == sug[s]
  <2>1. DOMAIN x = DOMAIN NoThread /\ ThreadFits(x)
    BY DEF MrInv, FixInv, SugInv, ThreadInv, ThreadsFit
  <2>2. sug'[s] \in {x, [x EXCEPT !.crossed = TRUE], [NoThread EXCEPT !.pc = "killed"]}
    BY DEF VerdictSaved, reset_rca, CrossAll, reject_fix, Restart
  <2>3. ThreadFits([x EXCEPT !.crossed = TRUE])
    <3> DEFINE y == [x EXCEPT !.crossed = TRUE]
    <3>1. y.pc = x.pc /\ y.edits = x.edits /\ y.keys = x.keys /\ y.raw = x.raw
      BY <2>1 DEF NoThread
    <3> HIDE DEF y
    <3>2. ThreadFits(y)
      BY <2>1, <3>1 DEF ThreadFits
    <3>3. QED
      BY <3>2 DEF y
  <2>4. QED
    BY <2>1, <2>2, <2>3, NoThreadFits
<1>2. ThreadsFit'
  BY <1>1 DEF ThreadsFit
<1>3. Grow
  BY <1>0, LengthGrows DEF MrInv
<1>4. \A n \in Len(fixes) + 1 .. Len(fixes') : FALSE
  BY <1>0, <1>3 DEF Grow
<1>5. ASSUME NEW k \in Requests PROVE Rests(req[k], req'[k])
  <2>1. DOMAIN req[k] = DOMAIN NoRequest
    BY DEF MrInv, FixInv, ReqInv, RequestInv
  <2>2. CASE VerdictSaved \/ reset_rca \/ reject_fix
    <3>1. req'[k] = IF req[k].pc \notin Over THEN [req[k] EXCEPT !.crossed = TRUE] ELSE req[k]
      BY <2>2 DEF VerdictSaved, reset_rca, CrossAll, reject_fix
    <3>2. SameWork(req[k], req'[k])
      BY <2>1, <3>1, SameSelf, SameCrossed
    <3>3. QED
      BY <3>2 DEF Rests
  <2>3. CASE Restart
    <3>1. req'[k] = IF req[k].pc \in Over THEN req[k] ELSE [NoRequest EXCEPT !.pc = "killed"]
      BY <2>3 DEF Restart
    <3>2. [NoRequest EXCEPT !.pc = "killed"].pc = "killed"
      BY DEF NoRequest
    <3>3. QED
      BY <3>1, <3>2, SameSelf DEF Rests
  <2>4. QED
    BY <2>2, <2>3
<1>6. QED
  BY <1>0, <1>2, <1>3, <1>4, <1>5, QuietStep

(***************************************************************************)
(* The requests: entering and leaving a repository.                        *)
(***************************************************************************)

\* y is at the start of the repositories `todo`.
Enters(y, todo, fix) ==
    /\ y.todo = todo /\ y.pc = IF todo = <<>> THEN "save" ELSE "file"
    /\ y.files = IF todo = <<>> THEN <<>> ELSE FilesIn(fix, Head(todo))
    /\ y.actions = <<>> /\ y.skipped = {} /\ y.steady = TRUE

\* What InProject sets.
LEMMA InProjectIs ==
    ASSUME NEW x, DOMAIN x = DOMAIN NoRequest, NEW todo, NEW fix
    PROVE  /\ Enters(InProject(x, todo, fix), todo, fix)
           /\ InProject(x, todo, fix).doc = x.doc /\ InProject(x, todo, fix).targets = x.targets
           /\ InProject(x, todo, fix).results = x.results
BY DEF InProject, NoRequest, Enters

\* What With sets.
LEMMA WithIs ==
    ASSUME NEW x, DOMAIN x = DOMAIN NoRequest, NEW mr
    PROVE  /\ Enters(With(x, mr), Tail(x.todo), fixes[x.doc])
           /\ With(x, mr).doc = x.doc /\ With(x, mr).targets = x.targets
           /\ With(x, mr).results = Append(x.results, Result(Head(x.todo), mr))
<1> DEFINE y == [x EXCEPT !.results = Append(@, [project |-> Head(x.todo), mr |-> mr])]
<1>1. /\ DOMAIN y = DOMAIN NoRequest /\ y.doc = x.doc /\ y.targets = x.targets
      /\ y.results = Append(x.results, Result(Head(x.todo), mr))
  BY DEF NoRequest, Result
<1>2. With(x, mr) = InProject(y, Tail(x.todo), fixes[x.doc])
  BY DEF With
<1> HIDE DEF y
<1>3. QED
  BY <1>1, <1>2, InProjectIs

\* The repositories of a suggestion are each in one place.
LEMMA OnceInOrder ==
    ASSUME NEW x, NEW all, Progress(x, all), x.todo # <<>>, Len(all) \in Nat, DOMAIN all = 1 .. Len(all),
           \A j, k \in DOMAIN all : all[j] = all[k] => j = k
    PROVE  /\ Len(x.results) + 1 \in 1 .. Len(all) /\ all[Len(x.results) + 1] = Head(x.todo)
           /\ \A i \in 1 .. Len(x.results) : x.results[i].project # Head(x.todo)
           /\ \A j \in 1 .. Len(x.todo) : j # 1 => x.todo[j] # Head(x.todo)
<1> DEFINE n == Len(x.results)
           t == Len(x.todo)
           a == Len(all)
<1>1. /\ n + t = a /\ x.results \in Seq(Range(x.results))
      /\ \A i \in 1 .. n : x.results[i].project = all[i]
      /\ \A j \in 1 .. t : x.todo[j] = all[n + j]
  BY DEF Progress
<1>2. t \in Nat \ {0} /\ Head(x.todo) = x.todo[1]
  BY AtWork
<1>3. n \in Nat
  BY <1>1, LenProperties
<1>4. a \in Nat /\ DOMAIN all = 1 .. a
  OBVIOUS
<1> HIDE DEF n, t, a
<1>5. 1 \in 1 .. t /\ n + 1 \in 1 .. a
  BY <1>1, <1>2, <1>3, <1>4
<1>6. Head(x.todo) = all[n + 1]
  BY <1>1, <1>2, <1>5
<1>7. \A i \in 1 .. n : i \in 1 .. a /\ i # n + 1
  BY <1>1, <1>2, <1>3, <1>4
<1>8. \A j \in 1 .. t : n + j \in 1 .. a /\ (n + j = n + 1 => j = 1)
  BY <1>1, <1>2, <1>3, <1>4
<1>9. \A i \in 1 .. n : x.results[i].project # Head(x.todo)
  BY <1>1, <1>4, <1>5, <1>6, <1>7
<1>10. \A j \in 1 .. t : j # 1 => x.todo[j] # Head(x.todo)
  BY <1>1, <1>4, <1>5, <1>6, <1>8
<1>11. QED
  BY <1>5, <1>6, <1>9, <1>10 DEF n, t, a

\* A repository is done, with a merge request or without.
LEMMA NextRepository ==
    ASSUME NEW fix, FilesOk(fix.files), NEW k, NEW x, NEW mrs, NEW mrs2, NEW docs, NEW docs2,
           Underway(k, x, fix, mrs, docs), x.todo # <<>>,
           NEW mr, NEW y, Enters(y, Tail(x.todo), fix), y.targets = x.targets,
           y.results = Append(x.results, Result(Head(x.todo), mr)),
           Stay(mrs, mrs2), \A i \in DOMAIN mrs : docs2[mrs[i].doc] = docs[mrs[i].doc],
           \A i \in DOMAIN mrs2 \ DOMAIN mrs : mrs2[i].project = Head(x.todo),
           Opened(mrs2, k, Head(x.todo)) = {mr} \ {0},
           mr # 0 => docs2[mrs2[mr].doc].suggestion = fix.suggestion
    PROVE  /\ Underway(k, y, fix, mrs2, docs2)
           /\ \A tree : y.pc = "file" => WorkIn(y, fix, tree)
<1> DEFINE all == by_project(fix)
           n == Len(x.results)
<1>1. /\ Len(all) \in Nat /\ DOMAIN all = 1 .. Len(all)
      /\ \A i, j \in DOMAIN all : all[i] = all[j] => i = j
      /\ \A i \in DOMAIN all : FilesIn(fix, all[i]) # <<>>
  BY ProjectsAre
<1>2. /\ Progress(x, all) /\ ResultsIn(x.results, mrs, docs, k, fix.suggestion)
      /\ \A j \in 1 .. Len(x.todo) : Opened(mrs, k, x.todo[j]) = {}
  BY DEF Underway
<1> HIDE DEF all
<1>3. /\ \A i \in 1 .. Len(x.results) : x.results[i].project # Head(x.todo)
      /\ \A j \in 1 .. Len(x.todo) : j # 1 => x.todo[j] # Head(x.todo)
  BY <1>1, <1>2, OnceInOrder
<1>4. y.todo = Tail(x.todo) /\ (y.pc = "save" <=> y.todo = <<>>) /\ y.pc \in {"save", "file"}
  BY DEF Enters
<1>5. /\ Progress(y, all)
      /\ n \in Nat /\ Len(y.results) = n + 1
      /\ y.results[n + 1] = Result(Head(x.todo), mr)
      /\ \A i \in 1 .. n : y.results[i] = x.results[i]
      /\ \A j \in 1 .. Len(y.todo) : j + 1 \in 1 .. Len(x.todo) /\ y.todo[j] = x.todo[j + 1]
  <2>1. /\ Progress(x, all) /\ x.todo # <<>> /\ Len(all) \in Nat
        /\ y.targets = x.targets /\ y.todo = Tail(x.todo)
        /\ y.results = Append(x.results, Result(Head(x.todo), mr))
        /\ (y.pc = "save" <=> y.todo = <<>>)
    BY <1>1, <1>2, <1>4
  <2>2. Progress(y, all)
    BY <2>1, NextProject
  <2>3. /\ Len(x.results) \in Nat /\ Len(y.results) = Len(x.results) + 1
        /\ y.results[Len(x.results) + 1] = Result(Head(x.todo), mr)
    BY <2>1, NextProject
  <2>4. \A i \in 1 .. Len(x.results) : y.results[i] = x.results[i]
    BY <2>1, NextProject
  <2>5. \A j \in 1 .. Len(y.todo) : j + 1 \in 1 .. Len(x.todo) /\ y.todo[j] = x.todo[j + 1]
    BY <2>1, NextProject
  <2>6. QED
    BY <2>2, <2>3, <2>4, <2>5
<1>6. ResultsIn(x.results, mrs2, docs2, k, fix.suggestion)
  BY <1>2, <1>3, ResultsKept
<1>7. ResultsIn(y.results, mrs2, docs2, k, fix.suggestion)
  <2> HIDE DEF n
  <2>1. /\ Len(x.results) \in Nat /\ Len(y.results) = Len(x.results) + 1
        /\ \A i \in 1 .. Len(x.results) : y.results[i] = x.results[i]
        /\ y.results[Len(x.results) + 1] = Result(Head(x.todo), mr)
    BY <1>5 DEF n
  <2>2. QED
    BY <2>1, <1>6, ResultsMore
<1>8. \A j \in 1 .. Len(y.todo) : Opened(mrs2, k, y.todo[j]) = {}
  <2>1. ASSUME NEW j \in 1 .. Len(y.todo) PROVE Opened(mrs2, k, y.todo[j]) = {}
    <3>1. j + 1 \in 1 .. Len(x.todo) /\ y.todo[j] = x.todo[j + 1]
      BY <1>5
    <3>2. j + 1 # 1
      OBVIOUS
    <3>3. y.todo[j] # Head(x.todo) /\ Opened(mrs, k, y.todo[j]) = {}
      BY <1>2, <1>3, <3>1, <3>2
    <3>4. QED
      BY <3>3, OpenedKept
  <2>2. QED
    BY <2>1
<1>9. ASSUME NEW tree, y.pc = "file" PROVE WorkIn(y, fix, tree)
  <2>1. y.todo # <<>>
    BY <1>4, <1>9
  <2>2. Head(y.todo) = y.todo[1] /\ 1 \in 1 .. Len(y.todo)
    BY <1>5, <2>1, AtWork
  <2>3. y.todo[1] = all[Len(y.results) + 1] /\ Len(y.results) + 1 \in 1 .. Len(all)
    BY <1>1, <1>5, <2>1, <2>2, OnceInOrder
  <2>4. FilesIn(fix, Head(y.todo)) # <<>>
    BY <1>1, <2>2, <2>3
  <2>5. /\ y.files = FilesIn(fix, Head(y.todo)) /\ y.actions = <<>> /\ y.skipped = {}
        /\ y.steady = TRUE
    BY <2>1, <1>4 DEF Enters
  <2>6. QED
    BY <1>9, <2>1, <2>4, <2>5, WorkBegins
<1>10. QED
  BY <1>4, <1>5, <1>7, <1>8, <1>9 DEF Underway, all

(***************************************************************************)
(* Steps of one request.                                                   *)
(***************************************************************************)

\* One request works; the others only find GitLab changed.
LEMMA OneWorks ==
    ASSUME MrInv, FixInv', UNCHANGED <<fixes, sug>>, NEW r \in Requests,
           req[r].pc \notin {"done", "killed"}, req'[r].pc # "unstarted",
           Stay(gitlab.mrs, gitlab'.mrs), gitlab'.mrs \in Seq(Range(gitlab'.mrs)),
           \A i \in DOMAIN gitlab.mrs : DOMAIN gitlab'.mrs[i] = MrFields,
           \A i \in DOMAIN gitlab'.mrs \ DOMAIN gitlab.mrs :
               gitlab'.mrs[i].request = r /\ MrFits(gitlab.mrs[i])',
           TreesFit', RequestFits(r)',
           \A k \in Requests \ {r} :
               SameWork(req[k], req'[k]) /\ (req'[k].steady /\ req[k].steady => TreeKept(req[k]))
    PROVE  MrInv'
<1>1. Grow
  BY LengthGrows DEF MrInv
<1>2. \A k \in Requests : req[k].pc = "done" => req'[k].pc = "done"
  BY DEF SameWork
<1>3. \A k \in Requests : req[k].pc # "unstarted" => req'[k].pc # "unstarted"
  BY DEF SameWork
<1>4. RequestsFit'
  <2>1. ASSUME NEW k \in Requests \ {r} PROVE RequestFits(k)'
    BY <1>1, RequestRests DEF Rests
  <2>2. QED
    BY <2>1 DEF RequestsFit
<1>5. DocsFit'
  <2>1. \A i \in DOMAIN gitlab'.mrs \ DOMAIN gitlab.mrs :
            gitlab'.mrs[i].request \in Requests /\ req[gitlab'.mrs[i].request].pc # "done"
    OBVIOUS
  <2>2. \A n \in 1 .. Len(fixes) : FilesOk(fixes'[n].files) /\ DocTrue(fixes'[n], gitlab'.mrs, fixes', req')
    BY <1>1, <1>2, <2>1, DocsKept
  <2>3. QED
    BY <2>2 DEF DocsFit
<1>6. MrsFit'
  <2>1. \A i \in DOMAIN gitlab.mrs : MrFits(gitlab.mrs[i])'
    BY <1>1, <1>3, MrsKept
  <2>2. QED
    BY <2>1 DEF MrsFit
<1>7. ThreadsFit'
  BY DEF MrInv, ThreadsFit
<1>8. QED
  BY <1>4, <1>5, <1>6, <1>7 DEF MrInv

\* It changes nothing in GitLab.
LEMMA Works ==
    ASSUME MrInv, FixInv', UNCHANGED <<fixes, sug, gitlab>>, NEW r \in Requests, NEW y,
           req' = [req EXCEPT ![r] = y], req[r].pc \notin {"done", "killed"}, y.pc # "unstarted",
           RequestFits(r)'
    PROVE  MrInv'
<1>1. req'[r] = y /\ \A k \in Requests \ {r} : req'[k] = req[k]
  BY DEF MrInv, FixInv, ReqInv
<1>2. \A k \in Requests \ {r} : SameWork(req[k], req'[k]) /\ TreeKept(req[k])
  BY <1>1, SameSelf DEF TreeKept
<1>3. Stay(gitlab.mrs, gitlab'.mrs) /\ gitlab'.mrs \in Seq(Range(gitlab'.mrs))
  BY MrsStay DEF MrInv, MrsFit
<1>4. \A i \in DOMAIN gitlab.mrs : DOMAIN gitlab'.mrs[i] = MrFields
  BY DEF MrInv, MrsFit, MrFits
<1>5. TreesFit'
  BY DEF MrInv, TreesFit
<1>6. QED
  BY <1>1, <1>2, <1>3, <1>4, <1>5, OneWorks

\* A request that is over fits, whatever it leaves behind.
LEMMA OverFits ==
    ASSUME NEW r, req'[r] = Ended
    PROVE  RequestFits(r)'
<1>1. Ended.pc = "done"
  BY DEF Ended, NoRequest
<1>2. req'[r].pc = "done"
  BY <1>1
<1>3. QED
  BY <1>2 DEF RequestFits, Over, Working

\* A request ends without a word to GitLab.
LEMMA OverEnds ==
    ASSUME MrInv, FixInv', UNCHANGED <<fixes, sug, gitlab>>, NEW r \in Requests,
           req' = [req EXCEPT ![r] = Ended], req[r].pc \notin {"done", "killed"}
    PROVE  MrInv'
<1>1. req'[r] = Ended
  BY DEF MrInv, FixInv, ReqInv
<1>2. RequestFits(r)' /\ Ended.pc # "unstarted"
  BY <1>1, OverFits DEF Ended, NoRequest
<1>3. QED
  BY <1>2, Works

\* The merge requests stay, one branch changes, and with it the others' history.
LEMMA SameTickets ==
    ASSUME MrInv, FixInv', UNCHANGED <<fixes, sug>>, gitlab'.mrs = gitlab.mrs, TreesFit',
           NEW r \in Requests, req[r].pc \in Working, req'[r].pc # "unstarted", RequestFits(r)',
           \A k \in Requests \ {r} :
               \/ req'[k] = req[k] /\ (req[k].steady => TreeKept(req[k]))
               \/ req'[k] = [req[k] EXCEPT !.steady = FALSE]
    PROVE  MrInv'
<1>1. \A k \in Requests \ {r} :
          SameWork(req[k], req'[k]) /\ (req'[k].steady /\ req[k].steady => TreeKept(req[k]))
  <2>1. ASSUME NEW k \in Requests \ {r}
        PROVE  SameWork(req[k], req'[k]) /\ (req'[k].steady => TreeKept(req[k]))
    <3>1. DOMAIN req[k] = DOMAIN NoRequest
      BY DEF MrInv, FixInv, ReqInv, RequestInv
    <3>2. CASE req'[k] = req[k] /\ (req[k].steady => TreeKept(req[k]))
      BY <3>2, SameSelf
    <3>3. CASE req'[k] = [req[k] EXCEPT !.steady = FALSE]
      <4>1. SameWork(req[k], req'[k])
        <5>1. SameWork(req[k], [req[k] EXCEPT !.steady = FALSE])
          BY <3>1, SameCrossed
        <5>2. QED
          BY <3>3, <5>1
      <4>2. ~ req'[k].steady
        BY <3>1, <3>3 DEF NoRequest
      <4>3. QED
        BY <4>1, <4>2
    <3>4. QED
      BY <3>2, <3>3
  <2>2. QED
    BY <2>1
<1>2. Stay(gitlab.mrs, gitlab'.mrs) /\ gitlab'.mrs \in Seq(Range(gitlab'.mrs))
  BY MrsStay DEF MrInv, MrsFit
<1>3. \A i \in DOMAIN gitlab.mrs : DOMAIN gitlab'.mrs[i] = MrFields
  BY DEF MrInv, MrsFit, MrFits
<1>4. req[r].pc \notin {"done", "killed"}
  BY DEF Working
<1>5. QED
  BY <1>1, <1>2, <1>3, <1>4, OneWorks

\* A request under way, as the other lemmas want it.
LEMMA AtHand ==
    ASSUME MrInv, NEW r \in Requests, req[r].pc \in Working \cup {"save"}
    PROVE  /\ DOMAIN req[r] = DOMAIN NoRequest /\ req[r].doc \in 1 .. Len(fixes)
           /\ FilesOk(fixes[req[r].doc].files)
           /\ Underway(r, req[r], fixes[req[r].doc], gitlab.mrs, fixes)
           /\ req[r].pc \in Working =>
                 /\ req[r].todo # <<>> /\ WorkIn(req[r], fixes[req[r].doc], gitlab.tree)
                 /\ Head(req[r].todo) \in Projects /\ target(req[r]) \in Targets \cup {FixBranch}
                 /\ Opened(gitlab.mrs, r, Head(req[r].todo)) = {}
           /\ req[r].pc \notin Over
<1> DEFINE x == req[r]
           fix == fixes[x.doc]
<1>1. x.pc \notin Over
  BY DEF Working, Over
<1>2. RequestFits(r) /\ RequestInv(x) /\ DOMAIN x = DOMAIN NoRequest
  BY DEF MrInv, FixInv, ReqInv, RequestInv, RequestsFit
<1>3. x.doc \in 1 .. Len(fixes)
  BY <1>1, <1>2 DEF RequestInv
<1>4. FilesOk(fix.files)
  BY <1>3 DEF MrInv, DocsFit
<1>5. Underway(r, x, fix, gitlab.mrs, fixes) /\ (x.pc \in Working => WorkIn(x, fix, gitlab.tree))
  BY <1>1, <1>2 DEF RequestFits
<1>6. ASSUME x.pc \in Working
      PROVE  /\ x.todo # <<>> /\ Head(x.todo) \in Projects /\ target(x) \in Targets \cup {FixBranch}
             /\ Opened(gitlab.mrs, r, Head(x.todo)) = {}
  <2>1. Progress(x, by_project(fix)) /\ \A j \in 1 .. Len(x.todo) : Opened(gitlab.mrs, r, x.todo[j]) = {}
    BY <1>5 DEF Underway
  <2>2. x.todo # <<>>
    BY <1>6, <2>1 DEF Progress, Working
  <2>3. /\ Head(x.todo) \in Projects /\ target(x) \in Targets \cup {FixBranch}
        /\ Len(x.todo) \in Nat \ {0} /\ Head(x.todo) = x.todo[1]
    BY <2>1, <2>2, AtWork
  <2>4. 1 \in 1 .. Len(x.todo)
    BY <2>3
  <2>5. QED
    BY <2>1, <2>2, <2>3, <2>4
<1>7. QED
  BY <1>1, <1>2, <1>3, <1>4, <1>5, <1>6

\* The repository in hand comes to its end without a merge request.
LEMMA NoneOpened ==
    ASSUME MrInv, FixInv', UNCHANGED <<fixes, sug, gitlab>>, NEW r \in Requests, req[r].pc \in Working,
           NEW y, DOMAIN y = DOMAIN NoRequest, y.doc = req[r].doc, y.todo = req[r].todo,
           y.targets = req[r].targets, y.results = req[r].results,
           req' = [req EXCEPT ![r] = With(y, 0)]
    PROVE  MrInv'
<1> DEFINE x == req[r]
           fix == fixes[x.doc]
           z == With(y, 0)
<1>1. /\ FilesOk(fix.files) /\ Underway(r, x, fix, gitlab.mrs, fixes) /\ x.todo # <<>>
      /\ Opened(gitlab.mrs, r, Head(x.todo)) = {}
  BY AtHand
<1>2. /\ Enters(z, Tail(x.todo), fix) /\ z.doc = x.doc /\ z.targets = x.targets
      /\ z.results = Append(x.results, Result(Head(x.todo), 0))
  BY WithIs
<1> HIDE DEF z
<1>3. /\ Underway(r, z, fix, gitlab.mrs, fixes)
      /\ z.pc \in {"save", "file"} /\ (z.pc = "file" => WorkIn(z, fix, gitlab.tree))
  <2>1. Opened(gitlab.mrs, r, Head(x.todo)) = {0} \ {0}
    BY <1>1
  <2>2. Stay(gitlab.mrs, gitlab.mrs)
    BY MrsStay
  <2>3. /\ \A i \in DOMAIN gitlab.mrs : fixes[gitlab.mrs[i].doc] = fixes[gitlab.mrs[i].doc]
        /\ \A i \in DOMAIN gitlab.mrs \ DOMAIN gitlab.mrs : gitlab.mrs[i].project = Head(x.todo)
        /\ 0 # 0 => fixes[gitlab.mrs[0].doc].suggestion = fix.suggestion
    OBVIOUS
  <2> HIDE DEF fix
  <2>4. Underway(r, z, fix, gitlab.mrs, fixes)
    BY <1>1, <1>2, <2>1, <2>2, <2>3, NextRepository
  <2>5. z.pc \in {"save", "file"}
    BY <1>2 DEF Enters
  <2>6. \A tree : z.pc = "file" => WorkIn(z, fix, tree)
    BY <1>1, <1>2, <2>1, <2>2, <2>3, NextRepository
  <2>7. QED
    BY <2>4, <2>5, <2>6
<1>4. req'[r] = z
  BY DEF MrInv, FixInv, ReqInv, z
<1>5. RequestFits(r)'
  BY <1>2, <1>3, <1>4 DEF RequestFits, Working, Over
<1>6. x.pc \notin {"done", "killed"} /\ z.pc # "unstarted"
  BY <1>3 DEF Working
<1>7. QED
  BY <1>4, <1>5, <1>6, Works DEF z

\* Within a repository, the results and what is to do stay.
LEMMA SameProgress ==
    ASSUME NEW k, NEW x, NEW y, NEW fix, NEW mrs, NEW docs, Underway(k, x, fix, mrs, docs),
           x.pc \in Working, y.pc \in Working,
           y.targets = x.targets, y.todo = x.todo, y.results = x.results
    PROVE  Underway(k, y, fix, mrs, docs)
BY DEF Underway, Progress, Working

\* A step of r within the repository in hand.
LEMMA StaysInHand ==
    ASSUME MrInv, UNCHANGED fixes, gitlab'.mrs = gitlab.mrs, NEW r \in Requests, req[r].pc \in Working,
           NEW y, y.pc \in Working, y.doc = req[r].doc, y.targets = req[r].targets,
           y.todo = req[r].todo, y.results = req[r].results, req'[r] = y,
           WorkIn(y, fixes[req[r].doc], gitlab'.tree)
    PROVE  RequestFits(r)'
<1>1. Underway(r, y, fixes[req[r].doc], gitlab.mrs, fixes)
  BY AtHand, SameProgress
<1>2. y.pc # "unstarted"
  BY DEF Working
<1>3. QED
  BY <1>1, <1>2 DEF RequestFits

\* The request begins: no merge request is of it, the first repository is entered.
LEMMA RaisesFits ==
    ASSUME MrInv, FixInv', NEW r \in Requests, raise_mr(r) PROVE MrInv'
<1> DEFINE fix == fixes[row.bot_fix]
           all == by_project(fix)
<1>1. /\ row.bot_fix # 0 /\ all # <<>> /\ UNCHANGED <<fixes, sug, gitlab>>
      /\ Started(req) = 1 .. (r - 1)
  BY DEF raise_mr, FirstFree
<1>2. PICK targets \in Bodies :
          req' = [req EXCEPT ![r] = InProject([NoRequest EXCEPT !.doc = row.bot_fix,
                                                               !.targets = targets], all, fix)]
  BY DEF raise_mr
<1> DEFINE x == [NoRequest EXCEPT !.doc = row.bot_fix, !.targets = targets]
           y == InProject(x, all, fix)
<1>3. DOMAIN x = DOMAIN NoRequest /\ x.doc = row.bot_fix /\ x.targets = targets /\ x.results = <<>>
  BY DEF NoRequest
<1>4. req' = [req EXCEPT ![r] = y]
  BY <1>2
<1> HIDE DEF x
<1>5. /\ Enters(y, all, fix) /\ y.doc = row.bot_fix /\ y.targets = targets /\ y.results = <<>>
  BY <1>3, InProjectIs
<1> HIDE DEF y
<1>6. row.bot_fix \in 1 .. Len(fixes)
  BY <1>1 DEF MrInv, FixInv, RowInv, Current
<1>7. FilesOk(fix.files)
  BY <1>6 DEF MrInv, DocsFit
<1>8. /\ y.pc = "file" /\ y.todo = all /\ y.files = FilesIn(fix, Head(all)) /\ y.actions = <<>>
      /\ y.skipped = {} /\ y.steady = TRUE
  BY <1>1, <1>5 DEF Enters
<1>9. Progress(y, all)
  BY <1>1, <1>5, <1>7, <1>8, FirstProject
<1>10. FilesIn(fix, Head(all)) # <<>>
  <2>1. DOMAIN all = 1 .. Len(all) /\ \A k \in DOMAIN all : FilesIn(fix, all[k]) # <<>>
    BY <1>7, ProjectsAre
  <2> HIDE DEF all
  <2>2. Len(all) \in Nat \ {0} /\ Head(all) = all[1]
    BY <1>1, <1>8, <1>9, AtWork
  <2>3. 1 \in DOMAIN all
    BY <2>1, <2>2
  <2>4. QED
    BY <2>1, <2>2, <2>3
<1>11. req[r].pc = "unstarted" /\ req'[r] = y
  <2>1. DOMAIN req = Requests /\ r \notin 1 .. (r - 1)
    BY DEF MrInv, FixInv, ReqInv, Requests
  <2>2. QED
    BY <1>1, <1>4, <2>1 DEF Started
<1>12. \A p : Opened(gitlab.mrs, r, p) = {}
  BY <1>11 DEF MrInv, RequestsFit, RequestFits, Opened
<1>13. ResultsIn(y.results, gitlab.mrs, fixes, r, fix.suggestion)
  <2>1. Len(y.results) = 0
    BY <1>5, EmptySeq
  <2>2. QED
    BY <2>1 DEF ResultsIn
<1>14. Underway(r, y, fix, gitlab.mrs, fixes)
  BY <1>9, <1>12, <1>13 DEF Underway
<1>15. WorkIn(y, fix, gitlab.tree)
  <2> HIDE DEF fix, all
  <2>1. QED
    BY <1>1, <1>7, <1>8, <1>10, WorkBegins
<1>16. RequestFits(r)'
  BY <1>1, <1>5, <1>8, <1>11, <1>14, <1>15 DEF RequestFits, Working, Over
<1>17. QED
  BY <1>1, <1>4, <1>8, <1>11, <1>16, Works

\* After a file, with what x has come to in z.
LEMMA FileDone ==
    ASSUME MrInv, FixInv', UNCHANGED <<fixes, sug, gitlab>>, NEW r \in Requests, req[r].pc = "file",
           NEW z, DOMAIN z = DOMAIN NoRequest, z.pc = "file", z.doc = req[r].doc,
           z.targets = req[r].targets, z.todo = req[r].todo, z.results = req[r].results,
           z.steady => req[r].steady,
           \/ z.actions = req[r].actions /\ z.skipped = req[r].skipped \cup {Head(req[r].files).file}
           \/ /\ z.actions = Put(req[r].actions, Head(req[r].files).file,
                                 _reapply(CurrentText(req[r]), Applied(Head(req[r].files))))
              /\ z.skipped = req[r].skipped,
           req' = [req EXCEPT ![r] = IF Len(req[r].files) > 1 THEN [z EXCEPT !.files = Tail(req[r].files)]
                                     ELSE IF z.actions = <<>> THEN With(z, 0)
                                     ELSE [z EXCEPT !.files = <<>>, !.pc = "branch"]]
    PROVE  MrInv'
<1> DEFINE x == req[r]
           fix == fixes[x.doc]
           k == Len(x.files)
<1>1. x.pc \in Working /\ x.pc \notin {"done", "killed"}
  BY DEF Working
<1>2. FilesOk(fix.files) /\ WorkIn(x, fix, gitlab.tree)
  BY <1>1, AtHand
<1>3. k \in Nat \ {0} /\ (k = 1 => Tail(x.files) = <<>>)
  <2>1. x.files \in Seq(Range(FilesIn(fix, Head(x.todo)))) /\ x.files # <<>>
    BY <1>2 DEF WorkIn, Left
  <2>2. k \in Nat \ {0}
    BY <2>1, EmptySeq
  <2> DEFINE t == Tail(x.files)
             S == Range(FilesIn(fix, Head(x.todo)))
  <2>3. t \in Seq(S) /\ Len(t) = k - 1
    BY <2>1, HeadTailProperties
  <2> HIDE DEF t, S, k
  <2>4. k = 1 => t = <<>>
    <3>1. k = 1 => Len(t) = 0
      BY <2>3
    <3>2. QED
      BY <2>3, <3>1, EmptySeq
  <2>5. QED
    BY <2>2, <2>4 DEF t, k
<1>4. CASE k = 1 /\ z.actions = <<>>
  <2>1. req' = [req EXCEPT ![r] = With(z, 0)]
    BY <1>4
  <2>2. QED
    BY <1>1, <2>1, NoneOpened
<1>5. CASE k > 1 \/ z.actions # <<>>
  <2> DEFINE y == IF k > 1 THEN [z EXCEPT !.files = Tail(x.files)]
                  ELSE [z EXCEPT !.files = <<>>, !.pc = "branch"]
  <2>1. req' = [req EXCEPT ![r] = y]
    BY <1>5
  <2>2. /\ y.doc = x.doc /\ y.targets = x.targets /\ y.todo = x.todo /\ y.results = x.results
        /\ (y.steady => x.steady) /\ y.actions = z.actions /\ y.skipped = z.skipped
        /\ y.files = Tail(x.files) /\ y.pc = IF k > 1 THEN "file" ELSE "branch"
    <3>1. CASE k > 1
      BY <3>1 DEF NoRequest
    <3>2. CASE ~ (k > 1)
      <4>1. Tail(x.files) = <<>>
        BY <1>3, <3>2
      <4>2. QED
        BY <3>2, <4>1 DEF NoRequest
    <3>3. QED
      BY <3>1, <3>2
  <2> HIDE DEF y
  <2>3. y.pc # "file" => y.actions # <<>>
    BY <1>5, <2>2
  <2>4. \/ y.actions = x.actions /\ y.skipped = x.skipped \cup {Head(x.files).file}
        \/ /\ y.actions = Put(x.actions, Head(x.files).file,
                              _reapply(gitlab.tree[Head(x.todo)][target(x)][Head(x.files).file],
                                       Applied(Head(x.files))))
           /\ y.skipped = x.skipped
    BY <2>2 DEF CurrentText
  <2> HIDE DEF fix
  <2>5. WorkIn(y, fix, gitlab.tree)
    BY <1>2, <2>2, <2>3, <2>4, FileHandled
  <2>6. y.pc \in Working /\ y.pc # "unstarted"
    BY <2>2 DEF Working
  <2>7. req'[r] = y
    BY <2>1 DEF MrInv, FixInv, ReqInv
  <2>8. RequestFits(r)'
    BY <1>1, <2>2, <2>5, <2>6, <2>7, StaysInHand DEF fix
  <2>9. QED
    BY <1>1, <2>1, <2>6, <2>8, Works
<1>6. k > 1 \/ k = 1
  <2> HIDE DEF k
  <2>1. QED
    BY <1>3
<1> HIDE DEF k
<1>7. QED
  BY <1>4, <1>5, <1>6

\* A file is skipped or edited.
LEMMA ReadsFileFits ==
    ASSUME MrInv, FixInv', NEW r \in Requests, ReadsFile(r) PROVE MrInv'
<1> DEFINE x == req[r]
           f == Head(x.files)
           Goes(y) == IF Len(x.files) > 1 THEN [y EXCEPT !.files = Tail(x.files)]
                      ELSE IF y.actions = <<>> THEN With(y, 0)
                      ELSE [y EXCEPT !.files = <<>>, !.pc = "branch"]
           skipped == [x EXCEPT !.skipped = @ \cup {f.file}]
           new == _reapply(CurrentText(x), Applied(f))
           edited == [x EXCEPT !.actions = Put(@, f.file, new)]
<1>1. x.pc = "file" /\ DOMAIN x = DOMAIN NoRequest /\ UNCHANGED <<fixes, sug, gitlab>>
  BY DEF ReadsFile, MrInv, FixInv, ReqInv, RequestInv
<1>2. \/ req' = [req EXCEPT ![r] = Goes(skipped)]
      \/ req' = [req EXCEPT ![r] = Goes(edited)]
  BY DEF ReadsFile
<1>3. /\ DOMAIN skipped = DOMAIN NoRequest /\ skipped.pc = "file" /\ skipped.doc = x.doc
      /\ skipped.targets = x.targets /\ skipped.todo = x.todo /\ skipped.results = x.results
      /\ (skipped.steady => x.steady) /\ skipped.actions = x.actions
      /\ skipped.skipped = x.skipped \cup {f.file}
  BY <1>1 DEF NoRequest
<1>4. /\ DOMAIN edited = DOMAIN NoRequest /\ edited.pc = "file" /\ edited.doc = x.doc
      /\ edited.targets = x.targets /\ edited.todo = x.todo /\ edited.results = x.results
      /\ (edited.steady => x.steady) /\ edited.actions = Put(x.actions, f.file, new)
      /\ edited.skipped = x.skipped
  BY <1>1 DEF NoRequest
<1> HIDE DEF skipped, edited
<1>5. CASE req' = [req EXCEPT ![r] = Goes(skipped)]
  BY <1>1, <1>3, <1>5, FileDone
<1>6. CASE req' = [req EXCEPT ![r] = Goes(edited)]
  BY <1>1, <1>4, <1>6, FileDone
<1>7. QED
  BY <1>2, <1>5, <1>6

(***************************************************************************)
(* The calls to GitLab.                                                    *)
(***************************************************************************)

\* One branch changes in GitLab.
LEMMA TreeChanged ==
    ASSUME MrInv, NEW p \in Projects, NEW b \in Targets \cup {FixBranch}, NEW t,
           gitlab' = [gitlab EXCEPT !.tree[p][b] = t],
           DOMAIN t \subseteq Files
    PROVE  /\ gitlab'.mrs = gitlab.mrs /\ gitlab'.tree[p][b] = t /\ TreesFit'
           /\ \A q, c : (q # p \/ c # b) => gitlab'.tree[q][c] = gitlab.tree[q][c]
<1>1. /\ DOMAIN gitlab = {"tree", "mrs"} /\ DOMAIN gitlab.tree = Projects
      /\ \A q \in Projects : DOMAIN gitlab.tree[q] = Targets \cup {FixBranch}
  BY DEF MrInv, TreesFit
<1>2. /\ gitlab'.mrs = gitlab.mrs /\ DOMAIN gitlab' = {"tree", "mrs"}
      /\ gitlab'.tree = [gitlab.tree EXCEPT ![p] = [gitlab.tree[p] EXCEPT ![b] = t]]
  BY <1>1
<1>3. /\ gitlab'.tree[p][b] = t
      /\ \A q \in Projects : DOMAIN gitlab'.tree[q] = Targets \cup {FixBranch}
      /\ DOMAIN gitlab'.tree = Projects
  BY <1>1, <1>2
<1>4. \A q, c : (q # p \/ c # b) => gitlab'.tree[q][c] = gitlab.tree[q][c]
  <2>1. ASSUME NEW q, NEW c, q # p \/ c # b PROVE gitlab'.tree[q][c] = gitlab.tree[q][c]
    <3>1. CASE q # p
      BY <1>2, <3>1
    <3>2. CASE q = p /\ c # b
      BY <1>1, <1>2, <3>2
    <3>3. QED
      BY <2>1, <3>1, <3>2
  <2>2. QED
    BY <2>1
<1>5. TreesFit'
  <2>1. \A q \in Projects, c \in Targets \cup {FixBranch} : DOMAIN gitlab'.tree[q][c] \subseteq Files
    BY <1>3, <1>4 DEF MrInv, TreesFit
  <2>2. QED
    BY <1>2, <1>3, <2>1 DEF TreesFit
<1>6. QED
  BY <1>2, <1>3, <1>4, <1>5

\* A request that goes on as steady does not use the branch that changes.
LEMMA OthersAreTold ==
    ASSUME NEW p, NEW b, NEW k \in Requests,
           \A q, c : (q # p \/ c # b) => gitlab'.tree[q][c] = gitlab.tree[q][c]
    PROVE  \/ Unsettled(p, b)[k] = req[k] /\ (req[k].steady => TreeKept(req[k]))
           \/ Unsettled(p, b)[k] = [req[k] EXCEPT !.steady = FALSE]
<1>1. CASE Uses(req[k], p, b)
  BY <1>1 DEF Unsettled
<1>2. CASE ~ Uses(req[k], p, b)
  <2>1. TreeKept(req[k])
    BY <1>2 DEF TreeKept, Uses
  <2>2. QED
    BY <1>2, <2>1 DEF Unsettled
<1>3. QED
  BY <1>1, <1>2

\* The branch is cut, which unsettles who uses it, or was there.
LEMMA CutsBranchFits ==
    ASSUME MrInv, FixInv', NEW r \in Requests, CutsBranch(r) PROVE MrInv'
<1> DEFINE x == req[r]
           fix == fixes[x.doc]
           project == Head(x.todo)
           base == gitlab.tree[project][target(x)]
<1>1. x.pc = "branch" /\ UNCHANGED <<fixes, sug>> /\ x.pc \in Working
  BY DEF CutsBranch, Working
<1>2. /\ DOMAIN x = DOMAIN NoRequest /\ WorkIn(x, fix, gitlab.tree)
      /\ project \in Projects /\ target(x) \in Targets \cup {FixBranch}
  BY <1>1, AtHand
<1>3. DOMAIN base \subseteq Files
  BY <1>2 DEF MrInv, TreesFit
<1>4. CASE gitlab.tree[project][FixBranch] # Absent
  <2> DEFINE y == [x EXCEPT !.pc = "commit", !.steady = FALSE]
  <2>1. UNCHANGED gitlab /\ (req' = [req EXCEPT ![r] = y] \/ req' = [req EXCEPT ![r] = Ended])
    BY <1>4 DEF CutsBranch, Answers
  <2>2. /\ y.pc = "commit" /\ y.steady = FALSE /\ y.doc = x.doc /\ y.targets = x.targets
        /\ y.todo = x.todo /\ y.files = x.files /\ y.actions = x.actions /\ y.skipped = x.skipped
        /\ y.results = x.results
    BY <1>2 DEF NoRequest
  <2> HIDE DEF y
  <2>3. CASE req' = [req EXCEPT ![r] = y]
    <3>1. WorkIn(y, fix, gitlab.tree)
      <4> HIDE DEF fix
      <4>1. QED
        BY <1>1, <1>2, <2>2, BranchCut
    <3>2. y.pc \in Working /\ y.pc # "unstarted"
      BY <2>2 DEF Working
    <3>3. req'[r] = y
      BY <2>3 DEF MrInv, FixInv, ReqInv
    <3>4. RequestFits(r)'
      BY <1>1, <2>1, <2>2, <3>1, <3>2, <3>3, StaysInHand
    <3>5. QED
      BY <1>1, <2>1, <2>3, <3>2, <3>4, Works
  <2>4. CASE req' = [req EXCEPT ![r] = Ended]
    BY <1>1, <2>1, <2>4, OverEnds
  <2>5. QED
    BY <2>1, <2>3, <2>4
<1>5. CASE gitlab.tree[project][FixBranch] = Absent
  <2> DEFINE y == [x EXCEPT !.pc = "commit", !.base = base]
  <2>1. PICK z \in {y, Ended} :
            /\ gitlab' = [gitlab EXCEPT !.tree[project][FixBranch] = base]
            /\ req' = [Unsettled(project, FixBranch) EXCEPT ![r] = z]
    BY <1>5 DEF CutsBranch, Answers
  <2>2. /\ y.pc = "commit" /\ (y.steady => x.steady) /\ y.doc = x.doc /\ y.targets = x.targets
        /\ y.todo = x.todo /\ y.files = x.files /\ y.actions = x.actions /\ y.skipped = x.skipped
        /\ y.results = x.results /\ y.base = base
    BY <1>2 DEF NoRequest
  <2> HIDE DEF y, base
  <2>3. /\ gitlab'.mrs = gitlab.mrs /\ gitlab'.tree[project][FixBranch] = base /\ TreesFit'
        /\ \A q, c : (q # project \/ c # FixBranch) => gitlab'.tree[q][c] = gitlab.tree[q][c]
    BY <1>2, <1>3, <2>1, TreeChanged
  <2>4. ASSUME NEW k \in Requests \ {r}
        PROVE  \/ req'[k] = req[k] /\ (req[k].steady => TreeKept(req[k]))
               \/ req'[k] = [req[k] EXCEPT !.steady = FALSE]
    <3>1. req'[k] = Unsettled(project, FixBranch)[k]
      BY <2>1 DEF Unsettled
    <3>2. QED
      BY <2>3, <3>1, OthersAreTold
  <2>5. req'[r] \in {y, Ended}
    BY <2>1 DEF Unsettled
  <2>6. CASE req'[r] = y
    <3>1. WorkIn(y, fix, gitlab'.tree)
      <4>1. y.steady => /\ x.steady
                        /\ y.base = gitlab.tree[Head(x.todo)][target(x)]
                        /\ gitlab'.tree[Head(x.todo)][FixBranch] = y.base
        BY <2>2, <2>3 DEF base
      <4> HIDE DEF fix
      <4>2. QED
        BY <1>1, <1>2, <2>2, <4>1, BranchCut
    <3>2. y.pc \in Working /\ y.pc # "unstarted"
      BY <2>2 DEF Working
    <3>3. RequestFits(r)'
      BY <1>1, <2>2, <2>3, <2>6, <3>1, <3>2, StaysInHand
    <3>4. QED
      BY <1>1, <2>3, <2>4, <2>6, <3>2, <3>3, SameTickets
  <2>7. CASE req'[r] = Ended
    <3>1. RequestFits(r)' /\ req'[r].pc # "unstarted"
      BY <2>7, OverFits DEF Ended, NoRequest
    <3>2. QED
      BY <1>1, <2>3, <2>4, <3>1, SameTickets
  <2>8. QED
    BY <2>5, <2>6, <2>7
<1>6. QED
  BY <1>4, <1>5

\* The commit puts the edits on the branch, and unsettles who else uses it.
LEMMA CommitsFits ==
    ASSUME MrInv, FixInv', NEW r \in Requests, Commits(r) PROVE MrInv'
<1> DEFINE x == req[r]
           fix == fixes[x.doc]
           project == Head(x.todo)
           t == Updated(gitlab.tree[project][FixBranch], x.actions)
           y == [x EXCEPT !.pc = "open"]
<1>1. x.pc = "commit" /\ UNCHANGED <<fixes, sug>> /\ x.pc \in Working
  BY DEF Commits, Working
<1>2. /\ DOMAIN x = DOMAIN NoRequest /\ WorkIn(x, fix, gitlab.tree) /\ project \in Projects
  BY <1>1, AtHand
<1>3. PICK z \in {y, Ended} : req' = [Unsettled(project, FixBranch) EXCEPT ![r] = z]
  BY DEF Commits, Answers
<1>4. gitlab' = [gitlab EXCEPT !.tree[project][FixBranch] = t]
  <2>1. gitlab' = [gitlab EXCEPT !.tree[project][FixBranch] = Updated(@, x.actions)]
    BY DEF Commits
  <2>2. DOMAIN gitlab = {"tree", "mrs"} /\ DOMAIN gitlab.tree = Projects
    BY DEF MrInv, TreesFit
  <2>3. QED
    BY <1>2, <2>1, <2>2
<1>5. DOMAIN t \subseteq Files
  BY <1>2 DEF MrInv, TreesFit, Updated
<1>6. /\ y.pc = "open" /\ (y.steady => x.steady) /\ y.doc = x.doc /\ y.targets = x.targets
      /\ y.todo = x.todo /\ y.files = x.files /\ y.actions = x.actions /\ y.skipped = x.skipped
      /\ y.results = x.results /\ y.base = x.base
  BY <1>2 DEF NoRequest
<1> HIDE DEF y, t
<1>7. /\ gitlab'.mrs = gitlab.mrs /\ gitlab'.tree[project][FixBranch] = t /\ TreesFit'
      /\ \A q, c : (q # project \/ c # FixBranch) => gitlab'.tree[q][c] = gitlab.tree[q][c]
  BY <1>2, <1>4, <1>5, TreeChanged
<1>8. ASSUME NEW k \in Requests \ {r}
      PROVE  \/ req'[k] = req[k] /\ (req[k].steady => TreeKept(req[k]))
             \/ req'[k] = [req[k] EXCEPT !.steady = FALSE]
  <2>1. req'[k] = Unsettled(project, FixBranch)[k]
    BY <1>3 DEF Unsettled
  <2>2. QED
    BY <1>7, <2>1, OthersAreTold
<1>9. req'[r] = z
  BY <1>3 DEF Unsettled
<1>10. RequestFits(r)' /\ req'[r].pc # "unstarted"
  <2>1. CASE z = y
    <3>1. WorkIn(y, fix, gitlab'.tree)
      <4>1. gitlab'.tree[Head(x.todo)][FixBranch] = Updated(gitlab.tree[Head(x.todo)][FixBranch], x.actions)
        BY <1>7 DEF t
      <4> HIDE DEF fix
      <4>2. QED
        BY <1>1, <1>2, <1>6, <4>1, BranchCommitted
    <3>2. y.pc \in Working /\ y.pc # "unstarted"
      BY <1>6 DEF Working
    <3>3. QED
      BY <1>1, <1>6, <1>7, <1>9, <2>1, <3>1, <3>2, StaysInHand
  <2>2. CASE z = Ended
    BY <1>9, <2>2, OverFits DEF Ended, NoRequest
  <2>3. QED
    BY <2>1, <2>2
<1>11. QED
  BY <1>1, <1>7, <1>8, <1>10, SameTickets

\* What a branch that nobody interfered with brings is the reviewed diff.
LEMMA OpenedDiff ==
    ASSUME NEW fix, FilesOk(fix.files), NEW x, NEW tree, WorkIn(x, fix, tree), x.pc = "open",
           NEW mr, mr.project = Head(x.todo), mr.skipped = x.skipped, mr.base = x.base,
           mr.head = tree[Head(x.todo)][FixBranch], mr.steady => x.steady
    PROVE  ReviewedDiff(mr, fix)
<1> DEFINE F == FilesIn(fix, Head(x.todo))
<1>a. mr.steady => DOMAIN mr.head = DOMAIN mr.base
  BY DEF WorkIn, Undisturbed, Updated
<1> SUFFICES ASSUME mr.steady, NEW f \in DOMAIN mr.base
             PROVE  LET own == {y \in Range(FilesIn(fix, mr.project)) : y.file = f}
                    IN  IF own = {} \/ f \in mr.skipped THEN mr.head[f] = mr.base[f]
                        ELSE \A y \in own :
                                /\ mr.head[f] = _reapply(mr.base[f], Applied(y))
                                /\ mr.base[f] = y.old => mr.head[f] = y.new
  BY <1>a DEF ReviewedDiff
<1> DEFINE own == {y \in Range(F) : y.file = f}
<1>1. /\ Len(F) \in Nat /\ DOMAIN F = 1 .. Len(F)
      /\ \A k \in DOMAIN F : F[k].new = _reapply(F[k].old, Applied(F[k]))
  BY FilesInAre
<1>2. /\ Left(x, F) /\ Handled(x, F) /\ Undisturbed(x, F, tree)
  BY DEF WorkIn
<1> HIDE DEF F
<1>3. Seen(x, F) = {F[i].file : i \in 1 .. Len(F)}
  <2>1. Len(x.files) = 0
    BY <1>2, EmptySeq DEF Left
  <2>2. Len(F) - Len(x.files) = Len(F)
    BY <1>1, <2>1
  <2>3. QED
    BY <2>2 DEF Seen
<1>4. /\ Edited(x, F, x.base) /\ mr.head = Updated(x.base, x.actions)
  BY <1>2 DEF Undisturbed
<1>5. mr.head[f] = IF f \in DOMAIN x.actions THEN x.actions[f] ELSE x.base[f]
  BY <1>4 DEF Updated
<1>6. DOMAIN x.actions \cap x.skipped = {} /\ DOMAIN x.actions \cup x.skipped = Seen(x, F)
  BY <1>2 DEF Handled
<1>7. CASE own = {}
  <2>1. \A i \in 1 .. Len(F) : F[i] \in Range(F)
    BY <1>1 DEF Range
  <2>2. f \notin Seen(x, F)
    BY <1>3, <1>7, <2>1
  <2>3. f \notin DOMAIN x.actions
    BY <1>6, <2>2
  <2>4. mr.head[f] = mr.base[f]
    BY <1>5, <2>3
  <2>5. QED
    BY <1>7, <2>4 DEF F
<1>8. CASE f \in x.skipped
  BY <1>5, <1>6, <1>8
<1>9. CASE own # {} /\ f \notin x.skipped
  <2>1. ASSUME NEW y \in own
        PROVE  /\ mr.head[f] = _reapply(mr.base[f], Applied(y))
               /\ mr.base[f] = y.old => mr.head[f] = y.new
    <3>1. PICK i \in 1 .. Len(F) : y = F[i] /\ F[i].file = f
      BY <1>1 DEF Range
    <3>2. f \in DOMAIN x.actions
      BY <1>3, <1>6, <1>9, <3>1
    <3>3. x.actions[f] = _reapply(x.base[f], Applied(y))
      BY <1>4, <3>1, <3>2 DEF Edited
    <3>4. y.new = _reapply(y.old, Applied(y))
      BY <1>1, <3>1
    <3>5. mr.head[f] = _reapply(mr.base[f], Applied(y))
      BY <1>5, <3>2, <3>3
    <3>6. QED
      BY <3>4, <3>5
  <2>2. QED
    BY <1>9, <2>1 DEF F
<1>10. QED
  BY <1>7, <1>8, <1>9

\* A merge request of this request, of its suggestion, with the reviewed diff.
LEMMA OpensMrFits ==
    ASSUME MrInv, FixInv', NEW r \in Requests, OpensMr(r) PROVE MrInv'
<1> DEFINE x == req[r]
           fix == fixes[x.doc]
           project == Head(x.todo)
           mrs == gitlab.mrs
           n == Len(mrs) + 1
           m == [project |-> project, target |-> target(x), open |-> TRUE,
                 request |-> r, doc |-> x.doc, skipped |-> x.skipped,
                 base |-> x.base, head |-> gitlab.tree[project][FixBranch], steady |-> x.steady]
           y == With(x, n)
<1>1. /\ x.pc = "open" /\ UNCHANGED <<fixes, sug>> /\ x.pc \in Working
      /\ req' = [req EXCEPT ![r] = y] \/ req' = [req EXCEPT ![r] = Ended]
  BY DEF OpensMr, Answers, Working
<1>2. /\ DOMAIN x = DOMAIN NoRequest /\ x.doc \in 1 .. Len(fixes) /\ FilesOk(fix.files)
      /\ Underway(r, x, fix, mrs, fixes) /\ x.todo # <<>> /\ WorkIn(x, fix, gitlab.tree)
      /\ project \in Projects /\ Opened(mrs, r, project) = {}
  BY <1>1, AtHand
<1>3. gitlab' = [gitlab EXCEPT !.mrs = Append(@, m)]
  BY DEF OpensMr
<1>4. /\ gitlab'.mrs = Append(mrs, m) /\ gitlab'.tree = gitlab.tree /\ TreesFit'
  BY <1>3 DEF MrInv, TreesFit
<1>5. /\ DOMAIN m = MrFields /\ m.project = project /\ m.request = r /\ m.doc = x.doc
      /\ m.skipped = x.skipped /\ m.base = x.base /\ m.head = gitlab.tree[project][FixBranch]
      /\ (m.steady => x.steady)
  BY DEF MrFields
<1>6. mrs \in Seq(Range(mrs))
  BY DEF MrInv, MrsFit
<1> HIDE DEF m
<1>7. /\ gitlab'.mrs \in Seq(Range(mrs) \cup {m}) /\ Len(gitlab'.mrs) = Len(mrs) + 1
      /\ gitlab'.mrs[n] = m /\ \A i \in 1 .. Len(mrs) : gitlab'.mrs[i] = mrs[i]
  BY <1>4, <1>6, AppendsOne
<1>8. gitlab'.mrs \in Seq(Range(gitlab'.mrs))
  BY <1>7, SeqOfRange
<1>9. /\ Len(mrs) \in Nat /\ DOMAIN mrs = 1 .. Len(mrs) /\ DOMAIN gitlab'.mrs = 1 .. n
  BY <1>6, <1>7, <1>8, LenProperties
<1>10. /\ DOMAIN mrs \subseteq DOMAIN gitlab'.mrs /\ DOMAIN gitlab'.mrs \ DOMAIN mrs = {n} /\ n # 0
       /\ n \in DOMAIN gitlab'.mrs
  BY <1>9
<1> HIDE DEF mrs, n
<1>11. Stay(mrs, gitlab'.mrs)
  BY <1>7, <1>9, <1>10 DEF Stay, SameMr
<1>12. \A i \in DOMAIN mrs : DOMAIN gitlab'.mrs[i] = MrFields
  BY <1>7, <1>9 DEF MrInv, MrsFit, MrFits, mrs
<1>13. Opened(gitlab'.mrs, r, project) = {n} \ {0}
  <2>1. \A i \in DOMAIN mrs : ~ (gitlab'.mrs[i].request = r /\ gitlab'.mrs[i].project = project)
    BY <1>2, <1>7, <1>9 DEF Opened
  <2>2. gitlab'.mrs[n].request = r /\ gitlab'.mrs[n].project = project
    BY <1>5, <1>7
  <2>3. Opened(gitlab'.mrs, r, project) = {n}
    BY <1>10, <2>1, <2>2 DEF Opened
  <2>4. QED
    BY <1>10, <2>3
<1>14. req'[r] \in {y, Ended} /\ \A k \in Requests \ {r} : req'[k] = req[k]
  BY <1>1 DEF MrInv, FixInv, ReqInv
<1>15. RequestFits(r)' /\ req'[r].pc # "unstarted"
  <2>1. CASE req'[r] = y
    <3>1. /\ Enters(y, Tail(x.todo), fix) /\ y.doc = x.doc /\ y.targets = x.targets
          /\ y.results = Append(x.results, Result(project, n))
      BY <1>2, WithIs
    <3> HIDE DEF y
    <3>2. /\ \A i \in DOMAIN mrs : fixes[mrs[i].doc] = fixes[mrs[i].doc]
          /\ \A i \in DOMAIN gitlab'.mrs \ DOMAIN mrs : gitlab'.mrs[i].project = project
          /\ n # 0 => fixes[gitlab'.mrs[n].doc].suggestion = fix.suggestion
      BY <1>5, <1>7, <1>10
    <3> HIDE DEF fix
    <3>3. Underway(r, y, fix, gitlab'.mrs, fixes)
      BY <1>2, <1>11, <1>13, <3>1, <3>2, NextRepository
    <3>4. \A tree : y.pc = "file" => WorkIn(y, fix, tree)
      BY <1>2, <1>11, <1>13, <3>1, <3>2, NextRepository
    <3>5. y.pc \in {"save", "file"}
      BY <3>1 DEF Enters
    <3>6. QED
      BY <1>1, <2>1, <3>1, <3>3, <3>4, <3>5 DEF RequestFits, Working, Over, fix
  <2>2. CASE req'[r] = Ended
    BY <2>2, OverFits DEF Ended, NoRequest
  <2>3. QED
    BY <1>14, <2>1, <2>2
<1>16. ReviewedDiff(m, fix)
  <2> HIDE DEF fix
  <2>1. QED
    BY <1>1, <1>2, <1>5, OpenedDiff
<1>17. ASSUME NEW i \in DOMAIN gitlab'.mrs \ DOMAIN gitlab.mrs
       PROVE  gitlab'.mrs[i].request = r /\ MrFits(gitlab.mrs[i])'
  <2>1. i = n
    BY <1>10 DEF mrs
  <2>2. gitlab'.mrs[i] = m
    BY <1>7, <2>1
  <2>3. fixes'[m.doc] = fix /\ m.doc \in 1 .. Len(fixes')
    BY <1>1, <1>2, <1>5
  <2>4. MrFits(gitlab.mrs[i])'
    BY <1>2, <1>5, <1>15, <1>16, <2>2, <2>3 DEF MrFits
  <2>5. QED
    BY <1>5, <2>2, <2>4
<1>18. \A k \in Requests \ {r} :
           SameWork(req[k], req'[k]) /\ (req'[k].steady /\ req[k].steady => TreeKept(req[k]))
  BY <1>4, <1>14, SameSelf DEF TreeKept
<1>19. x.pc \notin {"done", "killed"}
  BY <1>1
<1>20. QED
  BY <1>1, <1>4, <1>8, <1>11, <1>12, <1>15, <1>17, <1>18, <1>19, OneWorks DEF mrs

\* The results are stored with the fix: of every repository, in order.
LEMMA SavesMrFits ==
    ASSUME MrInv, FixInv', NEW r \in Requests, SavesMr(r) PROVE MrInv'
<1> DEFINE x == req[r]
           fix == fixes[x.doc]
           d == [fix EXCEPT !.request = r, !.results = x.results, !.crossed = @ \/ x.crossed]
<1>1. /\ x.pc = "save" /\ fixes' = Append(fixes, d) /\ UNCHANGED <<sug, gitlab>>
      /\ req' = [req EXCEPT ![r] = Ended]
  BY DEF SavesMr
<1>2. /\ x.doc \in 1 .. Len(fixes) /\ FilesOk(fix.files) /\ x.pc \notin Over
      /\ Underway(r, x, fix, gitlab.mrs, fixes)
  BY <1>1, AtHand
<1>3. DOMAIN fix = DocFields
  BY <1>2 DEF MrInv, FixInv, DocsInv
<1>4. /\ DOMAIN d = DocFields /\ d.files = fix.files /\ d.request = r /\ d.results = x.results
      /\ d.suggestion = fix.suggestion
  BY <1>3 DEF DocFields
<1> HIDE DEF d
<1>5. /\ Len(fixes) \in Nat /\ Len(fixes') = Len(fixes) + 1 /\ fixes'[Len(fixes) + 1] = d
      /\ \A k \in 1 .. Len(fixes) : fixes'[k] = fixes[k]
  BY <1>1, <1>4, Appended DEF MrInv, FixInv
<1>6. Grow
  BY <1>5 DEF Grow
<1>7. req'[r] = Ended /\ Ended.pc = "done" /\ \A k \in Requests \ {r} : req'[k] = req[k]
  BY <1>1 DEF MrInv, FixInv, ReqInv, Ended, NoRequest
<1>8. DocTrue(d, gitlab'.mrs, fixes', req')
  <2>1. by_project(d) = by_project(fix)
    BY <1>4, SameFiles
  <2> DEFINE all == by_project(fix)
             results == x.results
  <2>2. /\ results \in Seq(Range(results)) /\ Len(results) + Len(x.todo) = Len(all)
        /\ \A i \in 1 .. Len(results) : results[i].project = all[i]
        /\ x.todo = <<>>
    BY <1>1, <1>2 DEF Underway, Progress
  <2>3. Len(all) \in Nat /\ DOMAIN all = 1 .. Len(all) /\ all \in Seq(Projects)
    BY <1>2, ProjectsAre
  <2> HIDE DEF all
  <2>4. Len(x.todo) = 0
    BY <2>2, EmptySeq
  <2>5. Len(results) \in Nat /\ DOMAIN results = 1 .. Len(results)
    BY <2>2, LenProperties
  <2>6. Len(results) = Len(all)
    BY <2>2, <2>3, <2>4, <2>5
  <2>7. [i \in DOMAIN results |-> results[i].project] = all
    <3> DEFINE p == [i \in DOMAIN results |-> results[i].project]
    <3>1. DOMAIN p = DOMAIN all /\ \A i \in DOMAIN all : p[i] = all[i]
      BY <2>2, <2>3, <2>5, <2>6
    <3>2. all = [i \in DOMAIN all |-> all[i]]
      BY <2>3
    <3>3. p = [i \in DOMAIN p |-> p[i]]
      OBVIOUS
    <3> HIDE DEF p
    <3>4. p = all
      BY <3>1, <3>2, <3>3
    <3>5. QED
      BY <3>4 DEF p
  <2>8. ResultsIn(results, gitlab.mrs, fixes, r, fix.suggestion)
    BY <1>2 DEF Underway
  <2>9. ResultsIn(results, gitlab.mrs, fixes', r, fix.suggestion)
    <3>1. \A i \in DOMAIN gitlab.mrs : fixes'[gitlab.mrs[i].doc].suggestion = fixes[gitlab.mrs[i].doc].suggestion
      BY <1>5 DEF MrInv, MrsFit, MrFits
    <3>2. Stay(gitlab.mrs, gitlab.mrs)
      BY MrsStay
    <3>3. \A k \in DOMAIN gitlab.mrs \ DOMAIN gitlab.mrs : \A i \in 1 .. Len(results) :
              ~ (gitlab.mrs[k].request = r /\ gitlab.mrs[k].project = results[i].project)
      OBVIOUS
    <3>4. QED
      BY <2>8, <3>1, <3>2, <3>3, ResultsKept
  <2>10. QED
    BY <1>1, <1>4, <1>7, <2>1, <2>5, <2>7, <2>9 DEF DocTrue, all
<1>9. \A k \in Len(fixes) + 1 .. Len(fixes') :
          FilesOk(fixes'[k].files) /\ DocTrue(fixes'[k], gitlab'.mrs, fixes', req')
  <2>1. \A k \in Len(fixes) + 1 .. Len(fixes') : k = Len(fixes) + 1
    BY <1>5
  <2>2. QED
    BY <2>1, <1>2, <1>4, <1>5, <1>8
<1>10. ThreadsFit'
  BY <1>1 DEF MrInv, ThreadsFit
<1>11. \A k \in Requests : Rests(req[k], req'[k])
  BY <1>2, <1>7, SameSelf DEF Rests
<1>12. QED
  BY <1>1, <1>6, <1>9, <1>10, <1>11, QuietStep

\* Every step of a request.
LEMMA RaisingFits ==
    ASSUME MrInv, FixInv', NEW r \in Requests, Raising(r) PROVE MrInv'
<1>1. CASE Refused(r)
  <2>1. /\ req[r].pc \in Working /\ req' = [req EXCEPT ![r] = With(req[r], 0)]
        /\ UNCHANGED <<fixes, sug, gitlab>>
    BY <1>1 DEF Refused, Working
  <2>2. DOMAIN req[r] = DOMAIN NoRequest
    BY <2>1, AtHand
  <2>3. QED
    BY <2>1, <2>2, NoneOpened
<1>2. CASE Breaks(r)
  <2>1. /\ req[r].pc \notin {"done", "killed"} /\ req' = [req EXCEPT ![r] = Ended]
        /\ UNCHANGED <<fixes, sug, gitlab>>
    BY <1>2 DEF Breaks
  <2>2. QED
    BY <2>1, OverEnds
<1>3. QED
  BY <1>1, <1>2, RaisesFits, ReadsFileFits, CutsBranchFits, CommitsFits, OpensMrFits, SavesMrFits
  DEF Raising

(***************************************************************************)
(* Developers, and the theorems.                                           *)
(***************************************************************************)

\* GitLab changes, and of the requests only their history.
LEMMA AllRest ==
    ASSUME MrInv, FixInv', UNCHANGED <<fixes, sug>>, TreesFit',
           Stay(gitlab.mrs, gitlab'.mrs), DOMAIN gitlab'.mrs = DOMAIN gitlab.mrs,
           gitlab'.mrs \in Seq(Range(gitlab'.mrs)),
           \A i \in DOMAIN gitlab.mrs : DOMAIN gitlab'.mrs[i] = MrFields,
           \A k \in Requests :
               \/ req'[k] = req[k] /\ (req[k].steady => TreeKept(req[k]))
               \/ req'[k] = [req[k] EXCEPT !.steady = FALSE]
    PROVE  MrInv'
<1>1. Grow
  BY LengthGrows DEF MrInv
<1>2. ASSUME NEW k \in Requests
      PROVE  SameWork(req[k], req'[k]) /\ (req'[k].steady => TreeKept(req[k]))
  <2>1. DOMAIN req[k] = DOMAIN NoRequest
    BY DEF MrInv, FixInv, ReqInv, RequestInv
  <2>2. CASE req'[k] = req[k] /\ (req[k].steady => TreeKept(req[k]))
    BY <2>2, SameSelf
  <2>3. CASE req'[k] = [req[k] EXCEPT !.steady = FALSE]
    <3>1. SameWork(req[k], [req[k] EXCEPT !.steady = FALSE])
      BY <2>1, SameCrossed
    <3>2. ~ req'[k].steady
      BY <2>1, <2>3 DEF NoRequest
    <3>3. QED
      BY <2>3, <3>1, <3>2
  <2>4. QED
    BY <2>2, <2>3
<1>3. RequestsFit'
  <2>1. ASSUME NEW k \in Requests PROVE RequestFits(k)'
    BY <1>1, <1>2, RequestRests DEF Rests
  <2>2. QED
    BY <2>1 DEF RequestsFit
<1>4. \A k \in Requests : req'[k].pc = req[k].pc
  BY <1>2 DEF SameWork
<1>5. DocsFit'
  <2>1. \A n \in 1 .. Len(fixes) : FilesOk(fixes'[n].files) /\ DocTrue(fixes'[n], gitlab'.mrs, fixes', req')
    BY <1>1, <1>4, DocsKept
  <2>2. QED
    BY <2>1 DEF DocsFit
<1>6. MrsFit'
  <2>1. \A i \in DOMAIN gitlab.mrs : MrFits(gitlab.mrs[i])'
    BY <1>1, <1>4, MrsKept
  <2>2. QED
    BY <2>1 DEF MrsFit
<1>7. ThreadsFit'
  BY DEF MrInv, ThreadsFit
<1>8. QED
  BY <1>3, <1>5, <1>6, <1>7 DEF MrInv

\* A push unsettles the requests that use the branch pushed to.
LEMMA PushesFits ==
    ASSUME MrInv, FixInv', NEW p \in Projects, NEW b \in Targets \cup {FixBranch}, NEW f \in Files,
           NEW text \in Contents[f], Pushes(p, b, f, text)
    PROVE  MrInv'
<1> DEFINE t == Put(gitlab.tree[p][b], f, text)
<1>1. UNCHANGED <<fixes, sug>> /\ req' = Unsettled(p, b)
  BY DEF Pushes
<1>2. /\ DOMAIN gitlab = {"tree", "mrs"} /\ DOMAIN gitlab.tree = Projects
      /\ DOMAIN gitlab.tree[p] = Targets \cup {FixBranch} /\ DOMAIN gitlab.tree[p][b] \subseteq Files
  BY DEF MrInv, TreesFit
<1>3. gitlab' = [gitlab EXCEPT !.tree[p][b] = t]
  BY <1>2 DEF Pushes
<1>4. DOMAIN t \subseteq Files
  BY <1>2 DEF Put
<1> HIDE DEF t
<1>5. /\ gitlab'.mrs = gitlab.mrs /\ TreesFit'
      /\ \A q, c : (q # p \/ c # b) => gitlab'.tree[q][c] = gitlab.tree[q][c]
  BY <1>3, <1>4, TreeChanged
<1>6. ASSUME NEW k \in Requests
      PROVE  \/ req'[k] = req[k] /\ (req[k].steady => TreeKept(req[k]))
             \/ req'[k] = [req[k] EXCEPT !.steady = FALSE]
  BY <1>1, <1>5, OthersAreTold
<1>7. Stay(gitlab.mrs, gitlab'.mrs) /\ gitlab'.mrs \in Seq(Range(gitlab'.mrs))
  BY <1>5, MrsStay DEF MrInv, MrsFit
<1>8. \A i \in DOMAIN gitlab.mrs : DOMAIN gitlab'.mrs[i] = MrFields
  BY <1>5 DEF MrInv, MrsFit, MrFits
<1>9. QED
  BY <1>1, <1>5, <1>6, <1>7, <1>8, AllRest

\* A merge request is closed, and its branch perhaps removed.
LEMMA ClosesFits ==
    ASSUME MrInv, FixInv', NEW i \in DOMAIN gitlab.mrs, Closes(i) PROVE MrInv'
<1> DEFINE p == gitlab.mrs[i].project
           mrs == [gitlab.mrs EXCEPT ![i].open = FALSE]
           shut == [gitlab EXCEPT !.mrs = mrs]
<1>1. /\ UNCHANGED <<fixes, sug>>
      /\ DOMAIN gitlab = {"tree", "mrs"} /\ DOMAIN gitlab.tree = Projects
      /\ \A q \in Projects : DOMAIN gitlab.tree[q] = Targets \cup {FixBranch}
  BY DEF Closes, MrInv, TreesFit
<1>2. /\ DOMAIN gitlab.mrs[i] = MrFields /\ p \in Projects
      /\ \A j \in DOMAIN gitlab.mrs : DOMAIN gitlab.mrs[j] = MrFields
  BY DEF MrInv, MrsFit, MrFits
<1>3. gitlab.mrs \in Seq(Range(gitlab.mrs))
  BY DEF MrInv, MrsFit
<1>4. /\ DOMAIN mrs = DOMAIN gitlab.mrs
      /\ \A j \in DOMAIN gitlab.mrs : DOMAIN mrs[j] = MrFields /\ SameMr(gitlab.mrs[j], mrs[j])
  BY <1>2 DEF SameMr, MrFields
<1>5. mrs \in Seq(Range(mrs)) /\ Stay(gitlab.mrs, mrs)
  <2>1. Len(gitlab.mrs) \in Nat /\ DOMAIN gitlab.mrs = 1 .. Len(gitlab.mrs)
    BY <1>3, LenProperties
  <2>2. mrs = [j \in DOMAIN mrs |-> mrs[j]]
    OBVIOUS
  <2> HIDE DEF mrs
  <2>3. mrs \in [1 .. Len(gitlab.mrs) -> Range(mrs)]
    BY <1>4, <2>1, <2>2 DEF Range
  <2>4. mrs \in Seq(Range(mrs))
    BY <2>1, <2>3
  <2>5. QED
    BY <1>4, <2>4 DEF Stay
<1>6. shut.mrs = mrs /\ shut.tree = gitlab.tree /\ DOMAIN shut = {"tree", "mrs"}
  BY <1>1
<1>7. \/ gitlab' = shut /\ UNCHANGED req
      \/ /\ gitlab' = [shut EXCEPT !.tree[p][FixBranch] = Absent]
         /\ req' = Unsettled(p, FixBranch)
  <2>1. [gitlab EXCEPT !.mrs[i].open = FALSE] = shut
    BY <1>1
  <2>2. QED
    BY <2>1 DEF Closes
<1> HIDE DEF mrs
<1>8. CASE gitlab' = shut /\ UNCHANGED req
  <2>1. gitlab'.mrs = mrs /\ gitlab'.tree = gitlab.tree /\ TreesFit'
    BY <1>6, <1>8 DEF MrInv, TreesFit
  <2>2. \A k \in Requests : req'[k] = req[k] /\ TreeKept(req[k])
    BY <1>8, <2>1 DEF TreeKept
  <2> HIDE DEF shut
  <2>3. QED
    BY <1>1, <1>4, <1>5, <2>1, <2>2, AllRest
<1>9. CASE /\ gitlab' = [shut EXCEPT !.tree[p][FixBranch] = Absent]
           /\ req' = Unsettled(p, FixBranch)
  <2>1. /\ gitlab'.mrs = mrs /\ DOMAIN gitlab' = {"tree", "mrs"}
        /\ gitlab'.tree = [gitlab.tree EXCEPT ![p] = [gitlab.tree[p] EXCEPT ![FixBranch] = Absent]]
    BY <1>1, <1>2, <1>6, <1>9
  <2>2. \A q, c : (q # p \/ c # FixBranch) => gitlab'.tree[q][c] = gitlab.tree[q][c]
    <3>1. ASSUME NEW q, NEW c, q # p \/ c # FixBranch PROVE gitlab'.tree[q][c] = gitlab.tree[q][c]
      <4>1. CASE q # p
        BY <2>1, <4>1
      <4>2. CASE q = p /\ c # FixBranch
        BY <1>1, <1>2, <2>1, <4>2
      <4>3. QED
        BY <3>1, <4>1, <4>2
    <3>2. QED
      BY <3>1
  <2>3. TreesFit'
    <3>1. DOMAIN gitlab'.tree = Projects /\ \A q \in Projects : DOMAIN gitlab'.tree[q] = Targets \cup {FixBranch}
      BY <1>1, <1>2, <2>1
    <3>2. gitlab'.tree[p][FixBranch] = Absent
      BY <1>1, <1>2, <2>1
    <3>3. DOMAIN Absent = {}
      BY DEF Absent
    <3>4. \A q \in Projects, c \in Targets \cup {FixBranch} : DOMAIN gitlab'.tree[q][c] \subseteq Files
      BY <2>2, <3>2, <3>3 DEF MrInv, TreesFit
    <3>5. QED
      BY <2>1, <3>1, <3>4 DEF TreesFit
  <2>4. ASSUME NEW k \in Requests
        PROVE  \/ req'[k] = req[k] /\ (req[k].steady => TreeKept(req[k]))
               \/ req'[k] = [req[k] EXCEPT !.steady = FALSE]
    BY <1>9, <2>2, OthersAreTold
  <2> HIDE DEF shut, p
  <2>5. QED
    BY <1>1, <1>4, <1>5, <2>1, <2>3, <2>4, AllRest
<1>10. QED
  BY <1>7, <1>8, <1>9

\* Nothing has begun.
LEMMA MrInit == Init => MrInv
<1> SUFFICES ASSUME Init PROVE MrInv
  OBVIOUS
<1>1. FixInv
  BY FixInit
<1>2. /\ \A s \in Suggestions : sug[s] = NoThread
      /\ \A r \in Requests : req[r] = NoRequest
      /\ fixes = <<>> /\ gitlab.mrs = <<>> /\ DOMAIN gitlab = {"tree", "mrs"}
      /\ gitlab.tree = [p \in Projects |-> [b \in Targets \cup {FixBranch} |->
                              IF b = FixBranch THEN Absent ELSE FirstTrees[p][b]]]
  BY DEF Init
<1>3. ThreadsFit
  BY <1>2, NoThreadFits, NoThreadIs DEF ThreadsFit
<1>4. DocsFit
  <2>1. Len(fixes) = 0
    BY <1>2, EmptySeq
  <2>2. QED
    BY <2>1 DEF DocsFit
<1>5. TreesFit
  <2>1. DOMAIN Absent = {}
    BY DEF Absent
  <2>2. \A p \in Projects, b \in Targets \cup {FixBranch} : DOMAIN gitlab.tree[p][b] \subseteq Files
    BY <1>2, <2>1, FixAssumption
  <2>3. QED
    BY <1>2, <2>2 DEF TreesFit
<1>6. DOMAIN gitlab.mrs = {} /\ gitlab.mrs \in Seq(Range(gitlab.mrs))
  BY <1>2, EmptySeq
<1>7. RequestsFit
  BY <1>2, <1>6 DEF RequestsFit, RequestFits, NoRequest, Over, Working
<1>8. MrsFit
  BY <1>6 DEF MrsFit
<1>9. QED
  BY <1>1, <1>3, <1>4, <1>5, <1>7, <1>8 DEF MrInv

\* MrInv is inductive.
LEMMA MrStep == MrInv /\ [Next]_vars => MrInv'
<1> SUFFICES ASSUME MrInv, [Next]_vars PROVE MrInv'
  OBVIOUS
<1>1. FixInv'
  BY FixStep DEF MrInv
<1>2. CASE UNCHANGED vars
  BY <1>1, <1>2, StillnessFits DEF vars
<1>3. QED
  BY <1>1, <1>2, CrossedFits, SuggestingFits, RaisingFits, PushesFits, ClosesFits DEF Next

\* Verdicts are those of the evidence.
VerdictsFit == verdicts \in 0 .. Len(Evidence)

\* Verdicts are stored one by one.
LEMMA VerdictsStep == VerdictsFit /\ [Next]_vars => VerdictsFit'
<1> SUFFICES ASSUME VerdictsFit, [Next]_vars PROVE VerdictsFit'
  OBVIOUS
<1>1. CASE VerdictSaved
  BY <1>1 DEF VerdictSaved, VerdictsFit
<1>2. CASE UNCHANGED verdicts
  BY <1>2 DEF VerdictsFit
<1>3. \A s \in Suggestions : Suggesting(s) => UNCHANGED verdicts
  BY DEF Suggesting, suggest_fix_endpoint, StartsJob, ReadsVerdict, Explores, ExploringFails, Fetches,
         SavesFix, JobEnds
<1>4. \A r \in Requests : Raising(r) => UNCHANGED verdicts
  BY DEF Raising, raise_mr, ReadsFile, CutsBranch, Commits, OpensMr, Refused, Breaks, SavesMr
<1>5. VerdictSaved \/ UNCHANGED verdicts
  BY <1>3, <1>4 DEF Next, vars, reset_rca, reject_fix, Restart, Pushes, Closes
<1>6. QED
  BY <1>1, <1>2, <1>5

\* The types are part of the invariant.
LEMMA TypesFollow == MrInv /\ VerdictsFit => TypeOK
<1> SUFFICES ASSUME MrInv, VerdictsFit PROVE TypeOK
  OBVIOUS
<1>1. row \in Row /\ row.bot_fix \in 0 .. Len(fixes) /\ row.bot_rca \in 0 .. verdicts
  <2>1. row \in Row /\ verdicts \in Nat /\ Len(fixes) \in Nat
    BY LengthOfFixes DEF MrInv, FixInv, RowInv
  <2>2. row.bot_rca \in Nat /\ row.bot_fix \in Nat
    BY <2>1 DEF Row
  <2>3. row.bot_rca <= verdicts /\ (row.bot_fix # 0 => row.bot_fix \in 1 .. Len(fixes))
    BY DEF MrInv, FixInv, RowInv, Current
  <2>4. QED
    BY <2>1, <2>2, <2>3
<1>2. ASSUME NEW s \in Suggestions
      PROVE  /\ sug[s].pc \in {"start_job", "read", "explore", "fetch", "save", "finish", "fail"} \cup Over
             /\ Cardinality(DOMAIN sug[s].raw) + Len(sug[s].keys) <= MaxEditFiles
  BY DEF MrInv, ThreadsFit, ThreadFits, ThreadPcs
<1>3. DOMAIN fixes = 1 .. Len(fixes)
  <2>1. PICK S : fixes \in Seq(S)
    BY DEF MrInv, FixInv, DocsInv
  <2>2. QED
    BY <2>1, LenProperties
<1>4. ASSUME NEW r \in Requests
      PROVE  /\ req[r].pc \in {"file", "branch", "commit", "open", "save"} \cup Over
             /\ req[r].pc \notin Over => req[r].doc \in DOMAIN fixes
             /\ req[r].pc \in {"branch", "commit", "open"} => req[r].actions # <<>>
  <2>1. RequestFits(r) /\ RequestInv(req[r])
    BY DEF MrInv, FixInv, ReqInv, RequestsFit
  <2>2. req[r].pc \in {"branch", "commit", "open"} => req[r].actions # <<>>
    BY <2>1 DEF RequestFits, WorkIn, Handled, Working
  <2>3. QED
    BY <1>3, <2>1, <2>2 DEF RequestFits, RequestInv, Working
<1>5. \A n \in DOMAIN fixes : fixes[n].results # <<>> => req[fixes[n].request].pc = "done"
  BY <1>3 DEF MrInv, DocsFit, DocTrue
<1>6. \A p \in Projects, b \in Targets \cup {FixBranch} : DOMAIN gitlab.tree[p][b] \subseteq Files
  BY DEF MrInv, TreesFit
<1>7. QED
  BY <1>1, <1>2, <1>4, <1>5, <1>6 DEF TypeOK, VerdictsFit

\* The variables have the values the code can give them, for any number of
\* threads and requests: no thread holds or fetches more than _MAX_EDIT_FILES
\* files, a request that talks to GitLab has something to commit, and a document
\* with results is one of a request that came to its end.
THEOREM FixTypeOK == Spec => []TypeOK
<1>1. Init => VerdictsFit
  <2>1. Len(Evidence) \in Nat
    BY FixAssumption, LenProperties
  <2>2. QED
    BY <2>1 DEF Init, VerdictsFit
<1>2. QED
  BY <1>1, MrInit, MrStep, VerdictsStep, TypesFollow, PTL DEF Spec

\* What a reviewer approved is what the merge request changes, for any number of
\* repositories, files, edits and overlapping requests: unless somebody interfered
\* between reading the files and opening the merge request, its branch differs from
\* what it was cut from by the applied edits of the reviewed document and by nothing
\* else, and a file still as the suggestion read it comes out as the diff showed it.
THEOREM MrReviewed == Spec => []MrIsTheReviewedDiff
<1>1. MrInv => MrIsTheReviewedDiff
  BY DEF MrInv, MrsFit, MrFits, ReviewedDiff, MrIsTheReviewedDiff
<1>2. QED
  BY <1>1, MrInit, MrStep, PTL DEF Spec

\* The results stored with the fix on the row are true of GitLab: one for each
\* repository, in the order of the document; each success is a merge request of that
\* request and suggestion, and where there is an error the request opened none,
\* whatever answers were lost, calls refused and processes restarted on the way.
THEOREM MrResultsTrue == Spec => []StoredMrTrue
<1>1. MrInv => StoredMrTrue
  <2> SUFFICES ASSUME MrInv, row.bot_fix # 0, fixes[row.bot_fix].results # <<>>
               PROVE  LET fix == fixes[row.bot_fix]
                          OpenedIn(p) == {i \in DOMAIN gitlab.mrs : /\ gitlab.mrs[i].request = fix.request
                                                                   /\ gitlab.mrs[i].project = p}
                      IN  /\ [i \in DOMAIN fix.results |-> fix.results[i].project] = by_project(fix)
                          /\ \A i \in DOMAIN fix.results :
                                LET res == fix.results[i]
                                IN  /\ OpenedIn(res.project) = {res.mr} \ {0}
                                    /\ res.mr # 0 => fixes[gitlab.mrs[res.mr].doc].suggestion = fix.suggestion
    BY DEF StoredMrTrue
  <2> DEFINE fix == fixes[row.bot_fix]
  <2>1. row.bot_fix \in 1 .. Len(fixes)
    BY DEF MrInv, FixInv, RowInv, Current
  <2>2. DocTrue(fix, gitlab.mrs, fixes, req)
    BY <2>1 DEF MrInv, DocsFit
  <2>3. /\ [i \in DOMAIN fix.results |-> fix.results[i].project] = by_project(fix)
        /\ DOMAIN fix.results = 1 .. Len(fix.results)
        /\ ResultsIn(fix.results, gitlab.mrs, fixes, fix.request, fix.suggestion)
    BY <2>2 DEF DocTrue
  <2>4. QED
    BY <2>3 DEF ResultsIn, Opened
<1>2. QED
  BY <1>1, MrInit, MrStep, PTL DEF Spec

\* For any number of suggestions and requests, however they overlap with re-runs,
\* resets, rejections and restarts: the fix on the row is the suggestion on offer,
\* built on the verdict beside it, unless a verdict has been stored over that one
\* without a reset (against db.py:257-260), or the fix is marked as carried over
\* by a thread or a request that had read the row before such a change.
THEOREM FixAlwaysCurrent == Spec => []FixIsCurrent
<1>1. FixInv => FixIsCurrent
  BY DEF FixInv, RowInv, Current, FixIsCurrent
<1>2. QED
  BY <1>1, FixInit, FixStep, PTL DEF Spec
=============================================================================
