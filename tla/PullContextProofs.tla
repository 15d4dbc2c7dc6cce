-------------------------- MODULE PullContextProofs --------------------------
(***************************************************************************)
(* Proofs about PullContext: its type invariant, that what a read returns  *)
(* is complete, and that one event is decided on the same answers, for     *)
(* lists of any length, any lists that grow and any failures.              *)
(***************************************************************************)
EXTENDS PullContext, TLAPS

(* The reads of an event and where a failure of one leads.                 *)
LEMMA ReadsFacts ==
    /\ Len(Reads) = 8 /\ Done = 9 /\ FirstOfMerge = 3
    /\ DOMAIN Reads = 1 .. 8
    /\ \A i \in 1 .. 8 : Reads[i] \in Methods
    /\ \A i \in 1 .. 8 : AfterFailure(i) \in i + 1 .. 9
<1>1. Len(Reads) = 8 /\ DOMAIN Reads = 1 .. 8
  BY DEF Reads
<1>2. Done = 9 /\ FirstOfMerge = 3
  BY <1>1 DEF Done, FirstOfMerge
<1>3. \A i \in 1 .. 8 : Reads[i] \in Methods
  BY DEF Reads, Methods
<1>4. \A i \in 1 .. 8 : AfterFailure(i) \in i + 1 .. 9
  BY <1>2 DEF AfterFailure, FirstOfMerge, ReadOfMaxCommits
<1> QED
  BY <1>1, <1>2, <1>3, <1>4

(* A method reads one list or two different ones.                          *)
LEMMA ListsFacts ==
    ASSUME NEW m \in Methods
    PROVE  /\ Len(ListsOf(m)) \in 1 .. 2
           /\ DOMAIN ListsOf(m) = 1 .. Len(ListsOf(m))
           /\ \A k \in 1 .. Len(ListsOf(m)) : ListsOf(m)[k] \in Lists
           /\ \A k, n \in 1 .. Len(ListsOf(m)) :
                 ListsOf(m)[k] = ListsOf(m)[n] => k = n
<1>1. CASE m = "Comments"
  BY <1>1 DEF ListsOf, Lists
<1>2. CASE m = "Commits"
  BY <1>2 DEF ListsOf, Lists
<1>3. CASE m = "RequiredStatuses"
  BY <1>3 DEF ListsOf, Lists
<1>4. CASE m = "CurrentSuccessStatuses"
  BY <1>4 DEF ListsOf, Lists
<1> QED
  BY <1>1, <1>2, <1>3, <1>4 DEF Methods

-----------------------------------------------------------------------------

(* What a collected or cached value v has of the first n lists of m.       *)
HasFirst(v, m, n) ==
    \A k \in 1 .. Len(ListsOf(m)) : k <= n => start[ListsOf(m)[k]] <= v[ListsOf(m)[k]]

Has(v, m) == HasFirst(v, m, 2)

(* Lists only grow.                                                        *)
PagesGrow == \A l \in Lists : start[l] <= pages[l]

(* A request past the first page is for a page that exists, and the lists  *)
(* before the one that is read were read to their end.                     *)
CallInv ==
    call # NoCall =>
        /\ call.page = 1 \/ call.page <= pages[ListsOf(Reads[step])[call.list]]
        /\ HasFirst(acc, Reads[step], call.list - 1)

(* Only reads that are over have an answer.                                *)
AnswersInv == \A i \in 1 .. 8 : answers[i].status # "none" => i < step

NoErrorBefore(i) ==
    \A j \in 1 .. 8 : j < i /\ Reads[j] = "Comments" => answers[j].status # "error"

(* A cached field is complete, the comments when no read of them failed    *)
(* or is going on.                                                         *)
CacheInv ==
    \A m \in Methods :
        /\ cache[m] # Nil
        /\ m = "Comments" => /\ call = NoCall \/ Reads[step] # "Comments"
                             /\ NoErrorBefore(step)
        => Has(cache[m], m)

(* What was answered is in the cache, and a request is made only when      *)
(* nothing was answered before.                                            *)
StableInv ==
    \A i \in 1 .. 8 :
        /\ Returned(i)
        /\ answers[i].value # Nothing
        => /\ cache[Reads[i]] = answers[i].value
           /\ call # NoCall => Reads[i] # Reads[step]

IInv == /\ TypeOK
        /\ PagesGrow
        /\ CallInv
        /\ AnswersInv
        /\ CacheInv
        /\ StableInv
        /\ ReadsAreComplete
        /\ CommentsAreCompleteAtFirst
        /\ AnswersAreStable

LEMMA HasIsComplete ==
    ASSUME TypeOK, NEW i \in 1 .. 8
    PROVE  Complete(i) <=> Has(answers[i].value, Reads[i])
<1>1. Reads[i] \in Methods
  BY ReadsFacts
<1>2. /\ Len(ListsOf(Reads[i])) \in 1 .. 2
      /\ DOMAIN ListsOf(Reads[i]) = 1 .. Len(ListsOf(Reads[i]))
  BY <1>1, ListsFacts
<1> QED
  BY <1>2 DEF Complete, Has, HasFirst

(* The state of the reads before the event is handled.                     *)
LEMMA InitInv == Init => IInv
<1> SUFFICES ASSUME Init PROVE IInv
  OBVIOUS
<1> USE DEF Init
<1>1. pages \in [Lists -> 0 .. MaxPages]
  BY PagesAssumption
<1>2. Nothing \in Value
  BY DEF Nothing, Value
<1>3. NoAnswer \in Answer
  BY <1>2 DEF NoAnswer, Answer
<1>4. \A i \in 1 .. 8 : answers[i].status = "none"
  BY ReadsFacts DEF NoAnswer
<1>5. TypeOK
  BY <1>1, <1>2, <1>3, ReadsFacts DEF TypeOK
<1>6. PagesGrow
  BY <1>1, PagesAssumption DEF PagesGrow
<1>7. CallInv
  BY DEF CallInv
<1>8. AnswersInv
  BY <1>4 DEF AnswersInv
<1>9. CacheInv
  BY DEF CacheInv
<1>10. StableInv
  BY <1>4 DEF StableInv, Returned
<1>11. ReadsAreComplete /\ CommentsAreCompleteAtFirst /\ AnswersAreStable
  BY <1>4, ReadsFacts DEF ReadsAreComplete, CommentsAreCompleteAtFirst,
                          AnswersAreStable, Returned
<1> QED
  BY <1>5, <1>6, <1>7, <1>8, <1>9, <1>10, <1>11 DEF IInv

-----------------------------------------------------------------------------
(* A read that returns keeps the properties of the answers when what it    *)
(* returns is complete and agrees with the earlier answers.                *)
LEMMA ReturnKeepsAnswers ==
    ASSUME IInv, step \in 1 .. 8,
           NEW status \in {"error", "ok"}, NEW value \in Value,
           NEW next \in step + 1 .. 9,
           Return(status, value, next), UNCHANGED start,
           \/ status = "error"
           \/ Reads[step] = "Comments" /\ ~NoErrorBefore(step)
           \/ Has(value, Reads[step]),
           \A i \in 1 .. 8 :
              /\ Returned(i) /\ Reads[i] = Reads[step]
              /\ answers[i].value # Nothing
              => answers[i].value = value
    PROVE  /\ answers' \in [1 .. Len(Reads) -> Answer]
           /\ AnswersInv'
           /\ ReadsAreComplete'
           /\ CommentsAreCompleteAtFirst'
           /\ AnswersAreStable'
<1> DEFINE new == [status |-> status, value |-> value]
<1>1. new \in Answer /\ new.status = status /\ new.value = value
  BY DEF Answer
<1>2. answers \in [1 .. 8 -> Answer]
  BY ReadsFacts DEF IInv, TypeOK
<1>3. answers' = [answers EXCEPT ![step] = new] /\ step' = next
  BY DEF Return
<1> HIDE DEF new
<1>4. answers'[step] = new /\ \A i \in 1 .. 8 : i # step => answers'[i] = answers[i]
  BY <1>2, <1>3
<1>5. answers' \in [1 .. Len(Reads) -> Answer]
  BY <1>1, <1>2, <1>3, ReadsFacts
<1>6. AnswersInv'
  BY <1>3, <1>4 DEF IInv, AnswersInv
<1>7. \A i \in 1 .. 8 : i # step => Complete(i)' = Complete(i)
  BY <1>4 DEF Complete
<1>8. ASSUME NEW i \in 1 .. 8, i = step, Has(value, Reads[i])
      PROVE  Complete(i)'
  <2>1. Reads[i] \in Methods
    BY ReadsFacts
  <2>2. /\ Len(ListsOf(Reads[i])) \in 1 .. 2
        /\ DOMAIN ListsOf(Reads[i]) = 1 .. Len(ListsOf(Reads[i]))
    BY <2>1, ListsFacts
  <2> QED
    BY <1>1, <1>4, <1>8, <2>2 DEF Complete, Has, HasFirst
<1>9. ReadsAreComplete'
  <2> SUFFICES ASSUME NEW i \in 1 .. 8, Returned(i)', Reads[i] # "Comments"
               PROVE  Complete(i)'
    BY ReadsFacts DEF ReadsAreComplete
  <2>1. CASE i = step
    <3>1. status = "ok"
      BY <1>1, <1>4, <2>1 DEF Returned
    <3> QED
      BY <1>8, <2>1, <3>1
  <2>2. CASE i # step
    <3>1. Returned(i)
      BY <1>4, <2>2 DEF Returned
    <3> QED
      BY <1>7, <2>2, <3>1, ReadsFacts DEF IInv, ReadsAreComplete
  <2> QED
    BY <2>1, <2>2
<1>10. CommentsAreCompleteAtFirst'
  <2> SUFFICES ASSUME NEW i \in 1 .. 8, Returned(i)', Reads[i] = "Comments",
                      \A j \in 1 .. i - 1 :
                         Reads[j] = "Comments" => answers[j].status' # "error"
               PROVE  Complete(i)'
    BY ReadsFacts DEF CommentsAreCompleteAtFirst
  <2>1. CASE i = step
    <3>1. status = "ok"
      BY <1>1, <1>4, <2>1 DEF Returned
    <3>2. NoErrorBefore(step)
      BY <1>4, <2>1 DEF NoErrorBefore
    <3> QED
      BY <1>8, <2>1, <3>1, <3>2
  <2>2. CASE i # step
    <3>1. Returned(i)
      BY <1>4, <2>2 DEF Returned
    <3>2. i < step
      BY <3>1 DEF IInv, AnswersInv, Returned
    <3>3. \A j \in 1 .. i - 1 : Reads[j] = "Comments" => answers[j].status # "error"
      BY <1>4, <3>2
    <3> QED
      BY <1>7, <2>2, <3>1, <3>3, ReadsFacts DEF IInv, CommentsAreCompleteAtFirst
  <2> QED
    BY <2>1, <2>2
<1>11. AnswersAreStable'
  <2> SUFFICES ASSUME NEW i \in 1 .. 8, NEW j \in 1 .. 8, i < j, Reads[i] = Reads[j],
                      Returned(i)', Returned(j)', answers[i].value' # Nothing
               PROVE  answers[i].value' = answers[j].value'
    BY ReadsFacts DEF AnswersAreStable
  <2>1. i # step
    BY <1>4 DEF IInv, AnswersInv, Returned
  <2>2. Returned(i) /\ answers[i].value # Nothing
    BY <1>4, <2>1 DEF Returned
  <2>3. CASE j = step
    BY <1>1, <1>4, <2>1, <2>2, <2>3
  <2>4. CASE j # step
    <3>1. Returned(j)
      BY <1>4, <2>4 DEF Returned
    <3> QED
      BY <1>4, <2>1, <2>2, <2>4, <3>1, ReadsFacts DEF IInv, AnswersAreStable
  <2> QED
    BY <2>3, <2>4
<1> QED
  BY <1>5, <1>6, <1>9, <1>10, <1>11

(* A step that leaves the answers alone keeps what is said of them.        *)
LEMMA SameAnswers ==
    ASSUME IInv, UNCHANGED <<start, answers>>, step' \in 1 .. 9, step <= step'
    PROVE  /\ answers' \in [1 .. Len(Reads) -> Answer]
           /\ AnswersInv'
           /\ ReadsAreComplete'
           /\ CommentsAreCompleteAtFirst'
           /\ AnswersAreStable'
<1>1. answers' \in [1 .. Len(Reads) -> Answer]
  BY DEF IInv, TypeOK
<1>2. AnswersInv'
  <2>1. step \in 1 .. 9
    BY ReadsFacts DEF IInv, TypeOK
  <2> QED
    BY <2>1 DEF IInv, AnswersInv
<1>3. \A i : Complete(i)' = Complete(i) /\ Returned(i)' = Returned(i)
  BY DEF Complete, Returned
<1>4. ReadsAreComplete' /\ CommentsAreCompleteAtFirst' /\ AnswersAreStable'
  BY <1>3 DEF IInv, ReadsAreComplete, CommentsAreCompleteAtFirst, AnswersAreStable
<1> QED
  BY <1>1, <1>2, <1>4

-----------------------------------------------------------------------------
(* Between two reads only the reads still to come change.                  *)
LEMMA StepOn ==
    ASSUME IInv, call = NoCall, step \in 1 .. 8, step' \in step + 1 .. 9,
           UNCHANGED <<pages, start, needed, call, acc, cache, answers>>
    PROVE  IInv'
<1>1. step' \in 1 .. 9 /\ step < step'
  OBVIOUS
<1>2. TypeOK'
  BY <1>1, ReadsFacts DEF IInv, TypeOK
<1>3. PagesGrow' /\ CallInv'
  BY DEF IInv, PagesGrow, CallInv
<1>4. CacheInv'
  <2> SUFFICES ASSUME NEW m \in Methods, cache[m] # Nil,
                      m = "Comments" => NoErrorBefore(step)'
               PROVE  Has(cache[m], m)'
    BY DEF CacheInv
  <2>1. ASSUME m = "Comments" PROVE NoErrorBefore(step)
    <3>1. \A j \in 1 .. 8 : j < step => j < step'
      BY <1>1
    <3> QED
      BY <2>1, <3>1 DEF NoErrorBefore
  <2>2. Has(cache[m], m)
    BY <2>1 DEF IInv, CacheInv
  <2> QED
    BY <2>2 DEF Has, HasFirst
<1>5. StableInv'
  BY DEF IInv, StableInv, Returned
<1>6. /\ AnswersInv'
      /\ ReadsAreComplete'
      /\ CommentsAreCompleteAtFirst'
      /\ AnswersAreStable'
  BY <1>1, SameAnswers
<1> QED
  BY <1>2, <1>3, <1>4, <1>5, <1>6 DEF IInv

LEMMA SkipInv == IInv /\ Skip => IInv'
<1> SUFFICES ASSUME IInv, Skip PROVE IInv'
  OBVIOUS
<1>1. step \in 1 .. 9 /\ step # 9
  BY ReadsFacts DEF IInv, TypeOK, Skip
<1> QED
  BY <1>1, StepOn DEF Skip

LEMMA SettleInv == IInv /\ Settle => IInv'
<1> SUFFICES ASSUME IInv, Settle PROVE IInv'
  OBVIOUS
<1>1. step \in 1 .. 9 /\ step # 9
  BY ReadsFacts DEF IInv, TypeOK, Settle
<1>2. step' \in step + 1 .. 9
  BY <1>1, ReadsFacts DEF Settle
<1> QED
  BY <1>1, <1>2, StepOn DEF Settle

(* A list that grows still has what there was.                             *)
LEMMA GrowInv == ASSUME IInv, NEW g \in Growing, Grow(g) PROVE IInv'
<1>1. g \in Lists
  BY PagesAssumption
<1>2. pages \in [Lists -> 0 .. MaxPages] /\ start \in [Lists -> 0 .. MaxPages]
  BY DEF IInv, TypeOK
<1>3. pages' = [pages EXCEPT ![g] = pages[g] + 1] /\ pages[g] < MaxPages
  BY DEF Grow
<1>4. pages[g] + 1 \in 0 .. MaxPages
  BY <1>1, <1>2, <1>3, PagesAssumption
<1>5. \A l \in Lists : pages'[l] \in 0 .. MaxPages /\ pages[l] <= pages'[l]
  BY <1>1, <1>2, <1>3, <1>4, PagesAssumption
<1>6. pages' \in [Lists -> 0 .. MaxPages]
  BY <1>2, <1>3, <1>4
<1>7. UNCHANGED <<start, needed, step, call, acc, cache, answers>>
  BY DEF Grow
<1>8. TypeOK'
  BY <1>6, <1>7 DEF IInv, TypeOK
<1>9. PagesGrow'
  BY <1>2, <1>5, <1>7, PagesAssumption DEF IInv, PagesGrow
<1>10. CallInv'
  <2> SUFFICES ASSUME call # NoCall
               PROVE  /\ call.page = 1
                         \/ call.page <= pages'[ListsOf(Reads[step])[call.list]]
                      /\ HasFirst(acc, Reads[step], call.list - 1)'
    BY <1>7 DEF CallInv
  <2>1. /\ call.page = 1 \/ call.page <= pages[ListsOf(Reads[step])[call.list]]
        /\ HasFirst(acc, Reads[step], call.list - 1)
    BY DEF IInv, CallInv
  <2>2. HasFirst(acc, Reads[step], call.list - 1)'
    BY <1>7, <2>1 DEF HasFirst
  <2>3. /\ call.page \in Nat /\ step \in 1 .. 8
        /\ call.list \in DOMAIN ListsOf(Reads[step])
    BY ReadsFacts DEF IInv, TypeOK, Request
  <2>4. ListsOf(Reads[step])[call.list] \in Lists
    BY <2>3, ReadsFacts, ListsFacts
  <2> QED
    BY <1>2, <1>5, <1>6, <2>1, <2>2, <2>3, <2>4, PagesAssumption
<1>11. CacheInv' /\ StableInv'
  BY <1>7 DEF IInv, CacheInv, StableInv, Returned, NoErrorBefore, Has, HasFirst
<1>12. step \in 1 .. 9
  BY ReadsFacts DEF IInv, TypeOK
<1>13. /\ AnswersInv'
       /\ ReadsAreComplete'
       /\ CommentsAreCompleteAtFirst'
       /\ AnswersAreStable'
  BY <1>7, <1>12, SameAnswers
<1> QED
  BY <1>8, <1>9, <1>10, <1>11, <1>13 DEF IInv

-----------------------------------------------------------------------------
(* A method that answers from its cache answers what it answered before,   *)
(* one that starts to page has answered nothing.                           *)
LEMMA AskInv == IInv /\ Ask => IInv'
<1> SUFFICES ASSUME IInv, Ask PROVE IInv'
  OBVIOUS
<1> DEFINE m == Reads[step]
<1>1. step \in 1 .. 8 /\ needed \in SUBSET (1 .. 8)
  BY ReadsFacts DEF IInv, TypeOK, Ask
<1>2. m \in Methods
  BY <1>1, ReadsFacts
<1>3. call = NoCall /\ UNCHANGED <<pages, start, needed, cache>>
  BY DEF Ask
<1>4. CASE CacheHit(m)
  <2>1. Return("ok", cache[m], step + 1)
    BY <1>4 DEF Ask
  <2>2. cache[m] # Nil
    BY <1>4 DEF CacheHit
  <2>3. cache[m] \in Value
    BY <1>2, <2>2 DEF IInv, TypeOK
  <2>4. Has(cache[m], m) \/ (m = "Comments" /\ ~NoErrorBefore(step))
    BY <1>2, <1>3, <2>2 DEF IInv, CacheInv
  <2>5. \A i \in 1 .. 8 : Returned(i) /\ Reads[i] = m /\ answers[i].value # Nothing
                             => answers[i].value = cache[m]
    BY DEF IInv, StableInv
  <2>6. step + 1 \in step + 1 .. 9
    BY <1>1
  <2>7. /\ answers' \in [1 .. Len(Reads) -> Answer]
        /\ AnswersInv'
        /\ ReadsAreComplete'
        /\ CommentsAreCompleteAtFirst'
        /\ AnswersAreStable'
    BY <1>1, <1>3, <2>1, <2>3, <2>4, <2>5, <2>6, ReturnKeepsAnswers
  <2>8. step' = step + 1 /\ call' = NoCall /\ acc' = Nothing
    BY <2>1 DEF Return
  <2>9. TypeOK'
    <3>1. Nothing \in Value
      BY DEF Nothing, Value
    <3> QED
      BY <1>1, <1>3, <2>7, <2>8, <3>1, ReadsFacts DEF IInv, TypeOK
  <2>10. PagesGrow' /\ CallInv'
    BY <1>3, <2>8 DEF IInv, PagesGrow, CallInv
  <2>11. \A i \in 1 .. 8 : i # step => answers'[i] = answers[i]
    BY <2>1, ReadsFacts DEF Return, IInv, TypeOK
  <2>12. CacheInv'
    <3> SUFFICES ASSUME NEW n \in Methods, cache[n] # Nil,
                        n = "Comments" => NoErrorBefore(step)'
                 PROVE  Has(cache[n], n)'
      BY <1>3 DEF CacheInv
    <3>1. n = "Comments" => NoErrorBefore(step)
      BY <1>1, <2>8, <2>11 DEF NoErrorBefore
    <3>2. Has(cache[n], n)
      BY <1>3, <3>1 DEF IInv, CacheInv
    <3> QED
      BY <1>3, <3>2 DEF Has, HasFirst
  <2>13. StableInv'
    <3> SUFFICES ASSUME NEW i \in 1 .. 8, Returned(i)', answers[i].value' # Nothing
                 PROVE  cache[Reads[i]] = answers[i].value'
      BY <1>3, <2>8 DEF StableInv
    <3>1. CASE i = step
      <4>1. answers'[i].value = cache[m]
        BY <1>1, <2>1, <3>1, ReadsFacts DEF Return, IInv, TypeOK
      <4> QED
        BY <3>1, <4>1
    <3>2. CASE i # step
      BY <2>11, <3>2 DEF IInv, StableInv, Returned
    <3> QED
      BY <3>1, <3>2
  <2> QED
    BY <2>7, <2>9, <2>10, <2>12, <2>13 DEF IInv
<1>5. CASE ~CacheHit(m)
  <2>1. call' = [list |-> 1, page |-> 1] /\ UNCHANGED <<step, acc, answers>>
    BY <1>5 DEF Ask
  <2>2. cache[m] = Nil
    BY <1>5 DEF CacheHit
  <2>3. call' \in Request /\ call'.list = 1 /\ call'.page = 1
    BY <2>1 DEF Request
  <2>4. 1 \in DOMAIN ListsOf(m)
    BY <1>2, ListsFacts
  <2>5. TypeOK'
    BY <1>1, <1>3, <2>1, <2>3, <2>4, ReadsFacts DEF IInv, TypeOK
  <2>6. PagesGrow'
    BY <1>3 DEF IInv, PagesGrow
  <2>7. CallInv'
    <3>1. \A v, n : HasFirst(v, n, 0)
      <4> SUFFICES ASSUME NEW v, NEW n, NEW k \in 1 .. Len(ListsOf(n)), k <= 0
                   PROVE  FALSE
        BY DEF HasFirst
      <4> QED
        OBVIOUS
    <3>2. HasFirst(acc, Reads[step], call.list - 1)'
      BY <1>3, <2>1, <2>3, <3>1 DEF HasFirst
    <3> QED
      BY <2>3, <3>2 DEF CallInv
  <2>8. CacheInv'
    <3> SUFFICES ASSUME NEW n \in Methods, cache[n] # Nil,
                        n = "Comments" => NoErrorBefore(step)'
                 PROVE  Has(cache[n], n)'
      BY <1>3 DEF CacheInv
    <3>1. n = "Comments" => NoErrorBefore(step)
      BY <2>1 DEF NoErrorBefore
    <3>2. Has(cache[n], n)
      BY <1>3, <3>1 DEF IInv, CacheInv
    <3> QED
      BY <1>3, <3>2 DEF Has, HasFirst
  <2>9. StableInv'
    <3> SUFFICES ASSUME NEW i \in 1 .. 8, Returned(i), answers[i].value # Nothing
                 PROVE  cache[Reads[i]] = answers[i].value /\ Reads[i] # m
      BY <1>3, <2>1 DEF StableInv, Returned
    <3>1. cache[Reads[i]] = answers[i].value
      BY DEF IInv, StableInv
    <3>2. answers[i].value \in Value
      BY ReadsFacts DEF IInv, TypeOK, Answer
    <3> QED
      BY <2>2, <3>1, <3>2, MarkersAssumption
  <2>10. /\ AnswersInv'
         /\ ReadsAreComplete'
         /\ CommentsAreCompleteAtFirst'
         /\ AnswersAreStable'
    BY <1>1, <1>3, <2>1, SameAnswers
  <2> QED
    BY <2>5, <2>6, <2>7, <2>8, <2>9, <2>10 DEF IInv
<1> QED
  BY <1>4, <1>5

(* A failed read leaves the cache as it was: of the comments, perhaps a    *)
(* part, but then there is an error before all that follows.               *)
LEMMA PageFailsInv == IInv /\ PageFails => IInv'
<1> SUFFICES ASSUME IInv, PageFails PROVE IInv'
  OBVIOUS
<1>1. step \in 1 .. 8 /\ call # NoCall
  BY ReadsFacts DEF IInv, TypeOK, PageFails
<1>2. UNCHANGED <<pages, start, needed, cache>>
  BY DEF PageFails
<1>3. Return("error", Nothing, AfterFailure(step))
  BY DEF PageFails
<1>4. AfterFailure(step) \in step + 1 .. 9
  BY <1>1, ReadsFacts
<1>5. Nothing \in Value
  BY DEF Nothing, Value
<1>6. \A i \in 1 .. 8 : Returned(i) /\ answers[i].value # Nothing => Reads[i] # Reads[step]
  BY <1>1 DEF IInv, StableInv
<1>7. /\ answers' \in [1 .. Len(Reads) -> Answer]
      /\ AnswersInv'
      /\ ReadsAreComplete'
      /\ CommentsAreCompleteAtFirst'
      /\ AnswersAreStable'
  BY <1>1, <1>2, <1>3, <1>4, <1>5, <1>6, ReturnKeepsAnswers
<1>8. step' = AfterFailure(step) /\ call' = NoCall /\ acc' = Nothing
  BY <1>3 DEF Return
<1>9. step' \in 1 .. 9 /\ step < step'
  BY <1>1, <1>4, <1>8
<1>10. TypeOK'
  BY <1>2, <1>5, <1>7, <1>8, <1>9, ReadsFacts DEF IInv, TypeOK
<1>11. PagesGrow' /\ CallInv'
  BY <1>2, <1>8 DEF IInv, PagesGrow, CallInv
<1>12. /\ answers'[step].status = "error"
       /\ \A i \in 1 .. 8 : i # step => answers'[i] = answers[i]
  BY <1>1, <1>3, ReadsFacts DEF Return, IInv, TypeOK
<1>13. CacheInv'
  <2> SUFFICES ASSUME NEW n \in Methods, cache[n] # Nil,
                      n = "Comments" => NoErrorBefore(step)'
               PROVE  Has(cache[n], n)'
    BY <1>2 DEF CacheInv
  <2>1. ASSUME n = "Comments" PROVE Reads[step] # "Comments" /\ NoErrorBefore(step)
    BY <1>1, <1>9, <1>12, <2>1 DEF NoErrorBefore
  <2>2. Has(cache[n], n)
    BY <2>1 DEF IInv, CacheInv
  <2> QED
    BY <1>2, <2>2 DEF Has, HasFirst
<1>14. StableInv'
  <2> SUFFICES ASSUME NEW i \in 1 .. 8, Returned(i)', answers[i].value' # Nothing
               PROVE  cache[Reads[i]] = answers[i].value'
    BY <1>2, <1>8 DEF StableInv
  <2>1. i # step
    BY <1>12 DEF Returned
  <2> QED
    BY <1>12, <2>1 DEF IInv, StableInv, Returned
<1> QED
  BY <1>7, <1>10, <1>11, <1>13, <1>14 DEF IInv

-----------------------------------------------------------------------------
(* What is collected when a page arrives: the lists before the current one *)
(* stay complete, and the current one is when it has no further page.      *)
LEMMA CollectedFacts ==
    ASSUME IInv, call # NoCall
    PROVE  /\ step \in 1 .. 8 /\ Reads[step] \in Methods
           /\ call \in Request /\ call.list \in 1 .. Len(ListsOf(Reads[step]))
           /\ Collected \in Value
           /\ HasFirst(Collected, Reads[step], call.list - 1)
           /\ ~(call.page < pages[ListsOf(Reads[step])[call.list]])
                 => HasFirst(Collected, Reads[step], call.list)
<1> DEFINE m == Reads[step]
           l == ListsOf(m)[call.list]
<1>1. step \in 1 .. 8 /\ call \in Request /\ call.list \in DOMAIN ListsOf(m)
  BY ReadsFacts DEF IInv, TypeOK
<1>2. m \in Methods
  BY <1>1, ReadsFacts
<1>3. /\ call.list \in 1 .. Len(ListsOf(m)) /\ call.list \in 1 .. 2
      /\ call.page \in Nat \ {0} /\ l \in Lists
  BY <1>1, <1>2, ListsFacts DEF Request
<1>4. /\ pages \in [Lists -> Nat] /\ start \in [Lists -> Nat] /\ acc \in [Lists -> Nat]
  BY PagesAssumption DEF IInv, TypeOK, Value
<1>5. Collected = [acc EXCEPT ![l] = IF call.page <= pages[l] THEN call.page ELSE acc[l]]
  BY DEF Collected
<1> DEFINE new == IF call.page <= pages[l] THEN call.page ELSE acc[l]
<1>6. new \in Nat
  BY <1>3, <1>4
<1>7. Collected = [acc EXCEPT ![l] = new]
  BY <1>5
<1>8. ~(call.page < pages[l]) => start[l] <= new
  <2>1. start[l] <= pages[l] /\ (call.page = 1 \/ call.page <= pages[l])
    BY <1>3 DEF IInv, PagesGrow, CallInv
  <2> QED
    BY <1>3, <1>4, <2>1
<1>9. HasFirst(acc, m, call.list - 1)
  BY DEF IInv, CallInv
<1> HIDE DEF new
<1>10. Collected \in Value
  BY <1>4, <1>6, <1>7 DEF Value
<1>11. Collected[l] = new /\ \A k \in Lists : k # l => Collected[k] = acc[k]
  BY <1>3, <1>4, <1>7
<1>12. \A k \in 1 .. Len(ListsOf(m)) :
          k # call.list => /\ ListsOf(m)[k] # l
                           /\ Collected[ListsOf(m)[k]] = acc[ListsOf(m)[k]]
  BY <1>2, <1>3, <1>11, ListsFacts
<1>13. HasFirst(Collected, m, call.list - 1)
  <2> SUFFICES ASSUME NEW k \in 1 .. Len(ListsOf(m)), k <= call.list - 1
               PROVE  start[ListsOf(m)[k]] <= Collected[ListsOf(m)[k]]
    BY DEF HasFirst
  <2>1. k # call.list
    BY <1>3
  <2> QED
    BY <1>9, <1>12, <2>1 DEF HasFirst
<1>14. ASSUME ~(call.page < pages[l])
       PROVE  HasFirst(Collected, m, call.list)
  <2> SUFFICES ASSUME NEW k \in 1 .. Len(ListsOf(m)), k <= call.list
               PROVE  start[ListsOf(m)[k]] <= Collected[ListsOf(m)[k]]
    BY DEF HasFirst
  <2>1. CASE k = call.list
    BY <1>8, <1>11, <1>14, <2>1
  <2>2. CASE k # call.list
    <3>1. k <= call.list - 1
      BY <1>3, <2>2
    <3> QED
      BY <1>13, <3>1 DEF HasFirst
  <2> QED
    BY <2>1, <2>2
<1> QED
  BY <1>1, <1>2, <1>3, <1>10, <1>13, <1>14

(* The next request is for the next page, or for the first page of the     *)
(* next list of the method, and there is none when every list was read.    *)
LEMMA NextRequestFacts ==
    ASSUME IInv, call # NoCall
    PROVE  \/ /\ NextRequest = NoCall
              /\ Has(Collected, Reads[step])
           \/ /\ NextRequest \in Request
              /\ NextRequest # NoCall
              /\ NextRequest.list \in 1 .. Len(ListsOf(Reads[step]))
              /\ \/ NextRequest.page = 1
                 \/ NextRequest.page <= pages[ListsOf(Reads[step])[NextRequest.list]]
              /\ HasFirst(Collected, Reads[step], NextRequest.list - 1)
<1> DEFINE m == Reads[step]
           l == ListsOf(m)[call.list]
<1>1. /\ call \in Request /\ call.list \in 1 .. Len(ListsOf(m))
      /\ m \in Methods
      /\ HasFirst(Collected, m, call.list - 1)
      /\ ~(call.page < pages[l]) => HasFirst(Collected, m, call.list)
  BY CollectedFacts
<1>2. Len(ListsOf(m)) \in 1 .. 2 /\ l \in Lists
  BY <1>1, ListsFacts
<1>3. call.list \in 1 .. 2 /\ call.page \in Nat \ {0}
  BY <1>1 DEF Request
<1>4. pages[l] \in Nat
  BY <1>2, PagesAssumption DEF IInv, TypeOK
<1>5. CASE call.page < pages[l]
  <2>1. NextRequest = [call EXCEPT !.page = call.page + 1]
    BY <1>5 DEF NextRequest
  <2>2. /\ NextRequest \in Request
        /\ NextRequest.list = call.list /\ NextRequest.page = call.page + 1
    BY <1>1, <1>3, <2>1 DEF Request
  <2>3. NextRequest # NoCall
    BY <2>2, MarkersAssumption
  <2>4. NextRequest.page <= pages[ListsOf(m)[NextRequest.list]]
    BY <1>3, <1>4, <1>5, <2>2
  <2> QED
    BY <1>1, <2>2, <2>3, <2>4
<1>6. CASE ~(call.page < pages[l]) /\ call.list < Len(ListsOf(m))
  <2>1. NextRequest = [list |-> call.list + 1, page |-> 1]
    BY <1>6 DEF NextRequest
  <2>2. call.list + 1 \in 1 .. Len(ListsOf(m)) /\ call.list + 1 \in 1 .. 2
    <3>1. \A x, y \in 1 .. 2 : x < y => x = 1 /\ y = 2
      OBVIOUS
    <3>2. call.list = 1 /\ Len(ListsOf(m)) = 2
      BY <1>2, <1>3, <1>6, <3>1
    <3> QED
      BY <3>2
  <2>3. /\ NextRequest \in Request
        /\ NextRequest.list = call.list + 1 /\ NextRequest.page = 1
    BY <2>1, <2>2 DEF Request
  <2>4. NextRequest # NoCall
    BY <2>3, MarkersAssumption
  <2>5. NextRequest.list - 1 = call.list
    BY <1>3, <2>3
  <2> QED
    BY <1>1, <1>6, <2>2, <2>3, <2>4, <2>5
<1>7. CASE ~(call.page < pages[l]) /\ ~(call.list < Len(ListsOf(m)))
  <2>1. NextRequest = NoCall
    BY <1>7 DEF NextRequest
  <2>2. \A k \in 1 .. Len(ListsOf(m)) : k <= call.list
    BY <1>2, <1>3, <1>7
  <2>3. Has(Collected, m)
    BY <1>1, <1>7, <2>2 DEF Has, HasFirst
  <2> QED
    BY <2>1, <2>3
<1> QED
  BY <1>5, <1>6, <1>7

(* A page arrives and ends the read, or another request follows.           *)
LEMMA PageArrivesInv == IInv /\ PageArrives => IInv'
<1> SUFFICES ASSUME IInv, PageArrives PROVE IInv'
  OBVIOUS
<1> DEFINE m == Reads[step]
<1>1. call # NoCall /\ UNCHANGED <<pages, start, needed>>
  BY DEF PageArrives
<1>2. step \in 1 .. 8 /\ m \in Methods /\ Collected \in Value
  BY <1>1, CollectedFacts
<1>3. \A i \in 1 .. 8 : Returned(i) /\ answers[i].value # Nothing => Reads[i] # m
  BY <1>1 DEF IInv, StableInv
<1>4. Stored(m, Collected) \in Value \cup {Nil}
  BY <1>2 DEF Stored
<1>5. /\ Stored(m, Collected) # Nil => Stored(m, Collected) = Collected
      /\ Collected # Nothing => Stored(m, Collected) = Collected
  BY DEF Stored
<1>6. CASE NextRequest = NoCall
  <2>1. /\ Return("ok", Collected, step + 1)
        /\ cache' = [cache EXCEPT ![m] = Stored(m, Collected)]
    BY <1>6 DEF PageArrives
  <2>2. Has(Collected, m)
    BY <1>1, <1>6, NextRequestFacts
  <2>3. step + 1 \in step + 1 .. 9
    BY <1>2
  <2>4. /\ answers' \in [1 .. Len(Reads) -> Answer]
        /\ AnswersInv'
        /\ ReadsAreComplete'
        /\ CommentsAreCompleteAtFirst'
        /\ AnswersAreStable'
    BY <1>1, <1>2, <1>3, <2>1, <2>2, <2>3, ReturnKeepsAnswers
  <2>5. step' = step + 1 /\ call' = NoCall /\ acc' = Nothing
    BY <2>1 DEF Return
  <2>6. cache \in [Methods -> Value \cup {Nil}]
    BY DEF IInv, TypeOK
  <2>7. /\ cache'[m] = Stored(m, Collected)
        /\ \A n \in Methods : n # m => cache'[n] = cache[n]
        /\ cache' \in [Methods -> Value \cup {Nil}]
    BY <1>2, <1>4, <2>1, <2>6
  <2>8. TypeOK'
    <3>1. Nothing \in Value
      BY DEF Nothing, Value
    <3> QED
      BY <1>1, <1>2, <2>4, <2>5, <2>7, <3>1, ReadsFacts DEF IInv, TypeOK
  <2>9. PagesGrow' /\ CallInv'
    BY <1>1, <2>5 DEF IInv, PagesGrow, CallInv
  <2>10. /\ answers'[step].value = Collected
         /\ \A i \in 1 .. 8 : i # step => answers'[i] = answers[i]
    BY <1>2, <2>1, ReadsFacts DEF Return, IInv, TypeOK
  <2>11. CacheInv'
    <3> SUFFICES ASSUME NEW n \in Methods, cache'[n] # Nil,
                        n = "Comments" => NoErrorBefore(step)'
                 PROVE  Has(cache[n], n)'
      BY DEF CacheInv
    <3>1. Has(cache'[n], n)
      <4>1. CASE n = m
        BY <1>5, <2>2, <2>7, <4>1
      <4>2. CASE n # m
        <5>1. n = "Comments" => NoErrorBefore(step)
          BY <1>2, <2>5, <2>10 DEF NoErrorBefore
        <5> QED
          BY <2>7, <4>2, <5>1 DEF IInv, CacheInv
      <4> QED
        BY <4>1, <4>2
    <3> QED
      BY <1>1, <3>1 DEF Has, HasFirst
  <2>12. StableInv'
    <3> SUFFICES ASSUME NEW i \in 1 .. 8, Returned(i)', answers[i].value' # Nothing
                 PROVE  cache'[Reads[i]] = answers[i].value'
      BY <2>5 DEF StableInv
    <3>1. CASE i = step
      BY <1>5, <2>7, <2>10, <3>1
    <3>2. CASE i # step
      <4>1. Returned(i) /\ answers[i].value # Nothing
        BY <2>10, <3>2 DEF Returned
      <4>2. Reads[i] # m /\ Reads[i] \in Methods
        BY <1>3, <4>1, ReadsFacts
      <4> QED
        BY <2>7, <2>10, <3>2, <4>1, <4>2 DEF IInv, StableInv
    <3> QED
      BY <3>1, <3>2
  <2> QED
    BY <2>4, <2>8, <2>9, <2>11, <2>12 DEF IInv
<1>7. CASE NextRequest # NoCall
  <2> DEFINE kept == IF m = "Comments" THEN Stored(m, Collected) ELSE cache[m]
  <2>1. /\ call' = NextRequest /\ acc' = Collected
        /\ cache' = [cache EXCEPT ![m] = kept]
        /\ UNCHANGED <<step, answers>>
    BY <1>7 DEF PageArrives
  <2>2. /\ NextRequest \in Request
        /\ NextRequest.list \in 1 .. Len(ListsOf(m))
        /\ \/ NextRequest.page = 1
           \/ NextRequest.page <= pages[ListsOf(m)[NextRequest.list]]
        /\ HasFirst(Collected, m, NextRequest.list - 1)
    BY <1>1, <1>7, NextRequestFacts
  <2>3. cache \in [Methods -> Value \cup {Nil}]
    BY DEF IInv, TypeOK
  <2>4. kept \in Value \cup {Nil}
    BY <1>2, <1>4, <2>3
  <2>5. m # "Comments" => kept = cache[m]
    OBVIOUS
  <2> HIDE DEF kept
  <2>6. /\ \A n \in Methods : n # m \/ m # "Comments" => cache'[n] = cache[n]
        /\ cache' \in [Methods -> Value \cup {Nil}]
    BY <1>2, <2>1, <2>3, <2>4, <2>5
  <2>7. TypeOK'
    <3>1. call'.list \in DOMAIN ListsOf(m)
      BY <1>2, <2>1, <2>2, ListsFacts
    <3> QED
      BY <1>1, <1>2, <2>1, <2>2, <2>6, <3>1, ReadsFacts DEF IInv, TypeOK
  <2>8. PagesGrow'
    BY <1>1 DEF IInv, PagesGrow
  <2>9. CallInv'
    <3>1. HasFirst(acc, Reads[step], call.list - 1)'
      BY <1>1, <2>1, <2>2 DEF HasFirst
    <3> QED
      BY <1>1, <2>1, <2>2, <3>1 DEF CallInv
  <2>10. CacheInv'
    <3> SUFFICES ASSUME NEW n \in Methods, cache'[n] # Nil,
                        n = "Comments" => m # "Comments" /\ NoErrorBefore(step)'
                 PROVE  Has(cache[n], n)'
      BY <1>7, <2>1 DEF CacheInv
    <3>1. n = "Comments" => NoErrorBefore(step)
      BY <2>1 DEF NoErrorBefore
    <3>2. cache'[n] = cache[n]
      BY <2>6
    <3>3. Has(cache[n], n)
      BY <3>1, <3>2 DEF IInv, CacheInv
    <3> QED
      BY <1>1, <3>2, <3>3 DEF Has, HasFirst
  <2>11. StableInv'
    <3> SUFFICES ASSUME NEW i \in 1 .. 8, Returned(i), answers[i].value # Nothing
                 PROVE  cache'[Reads[i]] = answers[i].value /\ Reads[i] # m
      BY <2>1 DEF StableInv, Returned
    <3>1. Reads[i] # m /\ Reads[i] \in Methods
      BY <1>3, ReadsFacts
    <3> QED
      BY <2>6, <3>1 DEF IInv, StableInv
  <2>12. /\ AnswersInv'
         /\ ReadsAreComplete'
         /\ CommentsAreCompleteAtFirst'
         /\ AnswersAreStable'
    BY <1>1, <1>2, <2>1, SameAnswers
  <2> QED
    BY <2>7, <2>8, <2>9, <2>10, <2>11, <2>12 DEF IInv
<1> QED
  BY <1>6, <1>7

-----------------------------------------------------------------------------
LEMMA Invariance == Spec => []IInv
<1>1. IInv /\ UNCHANGED vars => IInv'
  <2> SUFFICES ASSUME IInv, UNCHANGED vars PROVE IInv'
    OBVIOUS
  <2> QED
    BY DEF vars, IInv, TypeOK, PagesGrow, CallInv, AnswersInv, CacheInv, StableInv,
           ReadsAreComplete, CommentsAreCompleteAtFirst, AnswersAreStable,
           Returned, Complete, NoErrorBefore, Has, HasFirst
<1>2. IInv /\ Next => IInv'
  <2> SUFFICES ASSUME IInv, Next PROVE IInv'
    OBVIOUS
  <2> QED
    BY SkipInv, AskInv, SettleInv, PageArrivesInv, PageFailsInv, GrowInv DEF Next
<1> QED
  BY InitInv, <1>1, <1>2, PTL DEF Spec

(* The state of the context is well formed, whatever the lists and the     *)
(* failures (pull/github_context.go).                                      *)
THEOREM ContextTypeOK == Spec => []TypeOK
<1>1. IInv => TypeOK
  BY DEF IInv
<1> QED
  BY Invariance, <1>1, PTL

(* Commits, required and successful statuses have all that was there when  *)
(* the context was created, or are an error.                               *)
THEOREM ContextReadsAreComplete == Spec => []ReadsAreComplete
<1>1. IInv => ReadsAreComplete
  BY DEF IInv
<1> QED
  BY Invariance, <1>1, PTL

(* So do comments as long as no read of them failed before.                *)
THEOREM ContextCommentsAreComplete == Spec => []CommentsAreCompleteAtFirst
<1>1. IInv => CommentsAreCompleteAtFirst
  BY DEF IInv
<1> QED
  BY Invariance, <1>1, PTL

(* The update and the merge of one event see the same answers.             *)
THEOREM ContextAnswersAreStable == Spec => []AnswersAreStable
<1>1. IInv => AnswersAreStable
  BY DEF IInv
<1> QED
  BY Invariance, <1>1, PTL
=============================================================================
