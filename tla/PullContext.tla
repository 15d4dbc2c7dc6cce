----------------------------- MODULE PullContext -----------------------------
(***************************************************************************)
(* pull/github_context.go: the context through which one event is handled. *)
(* It reads lists from GitHub page by page, any page may fail, and it      *)
(* caches what it read.  An update and a merge are decided one after the   *)
(* other with the same context (server/handler), so what a failed read of  *)
(* the first leaves in the cache is what the second sees.                  *)
(*                                                                         *)
(* A list is the number of its pages and what was read of it is a prefix,  *)
(* the number of pages read.  Lists grow while they are read; items that   *)
(* disappear and so shift later pages are left out.                        *)
(***************************************************************************)
EXTENDS Naturals, Sequences

CONSTANTS
    MaxPages,   \* bound on the pages of a list
    Initial,    \* the pages every list may have when the event is handled
    Growing,    \* the lists that grow while it is handled
    Nil,        \* a cached field that is not set
    NoCall      \* no request is being made

(* The lists behind each method of the context, in the order it reads      *)
(* them.  Branch protection is one object, a list of one page.             *)
Lists == {"reviewComments", "issueComments", "commits", "combinedStatus",
          "checkRuns", "protection"}

ASSUME PagesAssumption ==
    /\ MaxPages \in Nat
    /\ Initial \subseteq [Lists -> 0 .. MaxPages]
    /\ \A p \in Initial : p["protection"] = 1
    /\ Growing \subseteq Lists \ {"protection"}

Methods == {"Comments", "Commits", "RequiredStatuses", "CurrentSuccessStatuses"}

ListsOf(method) ==
    CASE method = "Comments"               -> <<"reviewComments", "issueComments">>
      [] method = "Commits"                -> <<"commits">>
      [] method = "RequiredStatuses"       -> <<"protection">>
      [] method = "CurrentSuccessStatuses" -> <<"combinedStatus", "checkRuns">>

(* How much was read of every list.                                        *)
Value == [Lists -> Nat]
Nothing == [l \in Lists |-> 0]

(* A request: which of the lists of the method, and which page of it.      *)
Request == [list : 1 .. 2, page : Nat \ {0}]

ASSUME MarkersAssumption == Nil \notin Value /\ NoCall \notin Request

(* The reads of one event, in the order of the code: two for the update,   *)
(* three for the merge, comments signals and max_commits for the merge     *)
(* method, and the commits again for the message of a squash commit.       *)
Reads == <<"Comments", "CurrentSuccessStatuses",
           "Comments", "RequiredStatuses", "CurrentSuccessStatuses",
           "Comments", "Commits", "Commits">>
FirstOfMerge == 3
ReadOfMaxCommits == 7
Done == Len(Reads) + 1

(* A failed read ends the decision it is for: the handler logs the error   *)
(* of an update and goes on to the merge.  max_commits ignores the error.  *)
AfterFailure(i) ==
    CASE i < FirstOfMerge -> FirstOfMerge
      [] i = ReadOfMaxCommits -> i + 1
      [] OTHER -> Done

VARIABLES
    pages,      \* pages[l]: the pages list l has on GitHub now
    start,      \* history: pages when the context was created
    needed,     \* the reads that the configuration asks for
    step,       \* the read that is made or comes next
    call,       \* the request being made: a list of the method, and a page
    acc,        \* what the method has collected
    cache,      \* cache[m]: the cached field of method m
    answers     \* history: what each read returned

vars == <<pages, start, needed, step, call, acc, cache, answers>>

Answer == [status : {"none", "error", "ok"}, value : Value]
NoAnswer == [status |-> "none", value |-> Nothing]

TypeOK ==
    /\ pages \in [Lists -> 0 .. MaxPages]
    /\ start \in [Lists -> 0 .. MaxPages]
    /\ needed \in SUBSET (1 .. Len(Reads))
    /\ step \in 1 .. Done
    /\ call \in Request \cup {NoCall}
    /\ call # NoCall => step # Done /\ call.list \in DOMAIN ListsOf(Reads[step])
    /\ acc \in Value
    /\ cache \in [Methods -> Value \cup {Nil}]
    /\ answers \in [1 .. Len(Reads) -> Answer]

(* The branch protection is read by every merge decision.                  *)
Init ==
    /\ pages \in Initial
    /\ start = pages
    /\ needed \in {n \in SUBSET (1 .. Len(Reads)) : 4 \in n}
    /\ step = 1
    /\ call = NoCall
    /\ acc = Nothing
    /\ cache = [m \in Methods |-> Nil]
    /\ answers = [i \in 1 .. Len(Reads) |-> NoAnswer]

-----------------------------------------------------------------------------
(* Slices that nothing was appended to are nil, and read again; commits    *)
(* and branch protection are set even when there are none.                 *)
Stored(method, value) ==
    IF method \in {"Comments", "CurrentSuccessStatuses"} /\ value = Nothing
      THEN Nil ELSE value

(* A mutation of CacheHit: the cached field is never used.                 *)
CacheNeverHit(method) == FALSE

CacheHit(method) == cache[method] # Nil

Return(status, value, next) ==
    /\ answers' = [answers EXCEPT ![step] = [status |-> status, value |-> value]]
    /\ step' = next
    /\ call' = NoCall
    /\ acc' = Nothing

(* A read that is not needed is not made.                                  *)
Skip ==
    /\ call = NoCall
    /\ step # Done
    /\ step \notin needed
    /\ step' = step + 1
    /\ UNCHANGED <<pages, start, needed, call, acc, cache, answers>>

(* The method is called: it answers from the cache or starts to page.      *)
Ask ==
    /\ call = NoCall
    /\ step \in needed
    /\ IF CacheHit(Reads[step])
         THEN Return("ok", cache[Reads[step]], step + 1)
         ELSE /\ call' = [list |-> 1, page |-> 1]
              /\ UNCHANGED <<step, acc, answers>>
    /\ UNCHANGED <<pages, start, needed, cache>>

(* The evaluation is settled without the read: after an update nothing is  *)
(* left to do, without one the merge is decided.                           *)
Settle ==
    /\ call = NoCall
    /\ step # Done
    /\ step' = Done \/ (step < FirstOfMerge /\ step' = FirstOfMerge)
    /\ UNCHANGED <<pages, start, needed, call, acc, cache, answers>>

(* What has been read of the current list once this page arrived.          *)
Collected ==
    LET l == ListsOf(Reads[step])[call.list]
    IN  [acc EXCEPT ![l] = IF call.page <= pages[l] THEN call.page ELSE @]

(* A mutation of NextRequest: the second list is forgotten.                *)
NextRequestFirstListOnly ==
    LET l == ListsOf(Reads[step])[call.list]
    IN  IF call.page < pages[l] THEN [call EXCEPT !.page = @ + 1] ELSE NoCall

(* Another one: the bound on the lists is off by one.                      *)
NextRequestOneListMore ==
    LET lists == ListsOf(Reads[step])
    IN  IF call.page < pages[lists[call.list]] THEN [call EXCEPT !.page = @ + 1]
        ELSE IF call.list <= Len(lists) THEN [list |-> call.list + 1, page |-> 1]
        ELSE NoCall

(* The page named by NextPage, the next list, or no request any more.      *)
NextRequest ==
    LET lists == ListsOf(Reads[step])
    IN  IF call.page < pages[lists[call.list]] THEN [call EXCEPT !.page = @ + 1]
        ELSE IF call.list < Len(lists) THEN [list |-> call.list + 1, page |-> 1]
        ELSE NoCall

(* A page arrives.  Comments appends to the cached field itself, the other *)
(* methods collect, and set the field when they have everything.           *)
PageArrives ==
    /\ call # NoCall
    /\ LET method == Reads[step]
       IN  IF NextRequest = NoCall
             THEN /\ Return("ok", Collected, step + 1)
                  /\ cache' = [cache EXCEPT ![method] = Stored(method, Collected)]
             ELSE /\ call' = NextRequest
                  /\ acc' = Collected
                  /\ cache' = [cache EXCEPT ![method] =
                                 IF method = "Comments" THEN Stored(method, Collected)
                                                        ELSE @]
                  /\ UNCHANGED <<step, answers>>
    /\ UNCHANGED <<pages, start, needed>>

(* A mutation of PageFails: every method keeps what it has, as Comments    *)
(* does.                                                                   *)
PageFailsKeeping ==
    /\ call # NoCall
    /\ Return("error", Nothing, AfterFailure(step))
    /\ cache' = [cache EXCEPT ![Reads[step]] = Stored(Reads[step], acc)]
    /\ UNCHANGED <<pages, start, needed>>

(* A request fails, and with it the read.  The cache stays as it is.       *)
PageFails ==
    /\ call # NoCall
    /\ Return("error", Nothing, AfterFailure(step))
    /\ UNCHANGED <<pages, start, needed, cache>>

(* Somebody comments, pushes or reports a status.                          *)
Grow(l) ==
    /\ step # Done
    /\ pages[l] < MaxPages
    /\ pages' = [pages EXCEPT ![l] = @ + 1]
    /\ UNCHANGED <<start, needed, step, call, acc, cache, answers>>

Next ==
    \/ Skip
    \/ Ask
    \/ Settle
    \/ PageArrives
    \/ PageFails
    \/ \E l \in Growing : Grow(l)

Spec == Init /\ [][Next]_vars

-----------------------------------------------------------------------------
Returned(i) == answers[i].status = "ok"

(* The answer of read i has everything there was when the context was      *)
(* created.                                                                *)
Complete(i) ==
    \A k \in DOMAIN ListsOf(Reads[i]) :
        start[ListsOf(Reads[i])[k]] <= answers[i].value[ListsOf(Reads[i])[k]]

(* Commits, required and successful statuses have all that was there when  *)
(* the context was created, or are an error, whichever pages of whichever  *)
(* earlier reads of the event failed.                                      *)
ReadsAreComplete ==
    \A i \in DOMAIN Reads : Returned(i) /\ Reads[i] # "Comments" => Complete(i)

(* Comments are complete too as long as no read of them failed before.     *)
CommentsAreCompleteAtFirst ==
    \A i \in DOMAIN Reads :
        /\ Returned(i)
        /\ Reads[i] = "Comments"
        /\ \A j \in 1 .. i - 1 : Reads[j] = "Comments" => answers[j].status # "error"
        => Complete(i)

(* The update and the merge of one event are decided on the same answers:  *)
(* what a method returned once it returns again, unless it was nothing.    *)
AnswersAreStable ==
    \A i, j \in DOMAIN Reads :
        /\ i < j /\ Reads[i] = Reads[j]
        /\ Returned(i) /\ Returned(j)
        /\ answers[i].value # Nothing
        => answers[i].value = answers[j].value

(* evaluate.go:31: "ignore must always fail closed (matches on error)": a  *)
(* comment that was there is among those an ignore signal is compared      *)
(* with, or there is an error.                                             *)
CommentsAreCompleteOrFail ==
    \A i \in DOMAIN Reads : Returned(i) /\ Reads[i] = "Comments" => Complete(i)
=============================================================================
