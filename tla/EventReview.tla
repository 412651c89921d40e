----------------------------- MODULE EventReview -----------------------------
(***************************************************************************)
(* The candidate events of one processed video. Coaches tag moments, review *)
(* candidates and trim their windows with requests that load the row        *)
(* without a lock and write only the attributes they changed; the worker    *)
(* replaces the alpha model's candidates after each render; a coach pages   *)
(* through the listing meanwhile. The clip queue and the export compute     *)
(* windows from the rows. Times are counted in a unit that MC modules       *)
(* choose; ids stand for uuids, so a new row's id may fall anywhere.        *)
(***************************************************************************)
EXTENDS Integers, Sequences, FiniteSets

CONSTANTS
  MaxEvents,     \* rows ever created
  Budgets,       \* bounds on what happens in a behaviour
  Times,         \* event_time_ms of manual tags
  Windows,       \* pairs a client may send as clip start and end
  Candidates,    \* start and end of what a report lists
  Duration,      \* duration of the video
  Reviews,       \* reviews that may be under way at once
  Limit,         \* page size
  MaxReport,     \* candidates read of a report
  QueueLimit,    \* length of the clip queue that is asked for
  QueueFactor,   \* rows read for the queue, in multiples of its length
  RankScore,     \* _rank_score of the row that gets an id: its type and confidence never change
  ClipPre, ClipPost,        \* _DEFAULT_CLIP_PRE_MS, _DEFAULT_CLIP_POST_MS
  MaxReviewWindow,          \* _MAX_REVIEW_WINDOW_MS
  MinWindow, MaxModelWindow \* of the clip engine

ASSUME EventReviewAssumption ==
  /\ MaxEvents \in Nat /\ Budgets \subseteq [tags : Nat, imports : Nat, reviews : Nat, readers : Nat]
  /\ {Duration, Limit, MinWindow, QueueLimit, QueueFactor} \subseteq Nat \ {0}
  /\ MaxReport \in Nat /\ RankScore \in [1..MaxEvents -> Nat]
  /\ Times \subseteq 0..Duration
  /\ Windows \subseteq Nat \X Nat /\ Candidates \subseteq Int \X Int
  /\ {ClipPre, ClipPost, MaxReviewWindow, MaxModelWindow} \subseteq Nat
  /\ MinWindow <= MaxModelWindow

Ids == 1..MaxEvents
ReviewStatus == {"needs_review", "approved", "rejected"}
NoRow == [src |-> "none"]
Row == [src : {"manual", "alpha"}, status : ReviewStatus, time : Nat, start : Nat, end : Nat]
NoReview == [id |-> 0]
\* What the listing may be filtered by: a review status, a source, or nothing.
Filters == {"all", "needs_review", "alpha"}

VARIABLES
  event,    \* rows of video_events
  used,     \* ids that were ever given out
  left,     \* what the bounds still allow
  review,   \* reviews under way: the row as loaded and as it is to be
  reader,   \* a client that pages through the listing
  steady,   \* history: ids in the reader's listing since its first page
  trimmed,  \* history: rows whose window a coach chose
  stale     \* history: rows a review was committed over without having loaded them

reviewVars == <<event, used, left, review, reader, steady, trimmed, stale>>

Existing == {i \in Ids : event[i] # NoRow}
Idle == [pc |-> "idle"]

ReviewInit ==
  /\ event = [i \in Ids |-> NoRow] /\ used = {} /\ left \in Budgets
  /\ review = [r \in Reviews |-> NoReview]
  /\ reader = Idle /\ steady = {} /\ trimmed = {} /\ stale = {}

Spend(x) == left[x] > 0 /\ left' = [left EXCEPT ![x] = @ - 1]
Least(a, b) == IF a < b THEN a ELSE b
Greatest(a, b) == IF a > b THEN a ELSE b

-----------------------------------------------------------------------------
(* Windows.                                                                *)

\* _clamp_clip_time
clamp_clip_time(t) == Least(Greatest(0, t), Duration)

Clamped(w) == <<clamp_clip_time(w[1]), clamp_clip_time(w[2])>>

\* Mutant: the moment need not be inside.
window_accepted_anywhere(t, w) == w[1] < w[2] /\ w[2] - w[1] <= MaxReviewWindow

\* What _resolve_clip_window accepts of a window that has been clamped.
window_accepted(t, w) ==
  w[1] < w[2] /\ w[1] <= t /\ t <= w[2] /\ w[2] - w[1] <= MaxReviewWindow

\* The windows a request may lead to: the default one, or one it sends.
resolved_windows(t, sent) ==
  LET w == Clamped(sent) IN IF window_accepted(t, w) THEN {w} ELSE {}

default_window(t) == <<Greatest(0, t - ClipPre), t + ClipPost>>

\* _window_from_event of a row with both columns, as every row has that this
\* code inserts.
window_from_event(e) == Clamped(<<e.start, e.end>>)

-----------------------------------------------------------------------------
(* Writers.                                                                *)

\* Rows that changed may leave the reader's listing.
Shown(f, e) ==
  /\ e # NoRow
  /\ CASE f = "all" -> TRUE
       [] f = "alpha" -> e.src = "alpha"
       [] OTHER -> e.status = f

StillSteady == IF reader.pc = "idle" THEN {} ELSE {i \in steady : Shown(reader.filter, event'[i])}

create_manual_video_event(i, t, w) ==
  /\ i \notin used /\ Spend("tags")
  /\ event' = [event EXCEPT ![i] = [src |-> "manual", status |-> "needs_review",
                                    time |-> t, start |-> w[1], end |-> w[2]]]
  /\ used' = used \cup {i}
  /\ trimmed' = trimmed \cup {i}
  /\ steady' = StillSteady
  /\ UNCHANGED <<review, reader, stale>>

\* What _validated_candidate_items takes over of a report.
validated_candidates == {c \in Candidates : c[1] < c[2]}

\* A candidate of the report: the moment is the middle of its window, which
\* is not held against the duration.
candidate_row(c) ==
  LET start == Greatest(0, c[1])
      end == Greatest(0, c[2])
  IN [src |-> "alpha", status |-> "needs_review", time |-> (start + end) \div 2,
      start |-> start, end |-> end]

\* _replace_alpha_candidate_events, one transaction: every alpha row goes,
\* reviewed or not, and those of the report come.
replace_alpha_candidate_events(new) ==
  /\ Spend("imports")
  /\ DOMAIN new \cap used = {} /\ used' = used \cup DOMAIN new
  /\ event' = [i \in Ids |-> IF i \in DOMAIN new THEN candidate_row(new[i])
                             ELSE IF event[i].src = "alpha" THEN NoRow ELSE event[i]]
  /\ steady' = StillSteady
  /\ UNCHANGED <<review, reader, trimmed, stale>>

\* update_video_event_review loads the row and computes what it is to be; the
\* request sends a window or, with no element in ws, does not.
review_load(r, i, st, ws) ==
  /\ review[r] = NoReview /\ event[i] # NoRow /\ Spend("reviews")
  /\ \E to \in IF ws = {} THEN {event[i]}
              ELSE {[event[i] EXCEPT !.start = w[1], !.end = w[2]] : w \in ws} :
       review' = [review EXCEPT ![r] = [id |-> i, from |-> event[i], trims |-> ws # {},
                                        to |-> [to EXCEPT !.status = st]]]
  /\ UNCHANGED <<event, used, reader, steady, trimmed, stale>>

\* What the UPDATE leaves in a column that differs from the loaded one or not.
written(now, loaded, new) == IF new = loaded THEN now ELSE new

\* The columns a review changes are among these three.
reviewed(now, q) ==
  [now EXCEPT !.status = written(now.status, q.from.status, q.to.status),
              !.start = written(now.start, q.from.start, q.to.start),
              !.end = written(now.end, q.from.end, q.to.end)]

\* The UPDATE; a row that is gone makes it fail.
review_commit(r) ==
  LET q == review[r] IN
  /\ q # NoReview
  /\ review' = [review EXCEPT ![r] = NoReview]
  /\ IF event[q.id] = NoRow THEN UNCHANGED <<event, steady, trimmed, stale>> ELSE
       /\ event' = [event EXCEPT ![q.id] = reviewed(event[q.id], q)]
       /\ steady' = StillSteady
       /\ trimmed' = IF q.trims THEN trimmed \cup {q.id} ELSE trimmed
       /\ stale' = IF event[q.id] = q.from THEN stale ELSE stale \cup {q.id}
  /\ UNCHANGED <<used, left, reader>>

-----------------------------------------------------------------------------
(* GET /videos/{id}/events: a client that follows next_cursor.             *)

Key(i) == <<event[i].time, i>>
Before(k, l) == k[1] < l[1] \/ (k[1] = l[1] /\ k[2] < l[2])

\* Mutant: the cursor compares times only.
after_cursor_time(k, cur) == cur = <<>> \/ k[1] > cur[1]

\* The WHERE of a page: everything behind the cursor (time, id).
after_cursor(k, cur) == cur = <<>> \/ Before(cur, k)

\* ORDER BY event_time_ms, id
in_order(s) == \A m, n \in DOMAIN s : m < n => Before(Key(s[m]), Key(s[n]))
ordered(S) == CHOOSE s \in [1..Cardinality(S) -> S] : in_order(s)

\* A page: limit + 1 rows are read, the last only says that there are more.
list_video_events(f) ==
  LET cur == IF reader.pc = "idle" THEN <<>> ELSE reader.cursor
      rows == ordered({i \in Ids : Shown(f, event[i]) /\ after_cursor(Key(i), cur)})
      page == [n \in 1..Least(Limit, Len(rows)) |-> Key(rows[n])]
      more == Len(rows) > Limit
  IN /\ reader' = [pc |-> IF more THEN "more" ELSE "done", filter |-> f,
                   cursor |-> IF more THEN page[Limit] ELSE cur,
                   seen |-> (IF reader.pc = "idle" THEN <<>> ELSE reader.seen) \o page]
     /\ steady' = IF reader.pc = "idle" THEN {i \in Ids : Shown(f, event[i])} ELSE steady
     /\ UNCHANGED <<event, used, review, trimmed, stale>>

first_page(f) == reader.pc = "idle" /\ Spend("readers") /\ list_video_events(f)
next_page == reader.pc = "more" /\ list_video_events(reader.filter) /\ UNCHANGED left

-----------------------------------------------------------------------------
(* GET /videos/{id}/clip-proposals, a read: what it may return.             *)

\* _window_override
window_override(v) == Greatest(MinWindow, Least(MaxModelWindow, v))

\* _clip_event_from_row: how far the row's window reaches before and after the
\* moment; less than nothing when the clamped window has moved past it.
clip_reach(e) == LET w == window_from_event(e) IN <<e.time - w[1], w[2] - e.time>>

\* Mutant: the end of the video is not looked at.
proposal_past_end(e) ==
  LET center == clamp_clip_time(e.time)
  IN <<Greatest(0, center - window_override(clip_reach(e)[1])),
       center + window_override(clip_reach(e)[2])>>

\* The window that build_clip_proposals makes of a row.
proposal(e) ==
  LET center == clamp_clip_time(e.time)
      start == Greatest(0, center - window_override(clip_reach(e)[1]))
      end == Least(Duration, center + window_override(clip_reach(e)[2]))
  IN IF end <= start THEN <<Greatest(0, Duration - MinWindow), Duration>> ELSE <<start, end>>

Waiting == {i \in Existing : event[i].status = "needs_review"}

\* The first rows of S by time, as many as are read; rows of one time may come
\* in any order.
first_rows(S) ==
  {F \in SUBSET S : /\ Cardinality(F) = Least(QueueFactor * QueueLimit, Cardinality(S))
                    /\ \A i \in F, j \in S \ F : event[i].time <= event[j].time}

\* Mutant: the review status is looked at after the first rows were read.
fetched_any_status == first_rows(Existing)

\* The SELECT of list_video_clip_proposals.
fetched == first_rows(Waiting)

\* Rows of which a clip is made: they wait, and their window is not empty.
clips(F) == {i \in F \cap Waiting : LET w == proposal(event[i]) IN w[1] < w[2]}

\* Clip i is sorted before clip j: by score, start and id.
Ahead(i, j) ==
  \/ RankScore[i] > RankScore[j]
  \/ /\ RankScore[i] = RankScore[j]
     /\ Before(<<proposal(event[i])[1], i>>, <<proposal(event[j])[1], j>>)

\* The sorted clips, cut at the limit.
build_clip_proposals(F) ==
  LET made == clips(F) IN
  {Q \in SUBSET made : /\ Cardinality(Q) = Least(QueueLimit, Cardinality(made))
                       /\ \A i \in Q, j \in made \ Q : Ahead(i, j)}

\* The queues that a request may be answered with.
proposals == UNION {build_clip_proposals(F) : F \in fetched}

\* export_video_events of a review status.
export_rows(st) == {<<i, window_from_event(event[i])>> : i \in {j \in Existing : event[j].status = st}}

-----------------------------------------------------------------------------
Reports == UNION {[S -> validated_candidates] : S \in {S \in SUBSET Ids : Cardinality(S) <= MaxReport}}

ReviewNext ==
  \/ \E i \in Ids, t \in Times :
       \E w \in UNION {resolved_windows(t, s) : s \in Windows \cup {default_window(t)}} :
         create_manual_video_event(i, t, w)
  \/ \E new \in Reports : replace_alpha_candidate_events(new)
  \/ \E r \in Reviews, i \in Existing, st \in ReviewStatus :
       \E ws \in {{}} \cup ({resolved_windows(event[i].time, s) : s \in Windows} \ {{}}) :
         review_load(r, i, st, ws)
  \/ \E r \in Reviews : review_commit(r)
  \/ \E f \in Filters : first_page(f)
  \/ next_page

ReviewSpec == ReviewInit /\ [][ReviewNext]_reviewVars

-----------------------------------------------------------------------------
(* Properties.                                                             *)

\* Type invariant.
ReviewTypeOK ==
  /\ event \in [Ids -> Row \cup {NoRow}] /\ used \subseteq Ids
  /\ left \in [tags : Nat, imports : Nat, reviews : Nat, readers : Nat]
  /\ review \in [Reviews -> [id : Ids, from : Row, to : Row, trims : BOOLEAN] \cup {NoReview}]
  /\ reader.pc \in {"idle", "more", "done"}
  /\ {steady, trimmed, stale} \subseteq SUBSET Ids

\* No page repeats an event or steps back, although candidates are tagged,
\* reviewed, deleted and imported between the pages (list_video_events,
\* _encode_event_cursor).
PagesAdvance ==
  reader.pc # "idle" =>
    \A m, n \in DOMAIN reader.seen : m < n => Before(reader.seen[m], reader.seen[n])

\* A client that has followed next_cursor to the end has seen every event
\* that belonged to its listing all the while, events that share a time with
\* the last of a page included (list_video_events).
NothingMissed ==
  reader.pc = "done" => \A i \in steady : \E n \in DOMAIN reader.seen : reader.seen[n][2] = i

\* The moment of an event lies inside its stored window, even when two
\* reviews that trim it mix their ends (_resolve_clip_window,
\* update_video_event_review, _replace_alpha_candidate_events).
MomentInsideWindow ==
  \A i \in Existing : event[i].start <= event[i].time /\ event[i].time <= event[i].end

\* A window that a coach chose is not empty and "cannot exceed 60 seconds",
\* unless a review was committed over a row that it had not loaded
\* (_resolve_clip_window, update_video_event_review).
TrimmedWindowValid ==
  \A i \in (Existing \cap trimmed) \ stale :
    event[i].start < event[i].end /\ event[i].end - event[i].start <= MaxReviewWindow

\* The clip queue is full or shows every candidate that waits, so that a coach
\* who works until it is empty has reviewed them all: what was reviewed crowds
\* nothing out, and no window the report put behind the end of the video or
\* across it makes a candidate disappear. What a full queue leaves out does not
\* rank before what it shows, unless more wait than are read. Every clip lies in
\* the video (list_video_clip_proposals, build_clip_proposals).
QueueIsComplete ==
  LET waits == Waiting IN
  \A Q \in proposals :
    /\ Q = waits \/ (Q \subseteq waits /\ Cardinality(Q) = QueueLimit)
    /\ Cardinality(waits) <= QueueFactor * QueueLimit =>
         \A i \in Q, j \in waits \ Q : Ahead(i, j)
    /\ \A i \in Q : 0 <= proposal(event[i])[1] /\ proposal(event[i])[2] <= Duration

\* No export has a window that leaves the video or ends before it starts
\* (export_video_events, _window_from_event).
ExportInsideVideo ==
  \A st \in ReviewStatus : \A x \in export_rows(st) :
    0 <= x[2][1] /\ x[2][1] <= x[2][2] /\ x[2][2] <= Duration

\* A listing read page by page is complete and in order (list_video_events).
ListingComplete == PagesAdvance /\ NothingMissed

\* Every stored and every exported window lies where it may
\* (_resolve_clip_window, _window_from_event).
WindowsSound == ReviewTypeOK /\ MomentInsideWindow /\ TrimmedWindowValid /\ ExportInsideVideo
=============================================================================
