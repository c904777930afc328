------------------------------ MODULE FollowUp ------------------------------
(***************************************************************************)
(* What a library run does about Jellyfin: it notes every date added before *)
(* the first move, reports each move as it lands, and from then on one      *)
(* goroutine per item polls until Jellyfin has indexed the item at its new  *)
(* path, puts the dates back and asks for a refresh.  When the last move    *)
(* is over it waits for all of them, does in one batch what could not be    *)
(* reported, and starts the user-data restore only if all went well.        *)
(*                                                                          *)
(* Jellyfin is external: it notices a folder when it likes, an episode at a *)
(* time, its own scan is still saving an item while Coldarr writes to it,   *)
(* and any request to it can fail.                                          *)
(***************************************************************************)
EXTENDS Integers, FiniteSets, Functions

CONSTANTS
  Movies, Series,  \* the items the plan moves
  Leaves,          \* Leaves[i]: the movie itself, or the episodes; one date each
  FaultMax         \* bound on failed requests, and items dropped

Items   == Movies \cup Series
AllLeaves == UNION Range(Leaves)
Workers == Items \cup {"batch"}  \* the calls of ResolveAndRefresh there can be

ASSUME ItemsAssumption == /\ Movies \cap Series = {} /\ "batch" \notin Items
                          /\ Leaves \in [Items -> SUBSET AllLeaves]
                          /\ \A i \in Items : Leaves[i] # {}
                          /\ \A i, j \in Items : i # j => Leaves[i] \cap Leaves[j] = {}
ASSUME MoviesAssumption == \A i \in Movies : Cardinality(Leaves[i]) = 1
ASSUME FaultAssumption == FaultMax \in Nat

ItemOf(l) == CHOOSE i \in Items : l \in Leaves[i]

\* A date the move set is later than any in the snapshot.
Dates  == {"old", "move"}
Absent == [date |-> "none", meta |-> "none"]
Entry  == [date : Dates, meta : {"new", "scanned", "full"}] \cup {Absent}

VARIABLES
  stage,     \* of the run: "snapshot", "moving", "waiting", "batch", "over"
  added,     \* the leaves whose date added was recorded
  status,    \* status[i]: "moving", "reported", "unreported", "unrecorded", "failed"
  told,      \* told[i]: reports of the item that Jellyfin may have acted on
  work,      \* work[w]: the call of ResolveAndRefresh
  verdict,   \* of NotifyJellyfinMoved
  scan,      \* the whole-library scan was asked for
  restore,   \* Jellyfin was asked to start the user-data restore
  listed,    \* items Jellyfin lists at the new path
  leaf,      \* leaf[l]: what Jellyfin has of it
  scanning,  \* scanning[l]: the copy Jellyfin's scan is about to save
  queue,     \* refreshes Jellyfin has accepted and not done
  accepted,  \* items whose refresh was answered with success
  excused,   \* leaves a failure, a race or the deadline cost their date
  faults

jellyfin == <<listed, leaf, scanning, queue>>
run      == <<stage, added, status, told, verdict, scan, restore>>
vars     == <<run, work, jellyfin, accepted, excused, faults>>

-----------------------------------------------------------------------------
(* ResolveAndRefresh: at is where the call has got to, seen the items of the *)
(* round still to be looked at, shown the movies' dates as listed, todo the  *)
(* leaves to be written and copy what was read of the one being written.     *)

Idle == [at |-> "idle", pending |-> {}, final |-> FALSE, seen |-> {}, item |-> "none",
         shown |-> [l \in AllLeaves |-> "none"], todo |-> {},
         copy |-> [leaf |-> "none", entry |-> Absent], failed |-> {}]

Resolve(items) == [Idle EXCEPT !.at = IF items = {} THEN "done" ELSE "round", !.pending = items]

Init ==
  /\ stage = "snapshot"
  /\ added = {}
  /\ status = [i \in Items |-> "moving"]
  /\ told = [i \in Items |-> 0]
  /\ work = [w \in Workers |-> Idle]
  /\ verdict = "none"
  /\ scan = FALSE
  /\ restore = FALSE
  /\ listed = {}
  /\ leaf = [l \in AllLeaves |-> Absent]
  /\ scanning = [l \in AllLeaves |-> Absent]
  /\ queue = {}
  /\ accepted = {}
  /\ excused = {}
  /\ faults = 0

Fault == faults < FaultMax /\ faults' = faults + 1
Fine  == UNCHANGED faults

ItemsByFolder(items) == items \cap listed

\* The dates that come with a listing, of the movies some user can see.
Listed(items) == [l \in AllLeaves |-> IF ItemOf(l) \in items \cap Movies THEN leaf[l].date ELSE "none"]

\* One listing of the library for everything still pending.  A movie's date comes
\* with it.  Whether this round is the last is decided as it starts.
ListItems(w, final) ==
  /\ work[w].at = "round"
  /\ \/ Fine /\ work' = [work EXCEPT ![w].at = "picking", ![w].final = final, ![w].seen = ItemsByFolder(work[w].pending),
                           ![w].shown = Listed(ItemsByFolder(work[w].pending))]
     \/ Fault /\ work' = [work EXCEPT ![w].at = "picking", ![w].final = final]
  /\ UNCHANGED <<run, jellyfin, accepted, excused>>

\* Mutant of MustWait: a series is dated as soon as it is listed.
NeverWaits(i, missing, final) == FALSE

MustWait(i, missing, final) == missing # {} /\ ~final /\ i \in Series

\* putBackAddedDates, of an item being looked at: what to write, once nothing is
\* missing or it is too late to wait.
PutBackAddedDates(w, i, shown) ==
  LET missing == {l \in Leaves[i] \cap added : shown[l] = "none"}
  IN IF MustWait(i, missing, work[w].final)
     THEN /\ work' = [work EXCEPT ![w].at = "picking", ![w].seen = @ \ {i}, ![w].item = "none"]
          /\ UNCHANGED excused
     ELSE /\ work' = [work EXCEPT ![w].at = "writing", ![w].seen = @ \ {i}, ![w].item = i,
                                  ![w].shown = [l \in AllLeaves |-> IF l \in Leaves[i] THEN "none" ELSE @[l]],
                                  ![w].todo = {l \in Leaves[i] \cap added : shown[l] = "move"}]
          /\ excused' = IF work[w].final \/ i \in Movies THEN excused \cup missing ELSE excused

\* The next item of the round.  Without dates in the snapshot there are none to put
\* back; the episodes of a series are yet to be read.
Pick(w, i) ==
  /\ work[w].at = "picking" /\ i \in work[w].seen
  /\ IF i \in Series /\ Leaves[i] \cap added # {}
     THEN /\ work' = [work EXCEPT ![w].at = "reading", ![w].seen = @ \ {i}, ![w].item = i]
          /\ UNCHANGED excused
     ELSE PutBackAddedDates(w, i, work[w].shown)
  /\ Fine
  /\ UNCHANGED <<run, jellyfin, accepted>>

\* The episodes of a series, with their dates.  Until the last round a failure
\* leaves the series pending; then it is refreshed as it is.
ReadLeaves(w) ==
  /\ work[w].at = "reading"
  /\ LET i == work[w].item
     IN \/ Fine /\ PutBackAddedDates(w, i, [l \in AllLeaves |-> leaf[l].date])
        \/ /\ Fault
           /\ IF work[w].final
              THEN work' = [work EXCEPT ![w].at = "writing"] /\ excused' = excused \cup Leaves[i]
              ELSE work' = [work EXCEPT ![w].at = "picking", ![w].item = "none"] /\ UNCHANGED excused
  /\ UNCHANGED <<run, jellyfin, accepted>>

\* setDateCreated: the item is read whole ...
ReadItem(w, l) ==
  /\ work[w].at = "writing" /\ l \in work[w].todo
  /\ \/ /\ leaf[l] # Absent
        /\ Fine
        /\ work' = [work EXCEPT ![w].at = "posting", ![w].todo = @ \ {l},
                      ![w].copy = [leaf |-> l, entry |-> leaf[l]]]
        /\ UNCHANGED excused
     \/ /\ IF leaf[l] = Absent THEN Fine ELSE Fault
        /\ work' = [work EXCEPT ![w].todo = @ \ {l}]
        /\ excused' = excused \cup {l}
  /\ UNCHANGED <<run, jellyfin, accepted>>

\* ... and sent back whole with the old date.  A failed request may have been
\* carried out.
PostItem(w) ==
  /\ work[w].at = "posting"
  /\ LET l == work[w].copy.leaf
         Write == leaf' = [leaf EXCEPT ![l] = [work[w].copy.entry EXCEPT !.date = "old"]]
     IN \/ leaf[l] # Absent /\ Fine /\ Write /\ UNCHANGED excused
        \/ leaf[l] # Absent /\ Fault /\ (Write \/ UNCHANGED leaf) /\ excused' = excused \cup {l}
        \/ leaf[l] = Absent /\ Fine /\ UNCHANGED leaf /\ excused' = excused \cup {l}
  /\ work' = [work EXCEPT ![w].at = "writing", ![w].copy = Idle.copy]
  /\ UNCHANGED <<run, listed, scanning, queue, accepted>>

\* The refresh.  Not found: the listing was stale, and the item stays pending.
RefreshItem(w) ==
  /\ work[w].at = "writing" /\ work[w].todo = {}
  /\ LET i == work[w].item
         Onward == [work EXCEPT ![w].at = "picking", ![w].item = "none"]
     IN \/ /\ i \in listed
           /\ Fine
           /\ queue' = queue \cup {i}
           /\ accepted' = accepted \cup {i}
           /\ work' = [Onward EXCEPT ![w].pending = @ \ {i}]
        \/ /\ i \notin listed
           /\ Fine
           /\ work' = Onward
           /\ UNCHANGED <<queue, accepted>>
        \/ /\ Fault
           /\ queue' \in {queue, queue \cup ({i} \cap listed)}
           /\ work' = [Onward EXCEPT ![w].pending = @ \ {i}, ![w].failed = @ \cup {i}]
           /\ UNCHANGED accepted
  /\ UNCHANGED <<run, listed, leaf, scanning, excused>>

\* The end of a round: over when nothing is pending or this was the last one;
\* otherwise the call sleeps, and the sleep is cut to what is left of its budget.
EndRound(w) ==
  /\ work[w].at = "picking" /\ work[w].seen = {}
  /\ work' = IF work[w].pending = {} \/ work[w].final
              THEN [work EXCEPT ![w] = [Idle EXCEPT !.at = "done", !.failed = work[w].failed \cup work[w].pending]]
              ELSE [work EXCEPT ![w].at = "round"]
  /\ Fine
  /\ UNCHANGED <<run, jellyfin, accepted, excused>>

-----------------------------------------------------------------------------
(* The run *)

\* StartJellyfinFollowUp: a series that cannot be listed loses its own dates, a
\* library that cannot be listed loses them all, and the run goes on.
SnapshotAddedDates ==
  /\ stage = "snapshot"
  /\ \/ added' = AllLeaves /\ Fine
     \/ Fault /\ (added' = {} \/ \E i \in Series : added' = AllLeaves \ Leaves[i])
  /\ stage' = "moving"
  /\ UNCHANGED <<status, told, work, verdict, scan, restore, jellyfin, accepted, excused>>

\* The folder the item left and the one it is in, in two requests; it has failed
\* when either has, or when an answer was lost, and may have reached Jellyfin then.
ReportMoved(items) == told' = [i \in Items |-> IF i \in items THEN told[i] + 1 ELSE told[i]]

\* Landed: the move is reported, and a report that went through starts the
\* item's follow-up; then it is recorded, and one that is not counts as failed.
Landed(i) ==
  /\ stage = "moving" /\ status[i] = "moving"
  /\ \/ /\ Fine
        /\ status' = [status EXCEPT ![i] = "reported"]
        /\ ReportMoved({i})
        /\ work' = [work EXCEPT ![i] = Resolve({i})]
     \/ /\ Fault
        /\ status' = [status EXCEPT ![i] = "unreported"]
        /\ ReportMoved({i}) \/ UNCHANGED told
        /\ UNCHANGED work
     \/ /\ Fault
        /\ status' = [status EXCEPT ![i] = "unrecorded"]
        /\ ReportMoved({i})
        /\ work' = [work EXCEPT ![i] = Resolve({i})]
  /\ UNCHANGED <<stage, added, verdict, scan, restore, jellyfin, accepted, excused>>

MoveFails(i) ==
  /\ stage = "moving" /\ status[i] = "moving"
  /\ Fault
  /\ status' = [status EXCEPT ![i] = "failed"]
  /\ UNCHANGED <<stage, added, told, work, verdict, scan, restore, jellyfin, accepted, excused>>

Moved == {i \in Items : status[i] \in {"reported", "unreported"}}

\* The run is drained; without a move that went well there is nothing to notify.
MovesOver ==
  /\ stage = "moving" /\ \A i \in Items : status[i] # "moving"
  /\ stage' = IF Moved = {} THEN "over" ELSE "waiting"
  /\ Fine
  /\ UNCHANGED <<added, status, told, work, verdict, scan, restore, jellyfin, accepted, excused>>

\* Mutant of Outcomes: one that went well is taken for none.
FailedOutcomes(i) == work[i].at = "done" /\ work[i].failed # {}

\* wait: results by landed path.
Outcomes(i) == work[i].at = "done"

Left == {i \in Moved : ~Outcomes(i)}

\* Mutant of Unreported: every report is repeated.
MovedAll == Moved

Unreported == {i \in Left : status[i] = "unreported"}

\* NotifyJellyfinMoved waits for the goroutines, takes up what had none, reports
\* what was not reported, whose failure no longer matters, and resolves it all.
NotifyJellyfinMoved ==
  /\ stage = "waiting"
  /\ \A i \in Items : work[i].at \in {"idle", "done"}
  /\ \/ Fine /\ ReportMoved(Unreported)
     \/ Unreported # {} /\ Fault /\ (ReportMoved(Unreported) \/ UNCHANGED told)
  /\ stage' = "batch"
  /\ work' = [work EXCEPT !["batch"] = Resolve(Left)]
  /\ UNCHANGED <<added, status, verdict, scan, restore, jellyfin, accepted, excused>>

\* Mutant of Failed: what the goroutines could not do is forgotten.
FailedInBatch == work["batch"].failed

Failed == work["batch"].failed \cup UNION {work[i].failed : i \in Moved}

\* The restore, once; whether the plugin is there or it runs already is not looked at.
StartScheduledTask == restore' = TRUE

\* With anything left undone the whole library is scanned and the run has failed;
\* otherwise the restore may start.
Notified ==
  /\ stage = "batch" /\ work["batch"].at = "done"
  /\ IF Failed = {} THEN verdict' = "ok" /\ StartScheduledTask /\ UNCHANGED scan
     ELSE verdict' = "error" /\ scan' = TRUE /\ UNCHANGED restore
  /\ stage' = "over"
  /\ Fine
  /\ UNCHANGED <<added, status, told, work, jellyfin, accepted, excused>>

-----------------------------------------------------------------------------
(* Jellyfin, external *)

\* A folder is noticed: a movie with its file, a series before its episodes.
\* The new file is dated by the move, unless the filesystem kept the old date.
Appears(i) ==
  /\ status[i] \in {"reported", "unreported", "unrecorded"} /\ i \notin listed
  /\ listed' = listed \cup {i}
  /\ \E d \in Dates : leaf' = IF i \in Movies THEN [l \in AllLeaves |-> IF l \in Leaves[i] THEN [date |-> d, meta |-> "new"] ELSE leaf[l]]
                            ELSE leaf
  /\ Fine
  /\ UNCHANGED <<run, work, scanning, queue, accepted, excused>>

EpisodeAppears(l) ==
  /\ ItemOf(l) \in listed \cap Series /\ leaf[l] = Absent
  /\ \E d \in Dates : leaf' = [leaf EXCEPT ![l] = [date |-> d, meta |-> "new"]]
  /\ Fine
  /\ UNCHANGED <<run, work, listed, scanning, queue, accepted, excused>>

\* The scan that found a leaf fills it in: it works on a copy and saves that.
ScanTakes(l) ==
  /\ leaf[l].meta = "new" /\ scanning[l] = Absent
  /\ scanning' = [scanning EXCEPT ![l] = leaf[l]]
  /\ Fine
  /\ UNCHANGED <<run, work, listed, leaf, queue, accepted, excused>>

ScanSaves(l) ==
  /\ scanning[l] # Absent
  /\ leaf' = [leaf EXCEPT ![l] = [scanning[l] EXCEPT !.meta = "scanned"]]
  /\ excused' = IF leaf[l].date # scanning[l].date THEN excused \cup {l} ELSE excused
  /\ scanning' = [scanning EXCEPT ![l] = Absent]
  /\ Fine
  /\ UNCHANGED <<run, work, listed, queue, accepted>>

FullRefresh(entry) == [entry EXCEPT !.meta = "full"]

\* A full refresh renews everything but the date added, after the scan of the item.
RefreshRuns(i) ==
  /\ i \in queue
  /\ \A l \in Leaves[i] : scanning[l] = Absent
  /\ leaf' = [l \in AllLeaves |-> IF l \in Leaves[i] /\ leaf[l] # Absent THEN FullRefresh(leaf[l]) ELSE leaf[l]]
  /\ queue' = queue \ {i}
  /\ Fine
  /\ UNCHANGED <<run, work, listed, scanning, accepted, excused>>

\* An item that was listed is dropped again before it is refreshed.
Vanishes(i) ==
  /\ i \in listed /\ i \notin accepted \cup queue
  /\ \A l \in Leaves[i] : leaf[l].meta # "full" /\ scanning[l] = Absent
  /\ Fault
  /\ listed' = listed \ {i}
  /\ leaf' = [l \in AllLeaves |-> IF l \in Leaves[i] THEN Absent ELSE leaf[l]]
  /\ excused' = excused \cup (Leaves[i] \cap added)
  /\ UNCHANGED <<run, work, scanning, queue, accepted>>

-----------------------------------------------------------------------------
ResolveAndRefresh(w) ==
  \/ \E final \in BOOLEAN : ListItems(w, final)
  \/ \E i \in Items : Pick(w, i)
  \/ ReadLeaves(w)
  \/ \E l \in AllLeaves : ReadItem(w, l)
  \/ PostItem(w)
  \/ RefreshItem(w)
  \/ EndRound(w)

Coldarr ==
  \/ SnapshotAddedDates
  \/ \E i \in Items : Landed(i) \/ MoveFails(i)
  \/ MovesOver \/ NotifyJellyfinMoved \/ Notified

Jellyfin ==
  \/ \E i \in Items : Appears(i) \/ RefreshRuns(i) \/ Vanishes(i)
  \/ \E l \in AllLeaves : EpisodeAppears(l) \/ ScanTakes(l) \/ ScanSaves(l)

Next ==
  \/ \E w \in Workers : ResolveAndRefresh(w)
  \/ Coldarr
  \/ Jellyfin

Spec == Init /\ [][Next]_vars

-----------------------------------------------------------------------------
TypeOK ==
  /\ stage \in {"snapshot", "moving", "waiting", "batch", "over"}
  /\ added \subseteq AllLeaves
  /\ status \in [Items -> {"moving", "reported", "unreported", "unrecorded", "failed"}]
  /\ told \in [Items -> Nat]
  /\ verdict \in {"none", "ok", "error"}
  /\ scan \in BOOLEAN /\ restore \in BOOLEAN
  /\ listed \subseteq Items
  /\ leaf \in [AllLeaves -> Entry]
  /\ scanning \in [AllLeaves -> Entry]
  /\ queue \subseteq Items
  /\ accepted \subseteq Items
  /\ excused \subseteq AllLeaves
  /\ faults \in 0..FaultMax

\* A refreshed leaf keeps its fresh metadata and artwork: nothing Coldarr sends
\* back whole may have been read before the refresh ("the worst a race costs is
\* the date").
RefreshedLast ==
  [][\A l \in AllLeaves : leaf[l].meta = "full" => leaf'[l].meta = "full"]_vars

\* Everything that was refreshed is back at the date it had before the move, unless
\* a failed request, Jellyfin's own scan or the deadline cost it that; what
\* came after the refresh is not in question.
DatesPutBack ==
  \A i \in accepted : \A l \in Leaves[i] \cap added : l \in excused \/ leaf[l].date = "old"

\* The restore starts only when every item that moved has been resolved and its
\* refresh accepted; if one has not, the run ends with the whole-library scan.
RestoredAfterAll ==
  /\ restore => Moved \subseteq accepted
  /\ stage = "over" /\ ~(Moved \subseteq accepted) => scan

\* "Reporting the rest a second time would restart Jellyfin's debounce on paths it
\* already has queued": only an item whose report failed as it landed is reported
\* again, and that once.
ReportedOnce ==
  \A i \in Items : told[i] <= 1 \/ (status[i] = "unreported" /\ told[i] <= 2)
=============================================================================
