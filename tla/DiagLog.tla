------------------------------ MODULE DiagLog -------------------------------
(***************************************************************************)
(* The diagnostics log (mosschat-net/src/diag.rs DiagWriter, read_records, *)
(* files_newest_first): files of one directory, one a day and numbered     *)
(* parts of it when it is full, appended to by the house and by every      *)
(* doctor run, each through a writer of its own.                           *)
(*                                                                         *)
(* A file is the pieces written to it, in order.  A piece is a record and  *)
(* how much of its line was written: all, all but the newline ("bare"), or *)
(* less ("cut"), when a crash stopped the write.                           *)
(***************************************************************************)
EXTENDS Integers, Sequences, FiniteSets, FiniteSetsExt

CONSTANTS
    Writer,             \* processes that append to the directory
    Lengths,            \* lengths a record's line may have
    MaxDay, MaxRecords, MaxFaults,      \* bounds
    MAX_FILE_BYTES, MAX_FILES_KEPT

VARIABLES
    files,      \* <<day, part>> -> pieces
    writer,     \* writer -> the DiagWriter of its process
    today,
    faults,
    acked       \* ghost: records append has said yes to, in order: day, writer, its life

vars == <<files, writer, today, faults, acked>>

NoDay == 0

Fresh(life) == [date |-> NoDay, part |-> 0, open |-> FALSE, bytes |-> 0, life |-> life]

Days == {f[1] : f \in DOMAIN files}

Total(pieces) == MapThenSumSet(LAMBDA i : pieces[i].len, DOMAIN pieces)

Init ==
    /\ files = <<>>
    /\ writer = [w \in Writer |-> Fresh(0)]
    /\ today = 1
    /\ faults = 0
    /\ acked = <<>>

-----------------------------------------------------------------------------
(***************************************************************************)
(* The writer.  An operator takes the files and the writer, both as fs, to *)
(* what they are after it.                                                 *)
(***************************************************************************)

(* prune: of the days on disk and today the oldest go, whole days. *)
Prune(m) ==
    LET days == {f[1] : f \in DOMAIN m} \cup {today}
        kept == {d \in days : Cardinality({e \in days : e > d}) < MAX_FILES_KEPT}
    IN [f \in {g \in DOMAIN m : g[1] \in kept} |-> m[f]]

(* open_part_file: created when absent, appended to when present, and counted
   from the size it has. *)
OpenPartFile(fs, part) ==
    LET f == <<today, part>>
        m == IF f \in DOMAIN fs.m THEN fs.m
             ELSE [g \in DOMAIN fs.m \cup {f} |-> IF g = f THEN <<>> ELSE fs.m[g]]
    IN [m |-> m,
        w |-> [fs.w EXCEPT !.date = today, !.part = part, !.open = TRUE,
                           !.bytes = Total(m[f])]]

(* The same when the file cannot be opened: the day and the part are noted,
   no file is open, the count is the last one. *)
OpenFails(fs, part) ==
    [fs EXCEPT !.w.date = today, !.w.part = part, !.w.open = FALSE]

RotateToDay(fs) == OpenPartFile([fs EXCEPT !.m = Prune(@)], 0)

(* Mutant: the first part with room is taken, not the next. *)
OpenNextPartWithRoom(fs, len) ==
    LET room == {p \in 0..fs.w.part : <<today, p>> \in DOMAIN fs.m
                                      /\ Total(fs.m[<<today, p>>]) + len <= MAX_FILE_BYTES}
    IN OpenPartFile(fs, IF room # {} THEN Min(room) ELSE fs.w.part + 1)

OpenNextPart(fs, len) == OpenPartFile(fs, fs.w.part + 1)

(* append up to the write: the day's file, and the next part of it when the
   line does not fit. *)
Positioned(fs, len) ==
    LET d == IF fs.w.date # today THEN RotateToDay(fs) ELSE fs
    IN IF d.w.bytes + len > MAX_FILE_BYTES THEN OpenNextPart(d, len) ELSE d

Written(fs, piece) ==
    [fs.m EXCEPT ![<<today, fs.w.part>>] = Append(@, piece)]

(* append.  A writer whose file is not open says so and writes nothing. *)
AppendRecord(w, len) ==
    LET p == Positioned([m |-> files, w |-> writer[w]], len) IN
    /\ Len(acked) < MaxRecords
    /\ IF p.w.open
       THEN /\ files' = Written(p, [rec |-> Len(acked) + 1, len |-> len, end |-> "newline"])
            /\ writer' = [writer EXCEPT ![w] = [p.w EXCEPT !.bytes = @ + len]]
            /\ acked' = Append(acked, [day |-> today, by |-> <<w, p.w.life>>])
       ELSE files' = p.m /\ writer' = [writer EXCEPT ![w] = p.w] /\ UNCHANGED acked
    /\ UNCHANGED <<today, faults>>

Faulty == faults < MaxFaults /\ faults' = faults + 1

(* The write stops short with its process or its machine; the next process
   starts afresh. *)
WriteStops(w, len) ==
    LET p == Positioned([m |-> files, w |-> writer[w]], len) IN
    /\ Faulty
    /\ p.w.open
    /\ \E end \in {"bare", "cut"} :
          files' = Written(p, [rec |-> 0, len |-> len, end |-> end])
    /\ writer' = [writer EXCEPT ![w] = Fresh(p.w.life + 1)]
    /\ UNCHANGED <<today, acked>>

(* A file cannot be opened, the day's first or the next part.  (A prune that
   fails on its first file changes nothing and is asked again; one that fails
   halfway is left out.) *)
OpenStops(w, len) ==
    LET fs == [m |-> files, w |-> writer[w]]
        d  == RotateToDay(fs)
    IN
    /\ Faulty
    /\ \/ /\ fs.w.date # today
          /\ files' = Prune(files)
          /\ writer' = [writer EXCEPT ![w] = OpenFails(fs, 0).w]
       \/ LET r == IF fs.w.date # today THEN d ELSE fs IN
          /\ r.w.bytes + len > MAX_FILE_BYTES
          /\ files' = r.m
          /\ writer' = [writer EXCEPT ![w] = OpenFails(r, r.w.part + 1).w]
    /\ UNCHANGED <<today, acked>>

(* A process ends and another begins: every doctor run is one. *)
Restart(w) ==
    /\ Faulty
    /\ writer[w].date # NoDay
    /\ writer' = [writer EXCEPT ![w] = Fresh(@.life + 1)]
    /\ UNCHANGED <<files, today, acked>>

NextDay ==
    /\ today < MaxDay
    /\ today' \in today + 1..MaxDay
    /\ UNCHANGED <<files, writer, faults, acked>>

-----------------------------------------------------------------------------
(***************************************************************************)
(* The reader.                                                             *)
(***************************************************************************)

(* read_records: lines, of which those that parse are records.  A line is one
   piece with its newline, and the last may lack it. *)
Parses(pieces, i) ==
    /\ i > 1 => pieces[i - 1].end = "newline"
    /\ \/ pieces[i].end = "newline"
       \/ pieces[i].end = "bare" /\ i = Len(pieces)

Readable(f) == {i \in DOMAIN files[f] : Parses(files[f], i)}

(* files_newest_first *)
Before(f, g) == f[1] < g[1] \/ (f[1] = g[1] /\ f[2] < g[2])

Next ==
    \/ \E w \in Writer, len \in Lengths :
          AppendRecord(w, len) \/ WriteStops(w, len) \/ OpenStops(w, len)
    \/ \E w \in Writer : Restart(w)
    \/ NextDay

Spec == Init /\ [][Next]_vars

-----------------------------------------------------------------------------
(***************************************************************************)
(* Properties.                                                             *)
(***************************************************************************)

(* Where a record is. *)
Places(r) == {x \in UNION {{f} \X DOMAIN files[f] : f \in DOMAIN files} :
                 files[x[1]][x[2]].rec = r}

Earlier(p, q) == Before(p[1], q[1]) \/ (p[1] = q[1] /\ p[2] < q[2])

KeptDays == {d \in Days : Cardinality({e \in Days : e > d}) < MAX_FILES_KEPT}

(* A record append said yes to stays until its day is pruned, and those of one
   writer are read in the order it wrote them, whatever faults come between;
   what a crash makes unreadable is the line it cut and at most the one written
   onto it. *)
LogKeepsItsOrder ==
    /\ \A r \in DOMAIN acked :
          acked[r].day \in KeptDays => Cardinality(Places(r)) = 1
    /\ \A r, q \in DOMAIN acked :
          r < q /\ acked[r].by = acked[q].by =>
              \A x \in Places(r), y \in Places(q) : Earlier(x, y)
    /\ \A f \in DOMAIN files :
          Cardinality({i \in DOMAIN files[f] : files[f][i].rec # 0} \ Readable(f))
             <= Cardinality({i \in DOMAIN files[f] : files[f][i].end # "newline"})
=============================================================================
