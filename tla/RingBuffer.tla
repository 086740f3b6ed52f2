----------------------------- MODULE RingBuffer -----------------------------
(***************************************************************************)
(* The persistent ring buffer (persistent_ring_buffer.cpp): a file of a    *)
(* header and a fixed number of slots.  The tunnel extension appends, the  *)
(* application reads what it has not read yet and removes a file it cannot *)
(* read; a file coordinator keeps the two apart, but the extension may be  *)
(* killed, or a write may fail, between any two writes of one append and   *)
(* in the middle of each.  A record is its number in the order of the      *)
(* appends; the numbers of the header are written whole, one by one.       *)
(***************************************************************************)
EXTENDS Integers, Sequences, SequencesExt

CONSTANTS Capacity,   \* max_records
          MaxRecords  \* bound: how many appends are tried

VARIABLES file,   \* "absent", "empty" (created, no header), or header and slots
          step,   \* where the append in progress stands
          tried,  \* number of appends started: the record being appended
          acked,  \* records whose append returned true, since the file was made
          reader  \* the application: its cursor (-1: none), what it was given,
                  \* and whether a read failed and the file is to be removed

vars == <<file, step, tried, acked, reader>>

(* A slot that was written in part over another record: it reads as a mix  *)
(* of the two, or not at all, when the length is out of range or the mix   *)
(* is not UTF-8.                                                           *)
Mixed == 0
Broken == -2
Unwritten == -1
NoFile == [kind |-> "absent"]
Empty == [kind |-> "empty"]
Fresh == [kind |-> "ring", write_slot |-> 0, count |-> 0, next_sequence |-> 0, cut |-> FALSE,
          slots |-> [i \in 0 .. Capacity - 1 |-> Unwritten]]

Init ==
    /\ file = NoFile
    /\ step = "idle"
    /\ tried = 0
    /\ acked = <<>>
    /\ reader = [index |-> -1, got |-> <<>>, bad |-> FALSE]

-----------------------------------------------------------------------------
(* read_header accepts it *)
read_header == file.kind = "ring" /\ file.next_sequence >= file.count

(* append: open or create, header, slot, header; a file with a bad header  *)
(* is left to the application                                              *)

append ==
    /\ step = "idle"
    /\ tried < MaxRecords
    /\ tried' = tried + 1
    /\ IF file = NoFile
       THEN file' = Empty /\ step' = "created" /\ acked' = <<>>
       ELSE /\ step' = IF read_header THEN "slot" ELSE "idle"
            /\ UNCHANGED <<file, acked>>
    /\ UNCHANGED reader

write_new_header ==
    /\ step = "created"
    /\ file' = Fresh
    /\ step' = "slot"
    /\ UNCHANGED <<tried, acked, reader>>

write_slot ==
    /\ step = "slot"
    /\ \/ file' = [file EXCEPT !.slots[file.write_slot] = tried] /\ step' = "header"
       \/ \E torn \in IF file.slots[file.write_slot] = Unwritten THEN {Broken} ELSE {Mixed, Broken} :
             file' = [file EXCEPT !.slots[file.write_slot] = torn] /\ step' = "idle"
    /\ UNCHANGED <<tried, acked, reader>>


Advanced_NoWrap ==
    [file EXCEPT !.write_slot = Min({@ + 1, Capacity - 1}),
                 !.count = Min({@ + 1, Capacity}),
                 !.next_sequence = @ + 1]
Advanced ==
    [file EXCEPT !.write_slot = (@ + 1) % Capacity,
                 !.count = Min({@ + 1, Capacity}),
                 !.next_sequence = @ + 1]

(* cut short, it has the new write_slot, perhaps the new count, and the old *)
(* next_sequence; `cut' remembers it                                        *)
write_header ==
    /\ step = "header"
    /\ \/ file' = Advanced /\ acked' = Append(acked, tried)
       \/ \E count \in {file.count, Advanced.count} :
             file' = [file EXCEPT !.write_slot = Advanced.write_slot, !.count = count, !.cut = TRUE]
          /\ UNCHANGED acked
    /\ step' = "idle"
    /\ UNCHANGED <<tried, reader>>

(* A failed write makes append return false; a killed process never returns *)
Interrupted ==
    /\ step # "idle"
    /\ step' = "idle"
    /\ UNCHANGED <<file, tried, acked, reader>>

-----------------------------------------------------------------------------
(* read_since and clear, from the application *)

Clamp(x, low, high) == IF x < low THEN low ELSE IF x > high THEN high ELSE x

(* The slots from the cursor on *)
Retained(cursor) ==
    LET earliest == file.next_sequence - file.count
        start == IF cursor = -1 THEN earliest ELSE Clamp(cursor, earliest, file.next_sequence)
    IN  [i \in 1 .. file.next_sequence - start |-> file.slots[(start + i - 1) % Capacity]]

(* nullopt when the header or one of the slots cannot be read               *)
read_since(cursor) ==
    IF read_header /\ Range(Retained(cursor)) \cap {Broken, Unwritten} = {}
    THEN [ok |-> TRUE, records |-> Retained(cursor)]
    ELSE [ok |-> FALSE, records |-> <<>>]

read_and_report ==
    /\ step = "idle" /\ ~reader.bad
    /\ reader' = IF file = NoFile THEN [reader EXCEPT !.index = 0]
                 ELSE IF ~read_since(reader.index).ok THEN [reader EXCEPT !.bad = TRUE]
                 ELSE [reader EXCEPT !.index = file.next_sequence,
                                     !.got = @ \o read_since(reader.index).records]
    /\ UNCHANGED <<file, step, tried, acked>>

(* The file is removed in a second access, the extension may append before. *)
clear ==
    /\ step = "idle" /\ reader.bad
    /\ file' = NoFile
    /\ reader' = [reader EXCEPT !.index = -1, !.bad = FALSE]
    /\ UNCHANGED <<step, tried, acked>>

AppRestarts ==
    /\ reader.index # -1 \/ reader.bad
    /\ reader' = [index |-> -1, got |-> <<>>, bad |-> FALSE]
    /\ UNCHANGED <<file, step, tried, acked>>

Next ==
    \/ append \/ write_new_header \/ write_slot \/ write_header \/ Interrupted
    \/ read_and_report \/ clear \/ AppRestarts

Spec == Init /\ [][Next]_vars

-----------------------------------------------------------------------------
(* While no header was cut short, an append that was, wherever it was,      *)
(* spoils one slot at most, the one that the next append writes: the        *)
(* records whose append returned true are in the file complete and in       *)
(* order, all but the oldest of a full ring, and they can be read unless    *)
(* that one is broken (append, read_since).                                 *)
NewestSurvive ==
    file.kind = "ring" /\ ~file.cut =>
        LET all == Retained(-1)
            kept == Min({Len(acked), Capacity - 1})
        IN  /\ Len(all) = Min({Len(acked), Capacity})
            /\ SubSeq(all, Len(all) - kept + 1, Len(all))
                   = SubSeq(acked, Len(acked) - kept + 1, Len(acked))
            /\ \A i \in DOMAIN file.slots : file.slots[i] \in {Mixed, Broken} => i = file.write_slot
            /\ ~read_since(-1).ok =>
                   file.count = Capacity /\ file.slots[file.write_slot] = Broken

(* A slot that was cut short costs no other record                          *)
(* (RejectsOversizedRecordWithoutChangingRetainedData asks as much of a     *)
(* record that is refused, test_persistent_ring_buffer.cpp:102).            *)
(* Does not hold: read_since fails as a whole, and the file is removed.     *)
ReadSurvivesCrash == file.kind = "ring" /\ ~file.cut => read_since(-1).ok

(* The slot that is written is the one that next_sequence is read from.     *)
(* Does not hold once a header was cut short: the two differ from then on,  *)
(* and read_header does not compare them.                                   *)
HeaderIsWhole == file.kind = "ring" => file.write_slot = file.next_sequence % Capacity

(* "Corrupted connection info file, deleting it" (VpnManager.swift:269):    *)
(* the file that is removed cannot be read.                                 *)
(* Does not hold: an append after the failed read may have repaired it.     *)
RemovedIsCorrupted == reader.bad => ~read_since(-1).ok

(* The application is given every record at most once and in write order    *)
(* (test_persistent_ring_buffer.cpp:63, ReadsNewestRecordsInWriteOrder, and *)
(* ReturnsOnlyUnreadRecordsForIncrementalRead).                             *)
(* Does not hold after a crash.                                             *)
GivenInWriteOrder ==
    \A i, j \in DOMAIN reader.got : i < j => reader.got[i] < reader.got[j]
=============================================================================
