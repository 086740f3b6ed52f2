---------------------------- MODULE MemfileBuffer ----------------------------
(***************************************************************************)
(* The buffer of data a connection's client has not read yet               *)
(* (memfile_buffer.cpp over memory_buffer.cpp): up to Threshold bytes in   *)
(* memory, the rest in a file that is read from an offset and rewritten    *)
(* without its read part when that part grows.  Bytes are numbered in the  *)
(* order they are pushed.                                                  *)
(***************************************************************************)
EXTENDS Integers, Sequences, SequencesExt

CONSTANTS Threshold,    \* mem_threshold
          MaxFileSize,  \* max_file_size
          MaxBytes,     \* bound: bytes pushed
          Faults        \* whether a file operation may fail or be short

VARIABLES mem,     \* m_mem_buffer
          file,    \* content of the file at m_path
          fd,      \* whether m_fd is open
          offset,  \* m_read_offset
          pushed,  \* bytes pushed so far
          lost,    \* whether a push reported an error or cut its data
          out      \* bytes drained

vars == <<mem, file, fd, offset, pushed, lost, out>>

Init ==
    /\ mem = <<>> /\ file = <<>> /\ out = <<>>
    /\ fd = FALSE
    /\ offset = 0
    /\ pushed = 0
    /\ lost = FALSE

First(s, n) == SubSeq(s, 1, Min({n, Len(s)}))
From(s, n) == SubSeq(s, n + 1, Len(s))

get_free_mem_space(m) == Threshold - Len(m)

(* What memory and offset may become when m is topped up from the file; a  *)
(* read that fails midway has moved the offset past bytes it throws away   *)
transfer_file2mem(m) ==
    LET to_read == Min({get_free_mem_space(m), Len(file) - offset})
    IN  IF ~fd \/ to_read = 0
        THEN {[mem |-> m, offset |-> offset, ok |-> TRUE]}
        ELSE {[mem |-> m \o First(From(file, offset), to_read),
               offset |-> offset + to_read, ok |-> TRUE]}
             \cup {[mem |-> m, offset |-> offset + k, ok |-> FALSE] :
                       k \in IF Faults THEN 0 .. to_read - 1 ELSE {}}

peek ==
    \E r \in transfer_file2mem(mem) :
        /\ mem' = r.mem
        /\ offset' = r.offset
        /\ UNCHANGED <<file, fd, pushed, lost, out>>

drain_NoRefill(k) ==
    /\ k <= Len(mem)
    /\ out' = out \o First(mem, k)
    /\ mem' = From(mem, k)
    /\ UNCHANGED <<file, fd, offset, pushed, lost>>
drain(k) ==
    /\ k <= Len(mem)
    /\ out' = out \o First(mem, k)
    /\ \E r \in transfer_file2mem(From(mem, k)) : mem' = r.mem /\ offset' = r.offset
    /\ UNCHANGED <<file, fd, pushed, lost>>

need_to_strip_file(size) ==
    \/ Len(file) + size > MaxFileSize
    \/ /\ offset > 0
       /\ \/ offset > (MaxFileSize * 3) \div 10
          \/ offset > (Len(file) * 3) \div 10
          \/ Len(file) > (MaxFileSize * 8) \div 10

(* Copies of the bytes d: both loops restart at the head of the buffer     *)
transfer_file2file(d) ==
    LET n == Len(d)
        ReadInTwo(k) == [i \in 1 .. n |-> IF i <= n - k THEN d[k + i] ELSE IF i <= k THEN d[i] ELSE 0]
        WrittenInTwo(k) == First(d, k) \o First(d, n - k)
        Short == IF Faults /\ n > 1 THEN 1 .. n - 1 ELSE {}
    IN  {d} \cup {ReadInTwo(k) : k \in Short} \cup {WrittenInTwo(k) : k \in Short}

(* Outcomes of strip_file: done, undone with the file open again, or the   *)
(* file left closed where the first rename failed                          *)
strip_file ==
    {[file |-> f, offset |-> 0, fd |-> TRUE, ok |-> TRUE] : f \in transfer_file2file(From(file, offset))}
    \cup IF Faults
         THEN {[file |-> file, offset |-> offset, fd |-> open, ok |-> FALSE] : open \in BOOLEAN}
         ELSE {}

write_in_file(data) ==
    IF data = <<>>
    THEN UNCHANGED <<file, fd, offset, lost>>
    ELSE \/ /\ Faults /\ ~fd          \* open fails
            /\ lost' = TRUE
            /\ UNCHANGED <<file, fd, offset>>
         \/ \E s \in IF need_to_strip_file(Len(data)) THEN strip_file
                     ELSE {[file |-> file, offset |-> offset, fd |-> TRUE, ok |-> TRUE]} :
            \E written \in 0 .. Len(data) :
               LET to_write == Min({Len(data), MaxFileSize - Len(s.file)})
               IN  /\ written <= (IF s.ok THEN to_write ELSE 0)
                   /\ ~Faults => written = to_write
                   /\ file' = s.file \o First(data, written)
                   /\ offset' = s.offset
                   /\ fd' = s.fd
                   /\ lost' = (lost \/ written < Len(data))

push(n) ==
    /\ pushed + n <= MaxBytes
    /\ LET data == [i \in 1 .. n |-> pushed + i]
           free == get_free_mem_space(mem)
       IN  /\ mem' = mem \o First(data, free)
           /\ write_in_file(From(data, Min({free, n})))
    /\ pushed' = pushed + n
    /\ UNCHANGED out

Next ==
    \/ peek
    \/ \E k \in 1 .. Threshold : drain(k)
    \/ \E n \in 1 .. MaxBytes : push(n)

Spec == Init /\ [][Next]_vars

-----------------------------------------------------------------------------
(* A connection's bytes leave the buffer in the order they came, whichever *)
(* part of them went through the file and however often it was rewritten,  *)
(* and none is missing unless a push failed or hit the size limit (push,   *)
(* drain, strip_file).                                                     *)
BytesInOrder ==
    LET all == out \o mem \o From(file, offset)
    IN  /\ \A i, j \in DOMAIN all : i < j => all[i] < all[j]
        /\ ~lost => all = [i \in 1 .. pushed |-> i]
=============================================================================
