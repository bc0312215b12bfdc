----------------------------- MODULE RtcmBuffer -----------------------------
(***************************************************************************)
(* The parse buffer, sources/rtcm_parser.py: the data source appends to it *)
(* what it has read, cut anywhere; the parser thread takes all of it, cuts *)
(* the frames out, and puts the rest back at the end.                      *)
(*                                                                         *)
(* A byte is the frame it belongs to and its place in it; the first of a   *)
(* frame is the sync byte, the next ones up to HeaderLength the length.    *)
(* Other places of a frame may look like a sync byte (and like the length  *)
(* of a frame, which has only one value here); the CRC is right for a      *)
(* frame and for nothing else.                                             *)
(***************************************************************************)
EXTENDS Naturals, Sequences

CONSTANTS
    Frames,         \* bound on frames the source reads
    HeaderLength,   \* bytes a frame's length is known from
    FrameLength,    \* bytes of a frame
    FalseSync,      \* places of a frame, behind the first, that look like a sync byte
    MaxChunk,       \* bytes of one read
    MaxBuffer       \* MAX_BUFFER_SIZE

ASSUME LengthsAssumption ==
    /\ Frames \in Nat /\ HeaderLength \in Nat /\ FrameLength \in Nat
    /\ 0 < HeaderLength /\ HeaderLength < FrameLength
    /\ FalseSync \subseteq 2..FrameLength
    /\ MaxChunk \in Nat /\ MaxBuffer \in Nat /\ MaxChunk <= MaxBuffer

VARIABLES
    read,       \* bytes the source has read
    buffer,     \* state.rtcm_buffer
    taken,      \* current_buffer of the parser thread
    parsing,    \* where the parser thread is
    parsed,     \* frames it has handed on, in order
    \* What the properties compare with; nothing in the code:
    excused     \* frames cut by a put-back, an overflow, or within their header

parserVars == <<read, buffer, taken, parsing, parsed, excused>>

Bytes == [frame : 1..Frames, place : 1..FrameLength]
\* The n-th byte of the stream, from 1.
Byte(n) == [frame |-> ((n - 1) \div FrameLength) + 1, place |-> ((n - 1) % FrameLength) + 1]

ParserInit ==
    /\ read = 0 /\ buffer = <<>> /\ taken = <<>> /\ parsing = "take" /\ parsed = <<>>
    /\ excused = {}

-----------------------------------------------------------------------------
(* extract_rtcm_frames.                                                    *)

\* A sync byte with its length behind it.
Sync(s, i) == s[i].place \in FalseSync \cup {1} /\ i + HeaderLength - 1 <= Len(s)
Fits(s, i) == i + FrameLength - 1 <= Len(s)
Whole(s, i) == \A j \in 1..FrameLength : s[i + j - 1] = [frame |-> s[i].frame, place |-> j]
CutHeader(s, i) == s[i].place = 1 /\ ~Sync(s, i)

\* A turn of the loop: behind a whole frame, or one byte on; a sync byte whose frame
\* is not there yet ends the scan, one whose length is not there yet is passed over.
Scan(s, r) ==
    LET i == r.next
    IN  CASE i > Len(s) -> r
          [] i <= Len(s) /\ Sync(s, i) /\ ~Fits(s, i) -> r
          [] i <= Len(s) /\ Sync(s, i) /\ Fits(s, i) /\ Whole(s, i) ->
               [r EXCEPT !.next = i + FrameLength, !.frames = Append(@, s[i].frame)]
          [] OTHER ->
               [r EXCEPT !.next = i + 1,
                         !.cut = IF CutHeader(s, i) THEN @ \cup {s[i].frame} ELSE @]

\* From place 1 on, each turn one place at least.
Extract(s) ==
    LET scan[n \in 0..Len(s)] ==
          IF n = 0 THEN [next |-> 1, frames |-> <<>>, cut |-> {}] ELSE Scan(s, scan[n - 1])
    IN  scan[Len(s)]

\* Slip: without a frame nothing is passed over.
RemainingAll(s) ==
    LET r == Extract(s)
    IN  IF r.frames = <<>> THEN s ELSE SubSeq(s, r.next, Len(s))

Remaining(s) == SubSeq(s, Extract(s).next, Len(s))
FramesIn(s) == {s[i].frame : i \in 1..Len(s)}

-----------------------------------------------------------------------------
(* The data source and the parser thread.                                  *)

\* Slip: the newest bytes are dropped.
RoomAtTheEnd(s, n) == SubSeq(s, 1, Len(s) - n)

\* The oldest bytes go, as many as there are too many.
Dropped(s, n) == SubSeq(s, n + 1, Len(s))

\* upload_data.
Upload(n) ==
    LET chunk == [i \in 1..n |-> Byte(read + i)]
        excess == IF Len(buffer) + n > MaxBuffer THEN Len(buffer) + n - MaxBuffer ELSE 0
    IN  /\ read + n <= Frames * FrameLength
        /\ read' = read + n
        /\ buffer' = Dropped(buffer, excess) \o chunk
        /\ excused' = excused \cup FramesIn(SubSeq(buffer, 1, excess))
        /\ UNCHANGED <<taken, parsing, parsed>>

\* process_rtcm_buffer: all of it, under the lock.
Take ==
    /\ parsing = "take" /\ buffer # <<>>
    /\ taken' = buffer /\ buffer' = <<>>
    /\ parsing' = "put"
    /\ UNCHANGED <<read, parsed, excused>>

\* A frame that is cut at the end of s.
CutAtEnd(s) == IF s # <<>> /\ s[Len(s)].place # FrameLength THEN {s[Len(s)].frame} ELSE {}

\* Under the lock a second time: the rest goes behind what has come in since.
PutBack ==
    LET rest == Remaining(taken)
        r == Extract(taken)
    IN  /\ parsing = "put" /\ parsing' = "take"
        /\ buffer' = buffer \o rest
        /\ taken' = <<>>
        /\ parsed' = parsed \o r.frames
        /\ excused' = excused \cup r.cut
             \cup (IF rest # <<>> /\ buffer # <<>> THEN FramesIn(rest) \cup CutAtEnd(buffer) ELSE {})
        /\ UNCHANGED read

ParserNext == (\E n \in 1..MaxChunk : Upload(n)) \/ Take \/ PutBack

ParserSpec == ParserInit /\ [][ParserNext]_parserVars

-----------------------------------------------------------------------------
(* Properties.                                                             *)

\* Types; and the buffer outgrows its limit by less than a frame, the rest being
\* put back without a look at the limit.
ParserTypeOK ==
    /\ read \in 0..(Frames * FrameLength)
    /\ buffer \in Seq(Bytes) /\ taken \in Seq(Bytes) /\ parsed \in Seq(1..Frames)
    /\ parsing \in {"take", "put"} /\ excused \subseteq 1..Frames
    /\ Len(buffer) < MaxBuffer + FrameLength

Has(s, k) ==
    \E i \in 0..(Len(s) - FrameLength) : \A j \in 1..FrameLength :
        s[i + j] = [frame |-> k, place |-> j]

\* Frames are handed on in order and none twice, however the stream is cut and
\* whatever is put back where; and one is lost only if it was itself cut: by an
\* overflow, by a read that ends within its length bytes, or on either side of a
\* rest that was put back late.  Every other frame that has been read is parsed or
\* still there in one piece.
FramesArrive ==
    /\ \A i, j \in 1..Len(parsed) : i < j => parsed[i] < parsed[j]
    /\ \A k \in 1..(read \div FrameLength) :
          k \in excused \/ Has(taken \o buffer, k) \/ \E i \in 1..Len(parsed) : parsed[i] = k
=============================================================================
