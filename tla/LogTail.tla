------------------------------- MODULE LogTail -------------------------------
(***************************************************************************)
(* logtail.rs: the GUI follows the log of the core by an offset into a     *)
(* file which the core appends to, its logger rolls, and the user may      *)
(* empty.  It must tell the lines of this launch from those of an earlier   *)
(* one, and a file that has grown from one that has been replaced.         *)
(*                                                                         *)
(* A line is a number; Length[l] bytes of it are written one after the      *)
(* other, the last being its newline.  Lines up to History were written    *)
(* before the launch, and the last of those perhaps not to its end.        *)
(***************************************************************************)
EXTENDS Integers, Sequences, SequencesExt

CONSTANTS
    Length,     \* Length[l]: bytes of line l, its newline included
    History,    \* lines of the file that is there at launch
    Limit,      \* LIMIT: bytes read at once
    AnchorSize, \* bytes before the offset that are compared
    MaxFiles,   \* bound on files at the path, one after the other
    MaxRewrites \* bound on times the user replaces the content of the file

Files == 1 .. MaxFiles

ASSUME TailAssumption ==
    /\ Length \in Seq(Nat \ {0}) /\ History \in 0 .. Len(Length)
    /\ Limit \in Nat \ {0} /\ AnchorSize \in Nat \ {0} /\ MaxFiles \in Nat \ {0}
    /\ MaxRewrites \in Nat

VARIABLES
    path,       \* the file the path names; 0: none
    bytes,      \* content of each file; a handle outlives the name
    born,       \* creation_time of each file
    rewrites,   \* times the content was replaced
    amid,       \* it was replaced between metadata() and the reads of a poll
    writing,    \* the next byte of the core: line and position in it
    tail,       \* LogTail, without offset and anchor before the launch
    poll,       \* a poll between metadata() and its reads; handle 0: none
    reported    \* what poll has returned, each line as the bytes it consists of

logVars == <<path, bytes, born, rewrites, amid, writing, tail, poll, reported>>

Byte(l, k) == <<l, k>>
IsNewline(b) == b[2] = Length[b[1]]
Whole(l) == [k \in 1 .. Length[l] |-> Byte(l, k)]
NoPoll == [handle |-> 0, length |-> 0, created |-> 0]

(* The last AnchorSize bytes before an offset.                             *)
Anchor(s, offset) ==
    SubSeq(s, IF offset > AnchorSize THEN offset - AnchorSize + 1 ELSE 1, offset)

(* The lines of a sequence of bytes, each with its newline, and the rest.   *)
Cut(p, b) ==
    IF IsNewline(b) THEN [lines |-> Append(p.lines, Append(p.rest, b)), rest |-> << >>]
    ELSE [p EXCEPT !.rest = Append(@, b)]

Split(s) ==
    LET upTo[i \in 0 .. Len(s)] ==
            IF i = 0 THEN [lines |-> << >>, rest |-> << >>] ELSE Cut(upTo[i - 1], s[i])
    IN  upTo[Len(s)]

(* before_launch for a file that can be opened.                            *)
BeforeLaunch(s) ==
    [created |-> born[path], offset |-> Len(s), anchor |-> Anchor(s, Len(s)),
     pending |-> << >>, discard |-> s # << >> /\ ~IsNewline(Last(s))]

NoTail == [created |-> 0, offset |-> 0, anchor |-> << >>, pending |-> << >>, discard |-> FALSE]

(* At launch the history is there, its last line cut anywhere and perhaps   *)
(* still to be finished by a core that is ending, or there is no file.     *)
LogInit ==
    /\ path \in IF History = 0 THEN {0} ELSE {0, 1}
    /\ \E cut \in IF History = 0 THEN {0} ELSE 1 .. Length[History] :
        /\ bytes = [f \in Files |->
            IF f = path
            THEN FlattenSeq([l \in 1 .. History - 1 |-> Whole(l)]) \o SubSeq(Whole(History), 1, cut)
            ELSE << >>]
        /\ \/ writing = Byte(History + 1, 1)
           \/ path = 1 /\ cut < Length[History] /\ writing = Byte(History, cut + 1)
    /\ born = [f \in Files |-> 1]
    /\ rewrites = 0 /\ amid = FALSE
    /\ tail = IF path = 0 THEN NoTail ELSE BeforeLaunch(bytes[path])
    /\ poll = NoPoll
    /\ reported = << >>

(* The core. *)

After(b) == IF IsNewline(b) THEN Byte(b[1] + 1, 1) ELSE Byte(b[1], b[2] + 1)

CanWrite == writing[1] \in DOMAIN Length

Append1(f) == bytes' = [bytes EXCEPT ![f] = Append(@, writing)] /\ writing' = After(writing)

Write ==
    /\ CanWrite /\ path # 0 /\ Append1(path)
    /\ UNCHANGED <<path, born, rewrites, amid, tail, poll, reported>>

Unused == {f \in Files : bytes[f] = << >> /\ f # path /\ f # poll.handle}

(* The logger opens its file.  One that takes the name of another within   *)
(* seconds gets its creation time as well.                                 *)
Create ==
    /\ CanWrite /\ path = 0 /\ Unused # {}
    /\ \E f \in Unused, again \in BOOLEAN :
        /\ path' = f /\ Append1(f)
        /\ born' = [born EXCEPT ![f] = IF again THEN 1 ELSE f]
    /\ UNCHANGED <<rewrites, amid, tail, poll, reported>>

(* The logger rolls a file after a whole line.                             *)
Roll ==
    /\ path # 0 /\ writing[2] = 1 /\ bytes[path] # << >> /\ path' = 0
    /\ UNCHANGED <<bytes, born, rewrites, amid, writing, tail, poll, reported>>

(* The content is replaced, the file stays: nothing, or one new line.      *)
Rewrite ==
    /\ path # 0 /\ rewrites < MaxRewrites /\ rewrites' = rewrites + 1
    /\ writing[2] = 1 /\ amid' = (amid \/ poll # NoPoll)
    /\ \/ bytes' = [bytes EXCEPT ![path] = << >>] /\ UNCHANGED writing
       \/ /\ CanWrite
          /\ bytes' = [bytes EXCEPT ![path] = Whole(writing[1])]
          /\ writing' = Byte(writing[1] + 1, 1)
    /\ UNCHANGED <<path, born, tail, poll, reported>>

(* poll: open and metadata; without a file it returns an error.            *)
PollOpen ==
    /\ poll = NoPoll /\ path # 0
    /\ poll' = [handle |-> path, length |-> Len(bytes[path]), created |-> born[path]]
    /\ UNCHANGED <<path, bytes, born, rewrites, amid, writing, tail, reported>>

(* The offset no longer lies in the file it was taken from.                *)
Moved(p) == tail.created # p.created \/ p.length < tail.offset

(* ... or its anchor is not there any more.                                *)
MustReset(p) == Moved(p) \/ tail.anchor # Anchor(bytes[p.handle], tail.offset)

(* The file was emptied since metadata(): its anchor cannot be read, and   *)
(* poll returns an error.                                                  *)
AnchorLost(p) == ~Moved(p) /\ Len(bytes[p.handle]) < tail.offset

Rewound(t) == [t EXCEPT !.offset = 0, !.pending = << >>, !.discard = FALSE]

Skipped(t, length) ==
    IF length - t.offset > Limit
    THEN [t EXCEPT !.offset = length - Limit, !.pending = << >>, !.discard = TRUE] ELSE t

(* What the last read leaves behind: the rest after its lines, or, as long   *)
(* as there is no newline, all of it, unless that is too much.             *)
Taken(t) ==
    LET read == Split(t.pending)
    IN  IF read.lines = << >> /\ Len(t.pending) > Limit
        THEN [t EXCEPT !.pending = << >>, !.discard = TRUE]
        ELSE [t EXCEPT !.pending = read.rest, !.discard = @ /\ read.lines = << >>]

Returned(t) ==
    LET all == Split(t.pending).lines
    IN  IF t.discard /\ all # << >> THEN Tail(all) ELSE all

(* The state of the tail before the last read, and after it.               *)
Sought(p) ==
    Skipped([(IF MustReset(p) THEN Rewound(tail) ELSE tail) EXCEPT !.created = p.created], p.length)

(* Faulty variant: the bytes of a line that is not complete are lost.      *)
ReadUpTo_Forget(t, s, offset) ==
    [t EXCEPT !.pending = SubSeq(s, t.offset + 1, offset), !.offset = offset, !.anchor = Anchor(s, offset)]

ReadUpTo(t, s, offset) ==
    [t EXCEPT !.pending = @ \o SubSeq(s, t.offset + 1, offset),
              !.offset = offset, !.anchor = Anchor(s, offset)]

(* poll: the reads, up to the length that metadata() told.  In a file that  *)
(* was emptied since, the first anchor leaves all as it was; without the    *)
(* second one the error comes when offset and pending have been set.       *)
PollRead ==
    /\ poll # NoPoll /\ poll' = NoPoll
    /\ LET s == bytes[poll.handle]
           start == Sought(poll)
           offset == IF Len(s) < poll.length THEN Len(s) ELSE poll.length
           read == ReadUpTo(start, s, offset)
       IN  \/ AnchorLost(poll) /\ UNCHANGED <<tail, reported>>
           \/ /\ ~AnchorLost(poll) /\ offset >= start.offset
              /\ tail' = Taken(read) /\ reported' = reported \o Returned(read)
           \/ /\ ~AnchorLost(poll) /\ offset < start.offset
              /\ tail' = [start EXCEPT !.anchor = << <<0, 0>> >>]
              /\ UNCHANGED reported
    /\ UNCHANGED <<path, bytes, born, rewrites, amid, writing>>

(* The core says nothing for as long as it likes.                          *)
Silent == poll = NoPoll /\ UNCHANGED logVars

LogNext == Write \/ Create \/ Roll \/ Rewrite \/ PollOpen \/ PollRead \/ Silent

LogSpec == LogInit /\ [][LogNext]_logVars /\ WF_logVars(PollOpen) /\ WF_logVars(PollRead)
-----------------------------------------------------------------------------
(* What is kept of a line that does not end is bounded: a log without a     *)
(* newline, however slowly it is written, does not fill the GUI's memory.  *)
LogTypeOK ==
    /\ path \in 0 .. MaxFiles /\ poll.handle \in 0 .. MaxFiles
    /\ tail.offset \in Nat /\ tail.discard \in BOOLEAN
    /\ Len(tail.pending) =< Limit

(* Whatever the core, its logger and the user do to the file, every line    *)
(* the monitor hears of is a whole line of this launch, and it hears of     *)
(* the lines in their order, of none twice.                                *)
OnlyNewLines ==
    /\ \A i \in DOMAIN reported : \E l \in History + 1 .. Len(Length) : reported[i] = Whole(l)
    /\ \A i, j \in DOMAIN reported : i < j => reported[i][1][1] < reported[j][1][1]

(* As much of a file as is ever read.                                      *)
WithinReach(s) == SubSeq(s, IF Len(s) < Limit THEN 1 ELSE Len(s) - Limit + 2, Len(s))

(* The last complete line of the file, unless it is glued to another one.   *)
Newest ==
    LET lines == IF path = 0 THEN << >> ELSE Split(bytes[path]).lines
    IN  {l \in History + 1 .. Len(Length) : lines # << >> /\ Last(lines) = Whole(l)}

(* The monitor catches up again and again: the newest complete line of the  *)
(* file has been reported, unless it lies further back than is ever read,   *)
(* is glued to a half-written line of the launch before, or the content    *)
(* was replaced while a poll had its length but not its bytes.             *)
CatchesUp ==
    []<>(\/ amid
         \/ \A l \in Newest :
                \/ Contains(reported, Whole(l))
                \/ ~Contains(Split(WithinReach(bytes[path])).lines, Whole(l)))
=============================================================================
