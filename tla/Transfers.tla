----------------------------- MODULE Transfers ------------------------------
(***************************************************************************)
(* Messages longer than a datagram.  The server cuts a small message into  *)
(* chunk bodies and a chunk tail, and a file into big chunks that tell the *)
(* length of the whole; the pieces of one small message and of one file    *)
(* interleave.  Host (src/mervbot/host.cpp) collects them in two buffers   *)
(* (src/mervbot/chunk.cpp), `little` and `large`, and gives a completed    *)
(* buffer to gotMessage.  A download can be cancelled, and a session can   *)
(* be lost with messages half way.                                         *)
(*                                                                         *)
(* The pieces arrive in order: they are reliable messages (ReliableIn).    *)
(* A buffer is the sequence of the units (bytes) it holds, each named by   *)
(* the message and the place it comes from.                                *)
(***************************************************************************)
EXTENDS Naturals, Sequences

CONSTANTS Small, Files,   \* names of the messages a server sends in pieces
          Size,           \* their lengths
          LittleLimit, LargeLimit,   \* what chunkBuffer::setLimit is called with
          PieceMax,       \* longest piece
          MaxSends, MaxSessions, Window   \* bounds on messages, sessions, pieces on their way

ASSUME TransfersAssumption ==
    /\ Small \cap Files = {}
    /\ Size \in [Small \cup Files -> Nat \ {0}]
    /\ {LittleLimit, LargeLimit, PieceMax, MaxSessions} \subseteq Nat \ {0}
    /\ {MaxSends, Window} \subseteq Nat

VARIABLES
    sends,       \* server: the names of the messages begun, in order
    small,       \* server: the small message half way, or Idle
    file,        \* server: the file half way, or Idle
    awaiting,    \* server: it cancelled a download and waits for the answer
    session,     \* number of the session
    link,        \* pieces on their way, in order
    acks,        \* cancel acknowledgements on their way to the server
    little, large,   \* the two chunk buffers
    ftLength,    \* length of the file in progress, 0 if there is none
    handled      \* the buffers given to gotMessage, in order

trSrvVars == <<sends, small, file, awaiting, session>>
trBotVars == <<little, large, ftLength, handled>>
trVars == <<trSrvVars, link, acks, trBotVars>>

Idle == [msg |-> 0, pos |-> 0]
Len1(m) == Size[sends[m]]
Units(m, from, n) == [i \in 1..n |-> <<m, from + i>>]
Whole(m) == Units(m, 0, Len1(m))

TrInit ==
    /\ sends = <<>> /\ small = Idle /\ file = Idle /\ awaiting = FALSE /\ session = 1
    /\ link = <<>> /\ acks = 0
    /\ little = <<>> /\ large = <<>> /\ ftLength = 0 /\ handled = <<>>
-----------------------------------------------------------------------------
\* The server

Begin(name) ==
    /\ Len(sends) < MaxSends
    /\ sends' = Append(sends, name)
    /\ LET new == [msg |-> Len(sends) + 1, pos |-> 0]
       IN  \/ name \in Small /\ small = Idle /\ small' = new /\ UNCHANGED file
           \/ name \in Files /\ file = Idle /\ ~awaiting /\ file' = new /\ UNCHANGED small
    /\ UNCHANGED <<awaiting, session, link, acks, trBotVars>>

\* The next n units of the message at `at`.
Piece(kind, at, n) ==
    [kind |-> kind, total |-> Len1(at.msg), units |-> Units(at.msg, at.pos, n)]
Advance(at, n) ==
    IF at.pos + n = Len1(at.msg) THEN Idle ELSE [at EXCEPT !.pos = @ + n]

SendChunk(n) ==
    /\ small # Idle /\ n <= Len1(small.msg) - small.pos /\ Len(link) < Window
    /\ small' = Advance(small, n)
    /\ link' = Append(link, Piece(IF small' = Idle THEN "tail" ELSE "body", small, n))
    /\ UNCHANGED <<sends, file, awaiting, session, acks, trBotVars>>

SendBigChunk(n) ==
    /\ file # Idle /\ n <= Len1(file.msg) - file.pos /\ Len(link) < Window
    /\ file' = Advance(file, n)
    /\ link' = Append(link, Piece("big", file, n))
    /\ UNCHANGED <<sends, small, awaiting, session, acks, trBotVars>>

CancelDownload ==
    /\ file # Idle /\ Len(link) < Window
    /\ file' = Idle /\ awaiting' = TRUE
    /\ link' = Append(link, [kind |-> "cancel", total |-> 0, units |-> <<>>])
    /\ UNCHANGED <<sends, small, session, acks, trBotVars>>

CancelAcked ==
    /\ acks > 0
    /\ acks' = acks - 1 /\ awaiting' = FALSE
    /\ UNCHANGED <<sends, small, file, session, link, trBotVars>>
-----------------------------------------------------------------------------
\* The bot

\* Mutant of AddMessage: the limit is compared before the piece is added.
AddMessageLate(buffer, units, maximumLength) ==
    IF Len(buffer) <= maximumLength THEN buffer \o units ELSE buffer

\* chunkBuffer::addMessage: a piece that goes over the limit is ignored.
AddMessage(buffer, units, maximumLength) ==
    IF Len(buffer) + Len(units) <= maximumLength THEN buffer \o units ELSE buffer

GotChunkBody(p) ==
    /\ p.kind = "body"
    /\ little' = AddMessage(little, p.units, LittleLimit)
    /\ UNCHANGED <<large, ftLength, handled, acks>>

\* Mutant of GotChunkTail: the buffer is not emptied.
GotChunkTailKeeps(p) ==
    /\ p.kind = "tail"
    /\ little' = AddMessage(little, p.units, LittleLimit)
    /\ handled' = IF little' = <<>> THEN handled ELSE Append(handled, little')
    /\ UNCHANGED <<large, ftLength, acks>>

GotChunkTail(p) ==
    /\ p.kind = "tail"
    /\ LET buffer == AddMessage(little, p.units, LittleLimit)
       IN  handled' = IF buffer = <<>> THEN handled ELSE Append(handled, buffer)
    /\ little' = <<>>
    /\ UNCHANGED <<large, ftLength, acks>>

\* Mutant of GotBigChunk: a piece of another file does not end the one before.
GotBigChunkMixes(p) ==
    /\ p.kind = "big"
    /\ LET buffer == AddMessage(large, p.units, LargeLimit)
       IN  /\ handled' = IF Len(buffer) = p.total THEN Append(handled, buffer) ELSE handled
           /\ IF Len(buffer) >= p.total
              THEN large' = <<>> /\ ftLength' = 0
              ELSE large' = buffer /\ ftLength' = p.total
    /\ UNCHANGED <<little, acks>>

\* gotBigChunk: a piece that tells another length starts another file; the
\* buffer is handled when it has the length told, dropped when it is longer.
GotBigChunk(p) ==
    /\ p.kind = "big"
    /\ LET rest   == IF ftLength \in {0, p.total} THEN large ELSE <<>>
           buffer == AddMessage(rest, p.units, LargeLimit)
       IN  /\ handled' = IF Len(buffer) = p.total THEN Append(handled, buffer) ELSE handled
           /\ IF Len(buffer) >= p.total
              THEN large' = <<>> /\ ftLength' = 0
              ELSE large' = buffer /\ ftLength' = p.total
    /\ UNCHANGED <<little, acks>>

\* gotCancelDownload, sendDownloadCancelAck
GotCancelDownload(p) ==
    /\ p.kind = "cancel"
    /\ large' = <<>> /\ ftLength' = 0
    /\ acks' = acks + 1
    /\ UNCHANGED <<little, handled>>

GotMessage ==
    /\ link # <<>>
    /\ link' = Tail(link)
    /\ LET p == Head(link)
       IN  GotChunkBody(p) \/ GotChunkTail(p) \/ GotBigChunk(p) \/ GotCancelDownload(p)
    /\ UNCHANGED trSrvVars

\* Mutant of ResetSession: what was collected is kept.
ResetSessionKeeps ==
    /\ session < MaxSessions
    /\ session' = session + 1
    /\ small' = Idle /\ file' = Idle /\ awaiting' = FALSE
    /\ link' = <<>> /\ acks' = 0
    /\ ftLength' = 0
    /\ UNCHANGED <<sends, handled, little, large>>

\* resetSession, on both sides: the server forgets its transfers too.
ResetSession ==
    /\ session < MaxSessions
    /\ session' = session + 1
    /\ small' = Idle /\ file' = Idle /\ awaiting' = FALSE
    /\ link' = <<>> /\ acks' = 0
    /\ little' = <<>> /\ large' = <<>> /\ ftLength' = 0
    /\ UNCHANGED <<sends, handled>>
-----------------------------------------------------------------------------
TrNext ==
    \/ \E name \in Small \cup Files : Begin(name)
    \/ \E n \in 1..PieceMax : SendChunk(n) \/ SendBigChunk(n)
    \/ CancelDownload \/ CancelAcked
    \/ GotMessage
    \/ ResetSession

TrSpec == TrInit /\ [][TrNext]_trVars

\* What arrives is handled by the next iterations of the main loop.
TrFairSpec == TrSpec /\ WF_trVars(GotMessage)
-----------------------------------------------------------------------------
\* Properties

Limit(m) == IF sends[m] \in Small THEN LittleLimit ELSE LargeLimit
Fits(m) == Len1(m) <= Limit(m)
Unit == (1..Len(sends)) \X (Nat \ {0})

TrTypeOK ==
    /\ sends \in Seq(Small \cup Files)
    /\ {small.msg, file.msg} \subseteq 0..Len(sends)
    /\ awaiting \in BOOLEAN /\ session \in 1..MaxSessions /\ acks \in 0..1
    /\ Len(link) <= Window
    /\ little \in Seq(Unit) /\ Len(little) <= LittleLimit
    /\ large \in Seq(Unit) /\ Len(large) <= LargeLimit
    /\ ftLength \in {0} \cup {Size[f] : f \in Files}
    /\ \A i \in 1..Len(handled) : handled[i] \in Seq(Unit) /\ handled[i] # <<>>

\* A buffer never mixes two messages, and never holds the pieces of one out of
\* order or twice: whatever was cancelled, refused or lost before, everything
\* in it comes from one message, from its beginning to its end, and it has a
\* hole only if that message is longer than the limit.  (Two files over the
\* limit with the same length do mix, in a buffer that is never handled.)
OneMessage(buffer) ==
    buffer # <<>> =>
        LET m == buffer[1][1]
        IN  /\ \A i \in 1..Len(buffer) : buffer[i][1] = m
            /\ \A i, j \in 1..Len(buffer) : i < j => buffer[i][2] < buffer[j][2]
            /\ Fits(m) => buffer = SubSeq(Whole(m), 1, Len(buffer))
NeverMixed ==
    /\ OneMessage(little)
    /\ ftLength <= LargeLimit => OneMessage(large)
    /\ \A i \in 1..Len(handled) : OneMessage(handled[i])

\* The message a buffer or a piece comes from
MessageOf(units) == units[1][1]

\* Nothing is handled twice, and neither the small messages nor the files
\* overtake each other: what is handled was begun after everything of its kind
\* that was handled before, whatever was cancelled or lost meanwhile.
HandledOnce ==
    \A i, j \in 1..Len(handled) : i < j =>
        LET m == MessageOf(handled[i])
            n == MessageOf(handled[j])
        IN  (sends[m] \in Small <=> sends[n] \in Small) => m < n

\* The messages within the limits: each is handled whole, once, in the order
\* of completion, unless it is cancelled or its session is lost.  A message
\* over a limit, whatever becomes of it, does no harm to those after it.
Completes(p) ==
    /\ p.kind \in {"tail", "big"}
    /\ LET last == p.units[Len(p.units)]
       IN  last[2] = p.total /\ Fits(last[1])
Channel == INSTANCE Delivery WITH
    pending <- LET done == SelectSeq(link, Completes)
               IN  [i \in 1..Len(done) |-> done[i].units[1][1]],
    handled <- LET fit == SelectSeq(handled, LAMBDA b : Fits(b[1][1]))
               IN  [i \in 1..Len(fit) |->
                       IF fit[i] = Whole(fit[i][1][1]) THEN fit[i][1][1] ELSE 0]
ChannelFairSpec == Channel!FairSpec
=============================================================================
