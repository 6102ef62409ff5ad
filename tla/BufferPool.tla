------------------------------ MODULE BufferPool ------------------------------
(***************************************************************************)
(* The life of the SFU's buffers: a factory makes one for each SSRC a peer  *)
(* connection meets, packets wait in it until its track is bound and its    *)
(* reader runs, its memory comes from a pool when it is bound and goes back *)
(* when it is closed.  Audio and video have a pool of their own; this is    *)
(* one of them.                                                            *)
(***************************************************************************)
EXTENDS Naturals, Sequences, SequencesExt

CONSTANTS Ssrc, MaxBuffers, MaxWritten, MaxSlabs, MaxCloses

VARIABLES
  made,       \* the buffers made
  rtpBuffers, \* [Ssrc -> the buffer the factory has for it, or 0]
  written,    \* history: [buffer -> packets written while it was open]
  readOut,    \* history: [buffer -> packets its reader got]
  announced,  \* buffers whose track OnTrack has, and AddReceiver not yet
  attached,   \* <<b, c>>: for b's track, AddReceiver found buffer c and has yet to bind it
  panicked,   \* it found none
  pool,       \* the slabs put back
  slabs,      \* slabs allocated
  writes, closes

bufferVars == <<made, rtpBuffers, written, readOut, announced, attached, panicked,
                pool, slabs, writes, closes>>

BufferInit ==
  /\ made = <<>> /\ rtpBuffers = [s \in Ssrc |-> 0] /\ written = <<>> /\ readOut = <<>>
  /\ announced = {} /\ attached = {} /\ panicked = FALSE /\ pool = <<>> /\ slabs = 0 /\ writes = 0 /\ closes = 0

Unbound(s) == [ssrc |-> s, bound |-> FALSE, closed |-> FALSE, slab |-> 0, peeked |-> 0,
               pPackets |-> <<>>, extPackets |-> <<>>]

-----------------------------------------------------------------------------
\* A stream of the SSRC begins.  A second one, of whatever peer, that the factory
\* has a buffer for is given the same buffer, and nothing changes.
GetOrNew(s) ==
  /\ rtpBuffers[s] = 0 /\ Len(made) < MaxBuffers
  /\ made' = Append(made, Unbound(s)) /\ rtpBuffers' = [rtpBuffers EXCEPT ![s] = Len(made) + 1]
  /\ written' = Append(written, <<>>) /\ readOut' = Append(readOut, <<>>)
  /\ UNCHANGED <<announced, attached, panicked, pool, slabs, writes, closes>>

\* Packets are numbered; a closed buffer refuses them.
WriteTo(b) ==
  /\ ~made[b].closed /\ writes < MaxWritten /\ writes' = writes + 1
  /\ made' = IF made[b].bound THEN [made EXCEPT ![b].extPackets = Append(@, writes')]
             ELSE [made EXCEPT ![b].pPackets = Append(@, writes')]
  /\ written' = [written EXCEPT ![b] = Append(@, writes')]
  /\ UNCHANGED <<rtpBuffers, readOut, announced, attached, panicked, pool, slabs, closes>>

\* The peer connection reads the first packets to know the track, and calls
\* OnTrack in a goroutine ...
ReadFirst(b) ==
  /\ ~made[b].closed /\ made[b].peeked < Len(made[b].pPackets)
  /\ made' = [made EXCEPT ![b].peeked = @ + 1]
  /\ announced' = IF made[b].peeked = 0 THEN announced \union {b} ELSE announced
  /\ UNCHANGED <<rtpBuffers, written, readOut, attached, panicked, pool, slabs, writes, closes>>

\* ... which looks the SSRC up again: the buffer may have been closed meanwhile,
\* and AddReceiver panics without one, or the SSRC may have another by now.
GetBufferPair(b) ==
  /\ b \in announced /\ announced' = announced \ {b}
  /\ LET c == rtpBuffers[made[b].ssrc]
     IN  IF c = 0 THEN panicked' = TRUE /\ UNCHANGED attached
         ELSE attached' = attached \union {<<b, c>>} /\ UNCHANGED panicked
  /\ UNCHANGED <<made, rtpBuffers, written, readOut, pool, slabs, writes, closes>>

\* The pool hands out what was put back, or makes a new slab.
PoolGet(b, bound) ==
  \/ /\ pool # <<>> /\ pool' = Tail(pool)
     /\ made' = [made EXCEPT ![b] = [bound EXCEPT !.slab = Head(pool)]]
     /\ UNCHANGED slabs
  \/ /\ slabs < MaxSlabs /\ slabs' = slabs + 1
     /\ made' = [made EXCEPT ![b] = [bound EXCEPT !.slab = slabs']]
     /\ UNCHANGED pool

\* Bind, of a buffer that may be closed, or bound already, by now.
Bind(b, c) ==
  /\ <<b, c>> \in attached /\ attached' = attached \ {<<b, c>>}
  /\ PoolGet(c, [made[c] EXCEPT !.bound = TRUE, !.extPackets = @ \o made[c].pPackets,
                                !.pPackets = <<>>])
  /\ UNCHANGED <<rtpBuffers, written, readOut, announced, panicked, writes, closes>>

ReadExtended(b) ==
  /\ ~made[b].closed /\ made[b].extPackets # <<>>
  /\ readOut' = [readOut EXCEPT ![b] = Append(@, Head(made[b].extPackets))]
  /\ made' = [made EXCEPT ![b].extPackets = Tail(@)]
  /\ UNCHANGED <<rtpBuffers, written, announced, attached, panicked, pool, slabs, writes, closes>>

\* Mutant: without closeOnce.
CloseEachTime(b) ==
  /\ closes < MaxCloses /\ closes' = closes + 1
  /\ pool' = IF made[b].slab = 0 THEN pool ELSE Append(pool, made[b].slab)
  /\ made' = [made EXCEPT ![b].closed = TRUE]
  /\ rtpBuffers' = [rtpBuffers EXCEPT ![made[b].ssrc] = 0]
  /\ UNCHANGED <<written, readOut, announced, attached, panicked, slabs, writes>>

\* Close, by the peer connection's end and by the stream's; the first one puts
\* the memory back and takes the buffer out of the factory.
CloseBuffer(b) ==
  /\ closes < MaxCloses /\ closes' = closes + 1
  /\ IF made[b].closed THEN UNCHANGED <<pool, made, rtpBuffers>>
     ELSE /\ pool' = IF made[b].slab = 0 THEN pool ELSE Append(pool, made[b].slab)
          /\ made' = [made EXCEPT ![b].closed = TRUE]
          /\ rtpBuffers' = [rtpBuffers EXCEPT ![made[b].ssrc] = 0]
  /\ UNCHANGED <<written, readOut, announced, attached, panicked, slabs, writes>>

BufferNext ==
  /\ ~panicked
  /\ \/ \E s \in Ssrc : GetOrNew(s)
     \/ \E b \in 1 .. Len(made) : WriteTo(b) \/ ReadFirst(b) \/ GetBufferPair(b)
                                  \/ ReadExtended(b) \/ CloseBuffer(b)
     \/ \E p \in attached : Bind(p[1], p[2])

BufferSpec == BufferInit /\ [][BufferNext]_bufferVars

-----------------------------------------------------------------------------
\* Pre-bind packets, binding, reading, closing and reuse in any order: every
\* packet written to an open buffer is read once, in its order, from memory that
\* no other open buffer uses, that is not in the pool, nor there twice; and the
\* factory has exactly the open ones.
PacketsKept ==
  /\ \A b \in 1 .. Len(made) : ~made[b].closed =>
       /\ written[b] = readOut[b] \o made[b].extPackets \o made[b].pPackets
       /\ rtpBuffers[made[b].ssrc] = b
       /\ made[b].bound => /\ made[b].slab \notin ToSet(pool)
                           /\ \A c \in 1 .. Len(made) :
                                c # b /\ ~made[c].closed => made[c].slab # made[b].slab
  /\ IsInjective(pool)
=============================================================================
