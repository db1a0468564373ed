------------------------------- MODULE Buffer -------------------------------
(***************************************************************************)
(* Buffer (buffer.cpp): bytes in a chain of blocks of one size, with a     *)
(* position and a pointer to its block, which is null when the position is *)
(* at the end of the last block; and the socket stream that fills and      *)
(* empties one (socket_stream.cpp).  A number is written as its bytes.     *)
(* Left out: setPosition(v, false), which nobody calls; read() at another  *)
(* position than m_position; and the capacity that a read from a socket    *)
(* has added when it fails.                                                *)
(***************************************************************************)
EXTENDS Integers, SequencesExt

CONSTANTS
    m_baseSize, \* the size of a block
    Bytes,      \* what is written
    MaxBlocks,  \* bound: the blocks of the chain
    MaxOnce     \* bound: the bytes of one call

ASSUME BufferAssumption == m_baseSize \in Nat \ {0} /\ MaxBlocks \in Nat /\ MaxOnce \in Nat

VARIABLES
    chain,      \* the blocks from m_root on
    m_cur,      \* which block m_cur points to (0: nullptr)
    m_position, m_capacity, m_size,
    out,        \* what the last call has returned, or written to a file
    fault       \* the call that has followed a null pointer ("": none)

bufferVars == <<chain, m_cur, m_position, m_capacity, m_size, out, fault>>

Fresh == 0      \* the content of new memory
Block == [i \in 0 .. m_baseSize - 1 |-> Fresh]

BufferInit ==
    /\ chain = <<Block>> /\ m_cur = 1
    /\ m_position = 0 /\ m_capacity = m_baseSize /\ m_size = 0
    /\ out = <<>> /\ fault = ""

getReadSize == m_size - m_position
Sound == fault = ""

-----------------------------------------------------------------------------
After(blocks, c) == IF c = Len(blocks) THEN 0 ELSE c + 1

(* The loop of write, read, getReadBuffers and getWriteBuffers, block by   *)
(* block: from npos in block c on, the places <<block, index>> of the next *)
(* `size` bytes.                                                           *)
Places(c, npos, size) ==
    [k \in 1 .. size |-> <<c + (npos + k - 1) \div m_baseSize, (npos + k - 1) % m_baseSize>>]

Places_(c, size) == Places(c, m_position % m_baseSize, size)

(* Mutant: no step to the next block when one is full.                     *)
MovedNot(blocks, ps) == Last(ps)[1]

(* m_cur after these places have been read or written.                     *)
Moved(blocks, ps) ==
    LET p == Last(ps) IN IF p[2] + 1 = m_baseSize THEN After(blocks, p[1]) ELSE p[1]

Stored(blocks, ps, s) ==
    [c \in DOMAIN blocks |-> [i \in DOMAIN blocks[c] |->
        IF \E k \in DOMAIN ps : ps[k] = <<c, i>> THEN s[CHOOSE k \in DOMAIN ps : ps[k] = <<c, i>>]
        ELSE blocks[c][i]]]
Loaded(blocks, ps) == [k \in DOMAIN ps |-> blocks[ps[k][1]][ps[k][2]]]

(* addCapacity.                                                            *)
Grown(size) ==
    LET room == m_capacity - m_position
        count == IF room >= size THEN 0 ELSE (size - room + m_baseSize - 1) \div m_baseSize
    IN [chain |-> chain \o [i \in 1 .. count |-> Block],
        cur |-> IF room = 0 /\ count > 0 THEN Len(chain) + 1 ELSE m_cur,
        capacity |-> m_capacity + count * m_baseSize]

(* setPosition: the block is looked for from the root on; at the very end  *)
(* of the last one that follows a null pointer.                            *)
Sought(blocks, v) == v \div m_baseSize + 1
SetPosition(g, v) ==
    /\ v <= g.capacity
    /\ m_position' = v
    /\ m_size' = IF v > m_size THEN v ELSE m_size
    /\ IF Sought(g.chain, v) > Len(g.chain) THEN fault' = "setPosition" /\ m_cur' = 0
       ELSE m_cur' = Sought(g.chain, v) /\ UNCHANGED fault
    /\ m_capacity' = g.capacity

Here == [chain |-> chain, cur |-> m_cur, capacity |-> m_capacity]

-----------------------------------------------------------------------------
Write ==
    \E n \in 1 .. MaxOnce : \E s \in [1 .. n -> Bytes] :
        LET g == Grown(n)
            ps == Places_(g.cur, n)
        IN
        /\ Sound /\ Len(g.chain) <= MaxBlocks
        /\ chain' = Stored(g.chain, ps, s)
        /\ m_cur' = Moved(g.chain, ps)
        /\ m_capacity' = g.capacity
        /\ m_position' = m_position + n
        /\ m_size' = IF m_position + n > m_size THEN m_position + n ELSE m_size
        /\ out' = <<>> /\ UNCHANGED fault

(* Even a read of nothing follows m_cur.                                   *)
Read ==
    \E n \in 0 .. MaxOnce :
        LET ps == Places_(m_cur, n) IN
        /\ Sound /\ n <= getReadSize
        /\ IF m_cur = 0 THEN fault' = "read" /\ out' = <<>> /\ UNCHANGED <<m_cur, m_position>>
           ELSE /\ out' = Loaded(chain, ps)
                /\ m_cur' = IF n = 0 THEN m_cur ELSE Moved(chain, ps)
                /\ m_position' = m_position + n
                /\ UNCHANGED fault
        /\ UNCHANGED <<chain, m_capacity, m_size>>

Reset(blocks) ==
    /\ Sound
    /\ chain' = blocks /\ m_cur' = 1 /\ m_position' = 0 /\ m_size' = 0
    /\ m_capacity' = Len(blocks) * m_baseSize
    /\ out' = <<>> /\ UNCHANGED fault
Reinit == Reset(chain)
Clear == Reset(<<chain[1]>>)

Position ==
    \E v \in 0 .. m_capacity :
        Sound /\ SetPosition(Here, v) /\ out' = <<>> /\ UNCHANGED chain

(* toString, which reads at m_position without moving.                     *)
ToText ==
    /\ Sound
    /\ out' = Loaded(chain, Places_(m_cur, getReadSize))
    /\ UNCHANGED <<chain, m_cur, m_position, m_capacity, m_size, fault>>

(* SocketStream::read: the socket fills part of the blocks offered.        *)
SocketRead ==
    \E length \in 1 .. MaxOnce : \E n \in 1 .. length : \E s \in [1 .. n -> Bytes] :
        LET g == Grown(length) IN
        /\ Sound /\ Len(g.chain) <= MaxBlocks
        /\ chain' = Stored(g.chain, Places_(g.cur, n), s)
        /\ SetPosition(g, m_position + n)
        /\ out' = <<>>

(* SocketStream::write: it takes part of what there is.                    *)
SocketWrite ==
    \E n \in 1 .. MaxOnce :
        /\ Sound /\ n <= getReadSize
        /\ out' = Loaded(chain, Places_(m_cur, n))
        /\ SetPosition(Here, m_position + n)
        /\ UNCHANGED chain

(* writeToFile: a piece is as long as the rest, or a block, less the       *)
(* offset in the block; then the next block follows.  From the middle of a *)
(* block on, a short rest makes a piece too short, or of negative length.  *)
NextPiece(w) ==
    LET diff == w.pos % m_baseSize
        len == (IF w.left > m_baseSize THEN m_baseSize ELSE w.left) - diff
    IN IF w.left = 0 \/ w.bad THEN w
       ELSE IF w.cur = 0 \/ len < 0 THEN [w EXCEPT !.bad = TRUE]
       ELSE [pos |-> w.pos + len, cur |-> After(chain, w.cur), left |-> w.left - len, bad |-> FALSE,
             text |-> w.text \o [k \in 1 .. len |-> chain[w.cur][diff + k - 1]]]

(* What it has come to after k turns.  Each leads to the next block, and   *)
(* one after the last would follow a null pointer.                         *)
AfterTurns[k \in 0 .. Len(chain) + 1] ==
    IF k = 0 THEN [pos |-> m_position, cur |-> m_cur, left |-> getReadSize, bad |-> FALSE, text |-> <<>>]
    ELSE NextPiece(AfterTurns[k - 1])

WriteToFile ==
    LET w == AfterTurns[Len(chain) + 1] IN
    /\ Sound
    /\ IF w.bad THEN fault' = "writeToFile" /\ out' = <<>> ELSE out' = w.text /\ UNCHANGED fault
    /\ UNCHANGED <<chain, m_cur, m_position, m_capacity, m_size>>

BufferNext == \/ Write \/ Read \/ Reinit \/ Clear \/ Position
              \/ ToText \/ SocketRead \/ SocketWrite \/ WriteToFile

BufferSpec == BufferInit /\ [][BufferNext]_bufferVars

-----------------------------------------------------------------------------
(* Whatever the blocks, a Buffer is a sequence of bytes with a position:   *)
(* what is read is what was written there last.                            *)
BytesHeld == [i \in 1 .. m_size |-> chain[(i - 1) \div m_baseSize + 1][(i - 1) % m_baseSize]]
Store == INSTANCE ByteStore WITH
    Bytes <- Bytes,
    bytes <- BytesHeld,
    position <- m_position,
    result <- out
ImplementsStore == Store!StoreSpec

(* Up to the capacity a position may be set: beyond it setPosition throws, *)
(* says buffer.h.  At the capacity itself it follows the null pointer.     *)
PositionInRange == fault # "setPosition"
=============================================================================
