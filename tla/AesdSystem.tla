----------------------------- MODULE AesdSystem -----------------------------
(***************************************************************************)
(* The server on the device: what a thread of server/aesdsocket.c does     *)
(* with what its client sends, by way of the driver's own actions, which   *)
(* AesdChar defines.  A client's bytes become packets of the log, a seek   *)
(* command becomes an ioctl, and the client is sent what the device holds. *)
(*                                                                         *)
(* There is one connection at a time, which is what AesdSocket implements, *)
(* so there is one file.  TCP delivers what a client sends in chunks; a    *)
(* chunk is what one recv returns.  The process may end at any point where *)
(* no system call is under way and is started again by the start script,   *)
(* while the module stays loaded.                                          *)
(***************************************************************************)
EXTENDS AesdChar

CONSTANTS
    Server,         \* the file the threads of the server open
    Cut             \* TCP may cut a seek command in two

ASSUME SystemAssumption ==
    /\ Server \in Files
    /\ Cut \in BOOLEAN

VARIABLES
    up,             \* is the process running
    client,         \* the connection being served, numbered as they come
    thread,         \* where its thread is
    chunk,          \* what is in buf
    isIoctl,
    answer,         \* the bytes sent to the client
    start,          \* history: the position the client asked to be answered from
    from,           \* history: who sent each byte that was accepted
    left            \* history: clients that have not ended their last line

connection == <<client, thread, chunk, isIoctl, answer, start>>
server     == <<up, connection, from, left>>
allVars    == <<vars, server>>

\* Chunks: text with and without a newline at its end, a seek command, the
\* first part of one and the rest of it, which ends with the newline.
Chunks == {"text", "line", "command", "head", "tail"}
EndsLine(c) == c \in {"line", "command", "tail"}    \* buf[rcvd - 1] == '\n'

SystemInit ==
    /\ Init
    /\ up = TRUE
    /\ client = 0
    /\ thread = "none"
    /\ chunk = "line"
    /\ isIoctl = FALSE
    /\ answer = << >>
    /\ start = 0
    /\ from = << >>
    /\ left = {}

\* Clients whose bytes the driver has seen.
Senders == Range(from)

ThreadAt(here, there) == up /\ thread = here /\ thread' = there

-----------------------------------------------------------------------------
(* The connection.                                                         *)

\* A client that sent nothing leaves its number to the next.
Accept ==
    /\ ThreadAt("none", "open")
    /\ client' = Cardinality(Senders) + 1
    /\ chunk' = "line"
    /\ isIoctl' = FALSE
    /\ answer' = << >>
    /\ start' = 0
    /\ UNCHANGED <<vars, up, from, left>>

OpenDevice ==
    /\ Open(Server)
    /\ ThreadAt("open", "recv")
    /\ UNCHANGED <<up, client, chunk, isIoctl, answer, start, from, left>>

OpenFails ==
    /\ ~loaded
    /\ ThreadAt("open", "exit")
    /\ UNCHANGED <<vars, up, client, chunk, isIoctl, answer, start, from, left>>

\* The call that a chunk leads to (line 225).  strncmp looks at 19 bytes, which
\* a head need not have: then what buf held before decides.
CallsFor(c) == CASE c = "command" -> {"seek"}
                 [] c = "head"    -> {"seek", "write"}
                 [] OTHER         -> {"write"}

Receive ==
    /\ \E c \in Chunks, call \in {"seek", "write"} :
          /\ call \in CallsFor(c)
          /\ c = "tail" <=> chunk = "head"
          /\ c = "head" => Cut
          /\ call = "write" => accepted + Max(WriteCounts) <= MaxBytes
          /\ ThreadAt("recv", call)
          /\ chunk' = c
    /\ UNCHANGED <<vars, up, client, isIoctl, answer, start, from, left>>

\* Where the receive loop leads (246-250).
Answer == IF isIoctl THEN "read" ELSE "rewind"

\* recv returns no bytes: the client has closed its side, or is gone.
EndOfStream ==
    /\ ThreadAt("recv", Answer)
    /\ UNCHANGED <<vars, up, client, chunk, isIoctl, answer, start, from, left>>

CloseDevice ==
    /\ Release(Server)
    /\ ThreadAt("close", "none")
    /\ client' = 0
    /\ UNCHANGED <<up, chunk, isIoctl, answer, start, from, left>>

-----------------------------------------------------------------------------
(* System calls of the thread.                                             *)

BeginCall ==
    /\ up
    /\ \/ thread = "write"  /\ WriteCall(Server)
       \/ thread = "seek"   /\ SeekCall(Server)
       \/ thread = "rewind" /\ LseekCall(Server)
       \/ thread = "read"   /\ ReadCall(Server)
    /\ UNCHANGED server

\* The bytes are the client's, and it has ended a line with them or not.
Attributed ==
    /\ from' = from \o [i \in 1 .. accepted' - accepted |-> client]
    /\ left' = IF EndsLine(chunk) THEN left \ {client} ELSE left \cup {client}
    /\ UNCHANGED <<up, connection>>

\* Mutant: the driver looks at another byte for the newline.
WriteBody_OtherByte == WriteSome(Server) /\ Attributed

\* The driver and the server look at the same last byte.
WriteBody ==
    /\ WriteSome(Server)
    /\ buffer' # buffer <=> EndsLine(chunk)
    /\ Attributed

SeekBody ==
    /\ Seek(Server)
    /\ start' = f_pos'[Server]
    /\ UNCHANGED <<up, client, thread, chunk, isIoctl, answer, from, left>>

OtherBody ==
    /\ \/ Lock(Server)
       \/ ReadNothing(Server) \/ ReadSome(Server) \/ ReadLoad(Server) \/ ReadStore(Server)
       \/ WriteNoMemory(Server)
       \/ SeekRefused(Server)
       \/ Lseek(Server)
    /\ UNCHANGED server

\* Lines 237-243; checkerr exits.
WriteReturns ==
    /\ Unlock(Server)
    /\ ThreadAt("write", IF retval[Server] # "ok" THEN "exit"
                         ELSE IF EndsLine(chunk) THEN Answer ELSE "recv")
    /\ UNCHANGED <<up, client, chunk, isIoctl, answer, start, from, left>>

\* Mutant: the thread forgets that it has sought.
SeekReturns_Forgets ==
    /\ Unlock(Server)
    /\ ThreadAt("seek", IF retval[Server] # "ok" THEN "exit"
                        ELSE IF EndsLine(chunk) THEN "rewind" ELSE "recv")
    /\ UNCHANGED <<up, client, chunk, isIoctl, answer, start, from, left>>

\* Lines 229-233 and 241.
SeekReturns ==
    /\ Unlock(Server)
    /\ ThreadAt("seek", IF retval[Server] # "ok" THEN "exit"
                        ELSE IF EndsLine(chunk) THEN "read" ELSE "recv")
    /\ isIoctl' = TRUE
    /\ UNCHANGED <<up, client, chunk, answer, start, from, left>>

\* A command out of range: the driver unlocks what it finds on its stack and
\* returns an error, or follows a pointer to nothing.  The kernel then ends the
\* thread and nothing else: g_mutex and the device stay as the thread left them.
SeekFails ==
    /\ \/ SeekUnlocks(Server) /\ ThreadAt("seek", "exit")
       \/ SeekOops(Server) /\ ThreadAt("seek", "dead")
    /\ UNCHANGED <<up, client, chunk, isIoctl, answer, start, from, left>>

RewindReturns ==
    /\ Unlock(Server)
    /\ ThreadAt("rewind", "read")
    /\ UNCHANGED <<up, client, chunk, isIoctl, answer, start, from, left>>

\* Mutant: one read is enough.
ReadReturns_Once ==
    /\ Unlock(Server)
    /\ ThreadAt("read", "close")
    /\ answer' = answer \o reply[Server]
    /\ UNCHANGED <<up, client, chunk, isIoctl, start, from, left>>

\* Lines 257-267: what was read is sent, until a read returns nothing.
ReadReturns ==
    /\ Unlock(Server)
    /\ ThreadAt("read", IF reply[Server] = << >> THEN "close" ELSE "read")
    /\ answer' = answer \o reply[Server]
    /\ UNCHANGED <<up, client, chunk, isIoctl, start, from, left>>

-----------------------------------------------------------------------------
(* The process and the module.                                             *)

\* The kernel closes the device.
Ends ==
    /\ up' = FALSE
    /\ IF pc[Server] = "closed" THEN UNCHANGED vars ELSE Release(Server)
    /\ thread' = "none"
    /\ client' = 0
    /\ UNCHANGED <<chunk, isIoctl, answer, start, from, left>>

Exits  == up /\ thread = "exit" /\ Ends
Killed == up /\ thread # "exit" /\ Ends

Restart ==
    /\ ~up
    /\ up' = TRUE
    /\ UNCHANGED <<vars, connection, from, left>>

\* aesdchar_load and aesdchar_unload; a thread that died has the device open.
LoadModule   == Load /\ UNCHANGED server
UnloadModule == thread # "dead" /\ Unload /\ UNCHANGED server

ThreadStep ==
    \/ OpenDevice \/ OpenFails \/ Receive \/ EndOfStream \/ CloseDevice
    \/ BeginCall \/ WriteBody \/ SeekBody \/ OtherBody
    \/ WriteReturns \/ SeekReturns \/ SeekFails \/ RewindReturns \/ ReadReturns
    \/ Exits

SystemNext ==
    \/ Accept
    \/ ThreadStep
    \/ Killed \/ Restart
    \/ LoadModule \/ UnloadModule

SystemSpec == SystemInit /\ [][SystemNext]_allVars

\* The thread is scheduled, and its client sends something or leaves.
FairSystemSpec == SystemSpec /\ WF_allVars(ThreadStep)

-----------------------------------------------------------------------------
Answered == thread = "read" /\ thread' = "close"

(***************************************************************************)
(* A client is sent what the device holds, all of it and nothing twice,    *)
(* although that takes many reads: from the first byte on, or from where   *)
(* its seek command points (246-267).  If TCP cut the command in two, the  *)
(* rest of it is written behind the seek and the position is lost.         *)
(***************************************************************************)
AnswerIsTheLog ==
    [][Answered /\ ~(isIoctl /\ chunk = "tail")
          => answer' = SubSeq(Contents, start + 1, Len(Contents))]_allVars

SentBy(c) == {b \in 1 .. accepted : from[b] = c}

\* These bytes are as far from the end of s as from the last byte accepted, so
\* they are behind everything else in s.
EndsWith(s, bytes) ==
    \A b \in bytes : LET i == Len(s) - (accepted - b)
                     IN  i \in DOMAIN s /\ s[i] = b

(***************************************************************************)
(* A client that ends its packet and seeks nothing gets every byte it sent *)
(* back at the end of its answer, whatever the clients before it left in   *)
(* the device (220-267, main.c:144-151).                                   *)
(***************************************************************************)
OwnPacketComesBack ==
    [][Answered /\ ~isIoctl /\ EndsLine(chunk)
          => EndsWith(answer', SentBy(client))]_allVars

(***************************************************************************)
(* Bytes of two clients are in one packet only if the first one did not    *)
(* end its line: it left too early or the server died, and the driver      *)
(* keeps them for whoever comes next (235-243, main.c:128-170).            *)
(***************************************************************************)
PacketOfOneClient ==
    loaded => \A p \in Range(Packets) \cup {Kept} : \A i, j \in DOMAIN p :
        i < j /\ Junk \notin {p[i], p[j]} /\ from[p[i]] # from[p[j]] => from[p[i]] \in left

(***************************************************************************)
(* Every connection ends, unless the driver's oops ended its thread: the   *)
(* reads of the answer do return nothing at last (257), whatever was       *)
(* evicted and wherever the client sought.                                 *)
(***************************************************************************)
ConnectionEnds == thread = "open" ~> thread \in {"none", "dead"}
=============================================================================
