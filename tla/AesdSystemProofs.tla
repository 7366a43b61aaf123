-------------------------- MODULE AesdSystemProofs --------------------------
(***************************************************************************)
(* What the server does with the device is what any task may do with it:   *)
(* the composed system is an instance of the driver's specification, and   *)
(* what is proved of the driver holds of it, also when the process is      *)
(* killed, is started again, or loses a thread inside the driver.          *)
(***************************************************************************)
EXTENDS AesdSystem, DriverLogProofs, FiniteSetTheorems

LEMMA ServerStepIsDriverStep == [SystemNext]_allVars => [Next]_vars
<1> SUFFICES ASSUME [SystemNext]_allVars PROVE Next \/ UNCHANGED vars
  OBVIOUS
<1> DEFINE calls(f) ==
      \/ Open(f) \/ Release(f)
      \/ ReadCall(f) \/ WriteCall(f) \/ SeekCall(f) \/ LseekCall(f)
      \/ Lock(f) \/ Body(f) \/ SeekUnlocks(f) \/ SeekOops(f)
<1>1. calls(Server) \/ Load \/ Unload => Next
  BY SystemAssumption DEF Next
<1> HIDE DEF calls
<1>2. CASE Accept \/ Receive \/ OpenFails \/ EndOfStream \/ Restart
  BY <1>2 DEF Accept, Receive, OpenFails, EndOfStream, Restart
<1>3. CASE OpenDevice \/ CloseDevice \/ BeginCall
  BY <1>3, <1>1 DEF OpenDevice, CloseDevice, BeginCall, calls
<1>4. CASE WriteBody \/ SeekBody \/ OtherBody
  BY <1>4, <1>1 DEF WriteBody, SeekBody, OtherBody, calls, Body
<1>5. CASE WriteReturns \/ SeekReturns \/ SeekFails \/ RewindReturns \/ ReadReturns
  BY <1>5, <1>1
     DEF WriteReturns, SeekReturns, SeekFails, RewindReturns, ReadReturns, calls, Body
<1>6. CASE Exits \/ Killed
  BY <1>6, <1>1 DEF Exits, Killed, Ends, calls
<1>7. CASE LoadModule \/ UnloadModule
  BY <1>7, <1>1 DEF LoadModule, UnloadModule
<1>8. CASE UNCHANGED allVars
  BY <1>8 DEF allVars
<1>q. QED
  BY <1>2, <1>3, <1>4, <1>5, <1>6, <1>7, <1>8 DEF SystemNext, ThreadStep

(***************************************************************************)
(* The server on the device takes driver steps only (aesdsocket.c:202-275, *)
(* main.c:291-299).                                                        *)
(***************************************************************************)
THEOREM SystemUsesDriver == SystemSpec => Spec
<1>1. SystemInit => Init
  BY DEF SystemInit
<1>q. QED BY <1>1, ServerStepIsDriverStep, PTL DEF SystemSpec, Spec

(***************************************************************************)
(* Whatever clients send and whenever the server dies, no pointer of the   *)
(* driver dangles and its ring stays well formed.                          *)
(***************************************************************************)
THEOREM SystemKeepsDriverSafe == SystemSpec => []HeapSafe /\ []BufferInv /\ []TypeOK
BY SystemUsesDriver, DriverHeapCorrect, DriverBufferCorrect, DriverTypeCorrect, PTL

-----------------------------------------------------------------------------
(***************************************************************************)
(* Whose bytes are in a packet.  Clients are numbered as they come, so the *)
(* bytes of a packet have growing owners; only one that has not ended its  *)
(* line is followed by another.                                            *)
(***************************************************************************)
InOrder(p, owners, open) ==
    \A i, j \in DOMAIN p : i < j /\ p[i] # Junk /\ p[j] # Junk =>
        /\ owners[p[i]] <= owners[p[j]]
        /\ owners[p[i]] # owners[p[j]] => owners[p[i]] \in open

WasGiven(p, n) == \A i \in DOMAIN p : p[i] <= n

KeptIsOpen == \A i \in DOMAIN Kept : Kept[i] # Junk => from[Kept[i]] \in left

ClientIsLast ==
    \E m \in Nat : /\ Senders = 1 .. m
                   /\ thread # "none" => client \in Nat \ {0} /\ m <= client /\ client <= m + 1

SystemInv ==
    /\ from \in Seq(Nat) /\ Len(from) = accepted
    /\ thread = "none" => pc[Server] = "closed"
    /\ ClientIsLast
    /\ \A q \in live : WasGiven(data[q], accepted) /\ InOrder(data[q], from, left)
    /\ loaded => KeptIsOpen

LEMMA KeptIsInOrder ==
    ASSUME DeviceInv, SystemInv, loaded
    PROVE  WasGiven(Kept, accepted) /\ InOrder(Kept, from, left)
<1>1. CASE working.buffptr = NULL
  <2>1. \A i \in DOMAIN Kept : Kept[i] = Junk
    BY <1>1 DEF Kept
  <2>2. Junk <= accepted
    BY DEF DeviceInv, Junk
  <2>q. QED BY <2>1, <2>2 DEF WasGiven, InOrder
<1>2. CASE working.buffptr # NULL
  <2>1. Kept = data[working.buffptr] /\ working.buffptr \in live
    BY <1>2 DEF Kept, DeviceInv, HeapSafe
  <2>q. QED BY <2>1 DEF SystemInv
<1>q. QED BY <1>1, <1>2

LEMMA OwnerOf ==
    ASSUME SystemInv, NEW b \in Nat, b # Junk, b <= accepted
    PROVE  from[b] \in Senders /\ from[b] \in Nat
<1>1. b \in DOMAIN from
  BY DEF SystemInv, Junk
<1>q. QED BY <1>1 DEF Senders, Range, SystemInv

(***************************************************************************)
(* What a write of k bytes does to the owners.                             *)
(***************************************************************************)
LEMMA OwnersAfter ==
    ASSUME DeviceInv, SystemInv, NEW k \in Nat, thread # "none",
           accepted' = accepted + k, Attributed
    PROVE  /\ from' \in Seq(Nat) /\ Len(from') = accepted'
           /\ \A b \in Nat : b # Junk /\ b <= accepted => from'[b] = from[b]
           /\ \A i \in 1 .. k : from'[accepted + i] = client
           /\ client' = client /\ thread' = thread
           /\ left' = IF EndsLine(chunk) THEN left \ {client} ELSE left \cup {client}
<1> DEFINE new == [i \in 1 .. k |-> client]
<1>1. accepted \in Nat /\ from \in Seq(Nat) /\ Len(from) = accepted /\ client \in Nat
  BY DEF DeviceInv, SystemInv, ClientIsLast
<1>2. from' = from \o new
  <2>1. accepted' - accepted = k
    BY <1>1
  <2>q. QED BY <2>1 DEF Attributed
<1>3. new \in Seq(Nat) /\ Len(new) = k /\ \A i \in 1 .. k : new[i] = client
  BY <1>1
<1> HIDE DEF new
<1>4. /\ from' \in Seq(Nat) /\ Len(from') = accepted + k
      /\ \A i \in 1 .. accepted + k :
            from'[i] = IF i <= accepted THEN from[i] ELSE new[i - accepted]
  BY <1>1, <1>2, <1>3, ConcatProperties
<1>5. ASSUME NEW b \in Nat, b # Junk, b <= accepted PROVE from'[b] = from[b]
  BY <1>1, <1>4, <1>5 DEF Junk
<1>6. ASSUME NEW i \in 1 .. k PROVE from'[accepted + i] = client
  <2> DEFINE b == accepted + i
  <2>1. b \in 1 .. accepted + k /\ ~(b <= accepted) /\ b - accepted = i
    BY <1>1
  <2> HIDE DEF b
  <2>2. from'[b] = new[i]
    BY <1>4, <2>1
  <2>q. QED BY <1>3, <2>2 DEF b
<1>q. QED BY <1>4, <1>5, <1>6 DEF Attributed, connection

LEMMA ClientStaysLast ==
    ASSUME DeviceInv, SystemInv, NEW k \in Nat, thread # "none",
           accepted' = accepted + k, Attributed
    PROVE  ClientIsLast'
<1>1. PICK m \in Nat : Senders = 1 .. m /\ client \in Nat \ {0} /\ m <= client /\ client <= m + 1
  BY DEF SystemInv, ClientIsLast
<1>2. /\ from' \in Seq(Nat) /\ Len(from') = accepted + k
      /\ \A b \in Nat : b # Junk /\ b <= accepted => from'[b] = from[b]
      /\ \A i \in 1 .. k : from'[accepted + i] = client
      /\ client' = client /\ thread' = thread
  BY OwnersAfter
<1>3. accepted \in Nat /\ from \in Seq(Nat) /\ Len(from) = accepted
  BY DEF DeviceInv, SystemInv
<1>4. DOMAIN from' = 1 .. accepted + k /\ DOMAIN from = 1 .. accepted
  BY <1>2, <1>3
<1>5. Senders' = Senders \cup (IF k = 0 THEN {} ELSE {client})
  <2>1. ASSUME NEW b \in DOMAIN from PROVE b \in DOMAIN from' /\ from'[b] = from[b]
    BY <1>2, <1>3, <1>4 DEF Junk
  <2>2. ASSUME NEW b \in DOMAIN from'
        PROVE  (b \in DOMAIN from) \/ (k # 0 /\ from'[b] = client)
    <3>1. CASE b <= accepted
      BY <1>3, <1>4, <3>1
    <3>2. CASE ~(b <= accepted)
      <4>1. b - accepted \in 1 .. k /\ accepted + (b - accepted) = b
        BY <1>3, <1>4, <3>2
      <4>2. from'[accepted + (b - accepted)] = client
        BY <1>2, <4>1
      <4>q. QED BY <4>1, <4>2
    <3>q. QED BY <3>1, <3>2
  <2>3. k # 0 => accepted + 1 \in DOMAIN from' /\ from'[accepted + 1] = client
    BY <1>2, <1>3, <1>4
  <2>q. QED BY <2>1, <2>2, <2>3 DEF Senders, Range
<1>6. CASE k = 0 \/ client = m
  BY <1>1, <1>2, <1>5, <1>6 DEF ClientIsLast
<1>7. CASE k # 0 /\ client = m + 1
  <2>1. Senders' = 1 .. m + 1
    BY <1>1, <1>5, <1>7
  <2>2. m + 1 \in Nat /\ m + 1 <= client /\ client <= m + 2
    BY <1>1, <1>7
  <2>q. QED BY <1>1, <1>2, <2>1, <2>2 DEF ClientIsLast
<1>q. QED BY <1>1, <1>6, <1>7

\* A packet that is not written to keeps its owners in order when its last
\* client ends the line: only owners before the last one must be open.
LEMMA OldStaysInOrder ==
    ASSUME DeviceInv, SystemInv, NEW k \in Nat, thread # "none",
           accepted' = accepted + k, Attributed,
           NEW p \in Seq(Nat), WasGiven(p, accepted), InOrder(p, from, left)
    PROVE  WasGiven(p, accepted') /\ InOrder(p, from', left')
<1>1. accepted \in Nat
  BY DEF DeviceInv
<1>2. \A i \in DOMAIN p : p[i] \in Nat /\ p[i] <= accepted
  BY DEF WasGiven
<1>3. WasGiven(p, accepted')
  BY <1>1, <1>2 DEF WasGiven
<1>4. PICK m \in Nat : Senders = 1 .. m /\ client \in Nat /\ m <= client
  BY DEF SystemInv, ClientIsLast
<1>5. ASSUME NEW i \in DOMAIN p, NEW j \in DOMAIN p, i < j, p[i] # Junk, p[j] # Junk
      PROVE  /\ from'[p[i]] <= from'[p[j]]
             /\ from'[p[i]] # from'[p[j]] => from'[p[i]] \in left'
  <2>1. from'[p[i]] = from[p[i]] /\ from'[p[j]] = from[p[j]]
    BY <1>2, <1>5, OwnersAfter
  <2>2. /\ from[p[i]] <= from[p[j]]
        /\ from[p[i]] # from[p[j]] => from[p[i]] \in left
    BY <1>5 DEF InOrder
  <2>3. from[p[i]] \in 1 .. m /\ from[p[j]] \in 1 .. m
    BY <1>2, <1>4, <1>5, OwnerOf
  <2>4. from[p[i]] # from[p[j]] => from[p[i]] # client
    BY <1>4, <2>2, <2>3
  <2>q. QED BY <2>1, <2>2, <2>4, OwnersAfter
<1>6. InOrder(p, from', left')
  BY <1>5 DEF InOrder
<1>q. QED BY <1>3, <1>6

LEMMA WrittenElements ==
    ASSUME DeviceInv, loaded, NEW k \in Nat
    PROVE  /\ DOMAIN (Kept \o NewBytes(k)) = 1 .. working.size + k
           /\ DOMAIN Kept = 1 .. working.size /\ working.size \in Nat
           /\ \A i \in 1 .. working.size : (Kept \o NewBytes(k))[i] = Kept[i] /\ Kept[i] \in Nat
           /\ \A i \in working.size + 1 .. working.size + k :
                 /\ (Kept \o NewBytes(k))[i] = accepted + (i - working.size)
                 /\ i - working.size \in 1 .. k
<1> DEFINE old == Kept
           new == NewBytes(k)
           n == working.size
<1>1. old \in Seq(Nat) /\ Len(old) = n /\ n \in Nat
  BY HeapFacts
<1>2. new \in Seq(Nat) /\ Len(new) = k /\ \A i \in 1 .. k : new[i] = accepted + i
  <2>1. accepted \in Nat
    BY DEF DeviceInv
  <2>q. QED BY <2>1 DEF NewBytes
<1> HIDE DEF old, new, n
<1>3. /\ DOMAIN (old \o new) = 1 .. n + k
      /\ \A i \in 1 .. n + k : (old \o new)[i] = IF i <= n THEN old[i] ELSE new[i - n]
  BY <1>1, <1>2, ConcatElements
<1>4. ASSUME NEW i \in n + 1 .. n + k
      PROVE  (old \o new)[i] = accepted + (i - n) /\ i - n \in 1 .. k
  <2>1. i \in 1 .. n + k /\ ~(i <= n) /\ i - n \in 1 .. k
    BY <1>1
  <2>q. QED BY <1>2, <1>3, <2>1
<1>5. ASSUME NEW i \in 1 .. n
      PROVE  (old \o new)[i] = old[i] /\ old[i] \in Nat
  <2>1. i \in 1 .. n + k /\ i <= n
    BY <1>1
  <2>q. QED BY <1>1, <1>3, <2>1
<1>6. DOMAIN old = 1 .. n
  BY <1>1
<1>q. QED BY <1>1, <1>3, <1>4, <1>5, <1>6 DEF old, new, n

\* The packet that is written to.
LEMMA WrittenIsInOrder ==
    ASSUME DeviceInv, SystemInv, loaded, NEW k \in Nat, thread # "none",
           accepted' = accepted + k, Attributed
    PROVE  LET bytes == Kept \o NewBytes(k)
           IN  /\ WasGiven(bytes, accepted') /\ InOrder(bytes, from', left')
               /\ ~EndsLine(chunk) =>
                     \A i \in DOMAIN bytes : bytes[i] # Junk => from'[bytes[i]] \in left'
<1> DEFINE bytes == Kept \o NewBytes(k)
           n == working.size
<1>1. accepted \in Nat
  BY DEF DeviceInv
<1>2. PICK m \in Nat : Senders = 1 .. m /\ client \in Nat /\ m <= client
  BY DEF SystemInv, ClientIsLast
<1>3. /\ DOMAIN bytes = 1 .. n + k /\ DOMAIN Kept = 1 .. n /\ n \in Nat
      /\ \A i \in 1 .. n : bytes[i] = Kept[i] /\ Kept[i] \in Nat
      /\ \A i \in n + 1 .. n + k : bytes[i] = accepted + (i - n) /\ i - n \in 1 .. k
  BY WrittenElements
<1>4. /\ \A b \in Nat : b # Junk /\ b <= accepted => from'[b] = from[b]
      /\ \A i \in 1 .. k : from'[accepted + i] = client
      /\ left' = IF EndsLine(chunk) THEN left \ {client} ELSE left \cup {client}
  BY OwnersAfter
<1>5. WasGiven(Kept, accepted) /\ InOrder(Kept, from, left)
  BY KeptIsInOrder
<1> HIDE DEF bytes, n
<1>6. ASSUME NEW i \in 1 .. n, bytes[i] # Junk
      PROVE  /\ bytes[i] <= accepted
             /\ from'[bytes[i]] \in 1 .. m
             /\ from'[bytes[i]] = from[bytes[i]] /\ from[bytes[i]] \in left
  <2>1. bytes[i] = Kept[i] /\ bytes[i] \in Nat /\ bytes[i] <= accepted /\ i \in DOMAIN Kept
    BY <1>3, <1>5 DEF WasGiven
  <2>2. from'[bytes[i]] = from[bytes[i]] /\ from[bytes[i]] \in 1 .. m
    BY <1>2, <1>4, <1>6, <2>1, OwnerOf
  <2>3. from[bytes[i]] \in left
    BY <1>6, <2>1 DEF SystemInv, KeptIsOpen
  <2>q. QED BY <2>1, <2>2, <2>3
<1>7. ASSUME NEW i \in n + 1 .. n + k
      PROVE  bytes[i] <= accepted + k /\ from'[bytes[i]] = client
  <2>1. bytes[i] = accepted + (i - n) /\ i - n \in 1 .. k
    BY <1>3
  <2>q. QED BY <1>1, <1>4, <2>1
<1>8. \A i \in DOMAIN bytes : i \in 1 .. n \/ i \in n + 1 .. n + k
  BY <1>3
<1>9. WasGiven(bytes, accepted')
  <2> SUFFICES ASSUME NEW i \in DOMAIN bytes PROVE bytes[i] <= accepted + k
    BY DEF WasGiven
  <2>1. CASE bytes[i] = Junk
    BY <1>1, <2>1 DEF Junk
  <2>2. CASE bytes[i] # Junk /\ i \in 1 .. n
    BY <1>1, <1>3, <1>6, <2>2
  <2>3. CASE i \in n + 1 .. n + k
    BY <1>7, <2>3
  <2>q. QED BY <1>8, <2>1, <2>2, <2>3
<1>10. ASSUME NEW i \in DOMAIN bytes, NEW j \in DOMAIN bytes, i < j,
              bytes[i] # Junk, bytes[j] # Junk
       PROVE  /\ from'[bytes[i]] <= from'[bytes[j]]
              /\ from'[bytes[i]] # from'[bytes[j]] => from'[bytes[i]] \in left'
  <2>1. CASE i \in 1 .. n /\ j \in 1 .. n
    <3>1. /\ from[bytes[i]] <= from[bytes[j]]
          /\ from[bytes[i]] # from[bytes[j]] => from[bytes[i]] \in left
      BY <1>3, <1>5, <1>10, <2>1 DEF InOrder
    <3>2. /\ from'[bytes[i]] = from[bytes[i]] /\ from[bytes[i]] \in 1 .. m
          /\ from'[bytes[j]] = from[bytes[j]] /\ from[bytes[j]] \in 1 .. m
      BY <1>6, <1>10, <2>1
    <3>3. from[bytes[i]] # from[bytes[j]] => from[bytes[i]] # client
      BY <1>2, <3>1, <3>2
    <3>q. QED BY <1>4, <3>1, <3>2, <3>3
  <2>2. CASE i \in 1 .. n /\ j \in n + 1 .. n + k
    <3>1. from'[bytes[i]] \in 1 .. m /\ from'[bytes[i]] \in left
      BY <1>6, <1>10, <2>2
    <3>2. from'[bytes[j]] = client
      BY <1>7, <2>2
    <3>q. QED BY <1>2, <1>4, <3>1, <3>2
  <2>3. CASE i \in n + 1 .. n + k /\ j \in n + 1 .. n + k
    <3>1. from'[bytes[i]] = client /\ from'[bytes[j]] = client
      BY <1>7, <2>3
    <3>q. QED BY <1>2, <3>1
  <2>q. QED BY <1>3, <1>8, <1>10, <2>1, <2>2, <2>3
<1>11. InOrder(bytes, from', left')
  BY <1>10 DEF InOrder
<1>12. ASSUME ~EndsLine(chunk), NEW i \in DOMAIN bytes, bytes[i] # Junk
       PROVE  from'[bytes[i]] \in left'
  BY <1>4, <1>6, <1>7, <1>8, <1>12
<1>q. QED BY <1>9, <1>11, <1>12 DEF bytes

LEMMA WriteBodyKeepsSystemInv ==
    ASSUME DeviceInv, UserInv, SystemInv, WriteBody
    PROVE  SystemInv'
<1>1. pc[Server] = "w_body" /\ loaded /\ thread # "none" /\ loaded' = loaded
  <2>1. pc[Server] = "w_body" /\ loaded' = loaded
    BY DEF WriteBody, WriteSome, Goto
  <2>q. QED BY <2>1, InCallIsLoaded, SystemAssumption DEF SystemInv
<1>2. Attributed /\ (buffer' # buffer <=> EndsLine(chunk)) /\ WriteSome(Server)
  BY DEF WriteBody
<1>3. PICK p \in Reallocated, k \in Nat :
         /\ \/ Commit(p, working.size + k, Kept \o NewBytes(k))
            \/ Collect(p, working.size + k, Kept \o NewBytes(k))
         /\ accepted' = accepted + k
  BY <1>1, <1>2, WriteCases, SystemAssumption
<1> DEFINE bytes == Kept \o NewBytes(k)
<1>4. /\ bytes \in Seq(Nat)
      /\ WasGiven(bytes, accepted') /\ InOrder(bytes, from', left')
      /\ ~EndsLine(chunk) => \A i \in DOMAIN bytes : bytes[i] # Junk => from'[bytes[i]] \in left'
  BY <1>1, <1>2, <1>3, WrittenIsInOrder, WrittenBytes
<1>5. p \in Ptrs /\ p # NULL
  BY <1>1, ReallocatedIsFresh
<1>6. from' \in Seq(Nat) /\ Len(from') = accepted' /\ thread' = thread /\ ClientIsLast'
  BY <1>1, <1>2, <1>3, OwnersAfter, ClientStaysLast
<1>7. /\ \E gone : Heap(p, bytes, gone)
      /\ \/ working' = NullEntry
         \/ working'.buffptr = p /\ ~EndsLine(chunk)
  BY <1>2, <1>3 DEF Commit, Collect
<1> HIDE DEF bytes
<1>8. ASSUME NEW q \in live'
      PROVE  WasGiven(data'[q], accepted') /\ InOrder(data'[q], from', left')
  <2>1. (q = p /\ data'[q] = bytes) \/ (q \in live /\ data'[q] = data[q])
    <3>1. PICK gone : Heap(p, bytes, gone)
      BY <1>7
    <3>2. live \subseteq Ptrs
      BY DEF DeviceInv
    <3>q. QED BY <1>5, <3>1, <3>2 DEF Heap
  <2>2. CASE q = p /\ data'[q] = bytes
    BY <1>4, <2>2
  <2>3. CASE q \in live /\ data'[q] = data[q]
    <3>1. data[q] \in Seq(Nat) /\ WasGiven(data[q], accepted) /\ InOrder(data[q], from, left)
      BY <2>3 DEF DeviceInv, SystemInv
    <3>q. QED BY <1>1, <1>2, <1>3, <2>3, <3>1, OldStaysInOrder
  <2>q. QED BY <2>1, <2>2, <2>3
<1>9. KeptIsOpen'
  <2>1. CASE working' = NullEntry
    <3>1. DOMAIN Kept' = {}
      BY <2>1 DEF Kept, NullEntry
    <3>q. QED BY <3>1 DEF KeptIsOpen
  <2>2. CASE working'.buffptr = p /\ ~EndsLine(chunk)
    <3>1. Kept' = bytes
      <4>1. PICK gone : Heap(p, bytes, gone)
        BY <1>7
      <4>q. QED BY <1>5, <2>2, <4>1 DEF Heap, Kept
    <3>q. QED BY <1>4, <2>2, <3>1 DEF KeptIsOpen, Junk
  <2>q. QED BY <1>7, <2>1, <2>2
<1>q. QED BY <1>1, <1>6, <1>8, <1>9 DEF SystemInv

\* Steps that neither write nor change what the device keeps.
LEMMA QuietKeepsSystemInv ==
    ASSUME SystemInv, UNCHANGED <<loaded, working, live, data, accepted, from, left>>,
           ClientIsLast', thread' = "none" => pc'[Server] = "closed"
    PROVE  SystemInv'
<1>1. Kept' = Kept
  BY DEF Kept
<1>2. loaded' => KeptIsOpen'
  BY <1>1 DEF SystemInv, KeptIsOpen
<1>q. QED BY <1>2 DEF SystemInv

LEMMA AcceptKeepsClientIsLast ==
    ASSUME SystemInv, Accept
    PROVE  ClientIsLast'
<1>1. PICK m \in Nat : Senders = 1 .. m
  BY DEF SystemInv, ClientIsLast
<1>2. Cardinality(Senders) = m
  BY <1>1, FS_Interval
<1>3. client' = m + 1 /\ Senders' = Senders
  BY <1>2 DEF Accept, Senders
<1>q. QED BY <1>1, <1>3 DEF ClientIsLast

\* The connection goes on or has ended.
LEMMA SameClientIsLast ==
    ASSUME SystemInv, from' = from,
           thread' = "none" \/ (thread # "none" /\ client' = client)
    PROVE  ClientIsLast'
<1>1. Senders' = Senders
  BY DEF Senders
<1>q. QED BY <1>1 DEF SystemInv, ClientIsLast

LEMMA CallsKeepSystemInv ==
    ASSUME UserInv, SystemInv,
           \/ OpenDevice \/ OpenFails \/ Receive \/ EndOfStream \/ CloseDevice
           \/ BeginCall \/ SeekBody \/ Exits \/ Killed
           \/ WriteReturns \/ SeekReturns \/ SeekFails \/ RewindReturns \/ ReadReturns
    PROVE  SystemInv'
<1>1. UNCHANGED <<loaded, working, live, data, accepted, from, left>>
  BY DEF OpenDevice, OpenFails, Receive, EndOfStream, CloseDevice, BeginCall, SeekBody,
         Exits, Killed, Ends, WriteReturns, SeekReturns, SeekFails, RewindReturns, ReadReturns,
         Open, Release, WriteCall, SeekCall, LseekCall, ReadCall, Seek, Unlock,
         SeekUnlocks, UnlocksAnything, SeekOops, vars, device, server
<1>2. thread' = "none" => pc'[Server] = "closed"
  <2>1. CASE CloseDevice
    BY <2>1, SystemAssumption DEF CloseDevice, Release, Goto, UserInv
  <2>2. CASE Exits \/ Killed
    BY <2>2, SystemAssumption DEF Exits, Killed, Ends, Release, Goto, UserInv, vars
  <2>3. CASE BeginCall \/ SeekBody
    <3>1. thread' = thread /\ pc[Server] # "closed"
      BY <2>3 DEF BeginCall, SeekBody, WriteCall, SeekCall, LseekCall, ReadCall, Seek, Goto,
                  server, connection
    <3>q. QED BY <3>1 DEF SystemInv
  <2>4. CASE \/ OpenDevice \/ OpenFails \/ Receive \/ EndOfStream
             \/ WriteReturns \/ SeekReturns \/ SeekFails \/ RewindReturns \/ ReadReturns
    <3>1. thread' # "none"
      BY <2>4 DEF OpenDevice, OpenFails, Receive, EndOfStream, WriteReturns, SeekReturns,
                  SeekFails, RewindReturns, ReadReturns, ThreadAt, Answer
    <3>q. QED BY <3>1
  <2>q. QED BY <2>1, <2>2, <2>3, <2>4
<1>3. thread' = "none" \/ (thread # "none" /\ client' = client)
  <2>1. CASE CloseDevice \/ Exits \/ Killed
    BY <2>1 DEF CloseDevice, Exits, Killed, Ends, ThreadAt
  <2>2. CASE BeginCall \/ SeekBody
    <3>1. pc[Server] # "closed" /\ client' = client
      BY <2>2 DEF BeginCall, SeekBody, WriteCall, SeekCall, LseekCall, ReadCall, Seek, Goto,
                  server, connection
    <3>q. QED BY <3>1 DEF SystemInv
  <2>3. CASE \/ OpenDevice \/ OpenFails \/ Receive \/ EndOfStream
             \/ WriteReturns \/ SeekReturns \/ SeekFails \/ RewindReturns \/ ReadReturns
    BY <2>3 DEF OpenDevice, OpenFails, Receive, EndOfStream, WriteReturns, SeekReturns,
                SeekFails, RewindReturns, ReadReturns, ThreadAt
  <2>q. QED BY <2>1, <2>2, <2>3
<1>4. ClientIsLast'
  BY <1>1, <1>3, SameClientIsLast
<1>q. QED BY <1>1, <1>2, <1>4, QuietKeepsSystemInv

LEMMA BodiesKeepSystemInv ==
    ASSUME DeviceInv, UserInv, SystemInv, OtherBody
    PROVE  SystemInv'
<1>1. /\ UNCHANGED <<loaded, live, data, accepted, from, left, thread, client>>
      /\ pc[Server] # "closed"
  BY DEF OtherBody, Lock, ReadNothing, ReadSome, ReadLoad, ReadStore, WriteNoMemory,
         SeekRefused, Lseek, Goto, device, server, connection, Waiting
<1>2. thread # "none" /\ ClientIsLast'
  BY <1>1, SameClientIsLast DEF SystemInv
<1>3. CASE WriteNoMemory(Server)
  <2>1. working'.buffptr = NULL
    BY <1>3 DEF WriteNoMemory, DeviceInv, AnyEntry
  <2>2. \A i \in DOMAIN Kept' : Kept'[i] = Junk
    BY <2>1 DEF Kept, Junk
  <2>3. KeptIsOpen'
    BY <2>2 DEF KeptIsOpen, Junk
  <2>q. QED BY <1>1, <1>2, <2>3 DEF SystemInv
<1>4. CASE ~WriteNoMemory(Server)
  <2>1. working' = working
    BY <1>4 DEF OtherBody, Lock, ReadNothing, ReadSome, ReadLoad, ReadStore, SeekRefused,
                Lseek, device
  <2>q. QED BY <1>1, <1>2, <2>1, QuietKeepsSystemInv
<1>q. QED BY <1>3, <1>4

LEMMA ProcessKeepsSystemInv ==
    ASSUME DeviceInv, UserInv, SystemInv, Accept \/ Restart \/ LoadModule \/ UnloadModule
    PROVE  SystemInv'
<1>1. CASE Accept
  <2>1. UNCHANGED <<loaded, working, live, data, accepted, from, left>> /\ thread' # "none"
    BY <1>1 DEF Accept, ThreadAt, vars, device
  <2>q. QED BY <1>1, <2>1, AcceptKeepsClientIsLast, QuietKeepsSystemInv
<1>2. CASE Restart
  <2>1. UNCHANGED <<loaded, working, live, data, accepted, from, left, thread, client, pc>>
    BY <1>2 DEF Restart, vars, device, connection
  <2>2. thread' = "none" \/ (thread # "none" /\ client' = client)
    BY <2>1
  <2>q. QED BY <2>1, <2>2, SameClientIsLast, QuietKeepsSystemInv DEF SystemInv
<1>3. CASE LoadModule \/ UnloadModule
  <2>1. UNCHANGED <<accepted, from, left, thread, client, pc>>
    BY <1>3 DEF LoadModule, UnloadModule, Load, Unload, server, connection
  <2>2. ClientIsLast'
    BY <2>1, SameClientIsLast DEF SystemInv
  <2>3. \A q \in live' : q \in live /\ data'[q] = data[q]
    <3>1. CASE Load
      BY <3>1 DEF Load
    <3>2. CASE Unload
      <4>1. \E ptrs : Freed(ptrs)
        BY <3>2 DEF Unload
      <4>q. QED BY <4>1, FreedEffect
    <3>q. QED BY <1>3, <3>1, <3>2 DEF LoadModule, UnloadModule
  <2>4. loaded' => KeptIsOpen'
    <3>1. CASE Load
      <4>1. working' = NullEntry
        BY <3>1 DEF Load
      <4>2. DOMAIN Kept' = {}
        BY <4>1 DEF Kept, NullEntry
      <4>q. QED BY <4>2 DEF KeptIsOpen
    <3>2. CASE Unload
      BY <3>2 DEF Unload
    <3>q. QED BY <1>3, <3>1, <3>2 DEF LoadModule, UnloadModule
  <2>q. QED BY <2>1, <2>2, <2>3, <2>4 DEF SystemInv
<1>q. QED BY <1>1, <1>2, <1>3

LEMMA NextSystemInv == IInv /\ SystemInv /\ [SystemNext]_allVars => SystemInv'
<1> SUFFICES ASSUME DeviceInv, UserInv, SystemInv, [SystemNext]_allVars PROVE SystemInv'
  BY DEF IInv
<1>1. CASE UNCHANGED allVars
  <2>1. UNCHANGED <<loaded, working, live, data, accepted, from, left, thread, client, pc>>
    BY <1>1 DEF allVars, vars, device, server, connection
  <2>2. thread' = "none" \/ (thread # "none" /\ client' = client)
    BY <2>1
  <2>q. QED BY <2>1, <2>2, SameClientIsLast, QuietKeepsSystemInv DEF SystemInv
<1>2. CASE WriteBody
  BY <1>2, WriteBodyKeepsSystemInv
<1>3. CASE OtherBody
  BY <1>3, BodiesKeepSystemInv
<1>4. CASE Accept \/ Restart \/ LoadModule \/ UnloadModule
  BY <1>4, ProcessKeepsSystemInv
<1>5. CASE \/ OpenDevice \/ OpenFails \/ Receive \/ EndOfStream \/ CloseDevice
           \/ BeginCall \/ SeekBody \/ Exits \/ Killed
           \/ WriteReturns \/ SeekReturns \/ SeekFails \/ RewindReturns \/ ReadReturns
  BY <1>5, CallsKeepSystemInv
<1>q. QED
  BY <1>1, <1>2, <1>3, <1>4, <1>5 DEF SystemNext, ThreadStep

LEMMA SystemInvariant == SystemSpec => []SystemInv
<1>1. SystemInit => SystemInv
  <2> SUFFICES ASSUME SystemInit PROVE SystemInv
    OBVIOUS
  <2>1. from = << >> /\ accepted = 0 /\ live = {} /\ loaded = FALSE /\ thread = "none"
        /\ pc = [f \in Files |-> "closed"]
    BY DEF SystemInit, Init
  <2>2. Senders = 1 .. 0
    BY <2>1 DEF Senders, Range
  <2>q. QED BY <2>1, <2>2, SystemAssumption DEF SystemInv, ClientIsLast
<1>q. QED BY <1>1, NextSystemInv, SystemUsesDriver, Invariant, PTL DEF SystemSpec

(***************************************************************************)
(* Whatever clients send, in however many chunks, and whenever the server  *)
(* dies or the module is reloaded: bytes of two clients share a packet     *)
(* only behind those of one that has not ended its line.                   *)
(***************************************************************************)
THEOREM PacketsAreOfOneClient == SystemSpec => []PacketOfOneClient
<1>1. IInv /\ SystemInv => PacketOfOneClient
  <2> SUFFICES ASSUME DeviceInv, SystemInv, loaded,
                      NEW p \in Range(Packets) \cup {Kept},
                      NEW i \in DOMAIN p, NEW j \in DOMAIN p,
                      i < j, Junk \notin {p[i], p[j]}, from[p[i]] # from[p[j]]
               PROVE  from[p[i]] \in left
    BY DEF IInv, PacketOfOneClient
  <2>1. InOrder(p, from, left)
    <3>1. CASE p = Kept
      BY <3>1, KeptIsInOrder
    <3>2. ASSUME NEW x \in DOMAIN Packets, p = Packets[x] PROVE InOrder(p, from, left)
      <4>1. /\ x \in 1 .. Count(buffer) /\ Count(buffer) \in Nat
            /\ Packets[x] = data[Nth(buffer, x - 1).buffptr]
        BY <3>2, PacketsType
      <4>2. x - 1 \in 0 .. Count(buffer) - 1
        BY <4>1
      <4>3. Nth(buffer, x - 1).buffptr \in live
        BY <4>2, WalkIsInMemory
      <4>q. QED BY <3>2, <4>1, <4>3 DEF SystemInv
    <3>q. QED BY <3>1, <3>2 DEF Range
  <2>q. QED BY <2>1 DEF InOrder
<1>q. QED
  BY <1>1, SystemInvariant, SystemUsesDriver, Invariant, PTL

-----------------------------------------------------------------------------
(***************************************************************************)
(* The dialogue: where the thread and its system call are, what a call is  *)
(* about to return, where the thread's command has led it, and what it has *)
(* sent.                                                                   *)
(***************************************************************************)
DialoguePlaces ==
    /\ thread \in {"none", "open", "recv", "write", "seek", "rewind", "read", "close",
                   "exit", "dead"}
    /\ thread \in {"none", "open", "dead"} => pc[Server] = "closed"
    /\ thread \in {"recv", "close"} => pc[Server] = "idle"
    /\ thread = "exit" => pc[Server] \in {"closed", "idle"}
    /\ thread = "write" => pc[Server] \in {"idle", "w_lock", "w_body", "unlock"}
    /\ thread = "seek" => pc[Server] \in {"idle", "i_lock", "i_body", "unlock"}
    /\ thread = "rewind" => pc[Server] \in {"idle", "l_lock", "l_body", "unlock"}
    /\ thread = "read" =>
         pc[Server] \in {"idle", "r_lock", "r_body", "r_load", "r_store", "unlock"}

CallInv ==
    /\ pc[Server] \notin {"r_load", "r_store", "unlock"} => reply[Server] = << >>
    /\ pc[Server] = "r_load" => reply[Server] # << >>
    /\ pc[Server] \in {"r_lock", "r_body"} => nextReadPosition = f_pos[Server]

CommandInv ==
    /\ thread = "recv" /\ isIoctl => chunk = "head"
    /\ thread = "write" /\ isIoctl => chunk = "tail"
    /\ thread = "seek" => chunk \in {"command", "head"}
    /\ thread \in {"open", "rewind"} => ~isIoctl

SoughtAt == \/ thread = "seek" /\ pc[Server] = "unlock" /\ retval[Server] = "ok"
            \/ thread = "recv" /\ isIoctl

StartInv ==
    /\ ~isIoctl /\ ~(thread = "seek" /\ pc[Server] = "unlock") => start = 0
    /\ SoughtAt => f_pos[Server] = start /\ start <= Len(Contents)
    /\ thread = "rewind" /\ pc[Server] = "unlock" => f_pos[Server] = 0

SentSoFar ==
    /\ start <= f_pos[Server] /\ f_pos[Server] <= Len(Contents)
    /\ answer \o reply[Server] = SubSeq(Contents, start + 1, f_pos[Server])

Lost == isIoctl /\ chunk = "tail"

AnswerInv ==
    /\ thread \in {"open", "recv", "write", "seek", "rewind"} => answer = << >>
    /\ thread = "read" /\ ~Lost =>
         /\ SentSoFar
         /\ pc[Server] \in {"r_store", "unlock"} /\ reply[Server] = << >>
              => f_pos[Server] = Len(Contents)

DialogueInv ==
    /\ answer \in Seq(Nat) /\ start \in Nat
    /\ DialoguePlaces /\ CallInv /\ CommandInv /\ StartInv /\ AnswerInv

\* What the types of AesdChar say of the server's own file.
LEMMA ServerFile ==
    ASSUME UserInv
    PROVE  /\ Server \in Files
           /\ pc \in [Files -> Places] /\ f_pos \in [Files -> Nat]
           /\ retval \in [Files -> Outcomes] /\ reply \in [Files -> Seq(Nat)]
           /\ reply[Server] \in Seq(Nat) /\ f_pos[Server] \in Nat
  BY SystemAssumption DEF UserInv

LEMMA SentStays ==
    ASSUME UNCHANGED <<start, answer, Contents>>,
           f_pos'[Server] = f_pos[Server], reply'[Server] = reply[Server], SentSoFar
    PROVE  SentSoFar'
  BY DEF SentSoFar

\* Nothing is sent yet, and the position is where the answer begins.
LEMMA NothingSent ==
    ASSUME Contents' \in Seq(Nat), start' \in Nat, start' <= Len(Contents'),
           f_pos'[Server] = start', answer' = << >>, reply'[Server] = << >>
    PROVE  SentSoFar'
<1> DEFINE c == Contents'
           s == start'
<1>1. c \in Seq(Nat) /\ s \in Nat /\ s <= Len(c)
  OBVIOUS
<1> HIDE DEF c, s
<1>2. SubSeq(c, s + 1, s) = << >>
  BY <1>1, EmptySlice
<1>3. << >> \o << >> = << >>
  OBVIOUS
<1>q. QED BY <1>1, <1>2, <1>3 DEF SentSoFar, c, s

\* Accepting, receiving and closing.
LEMMA ConnectionKeepsDialogue ==
    ASSUME DeviceInv, UserInv, DialogueInv,
           Accept \/ OpenDevice \/ OpenFails \/ Receive \/ EndOfStream \/ CloseDevice
    PROVE  DialogueInv'
<1>0. UNCHANGED device /\ Contents' = Contents
  <2>1. UNCHANGED device
    BY QuietSteps, SystemAssumption
       DEF Accept, OpenDevice, OpenFails, Receive, EndOfStream, CloseDevice, vars
  <2>q. QED BY <2>1, SameContents DEF device
<1>1. CASE Accept
  <2>1. /\ thread = "none" /\ thread' = "open" /\ UNCHANGED vars
        /\ isIoctl' = FALSE /\ answer' = << >> /\ start' = 0
    BY <1>1 DEF Accept, ThreadAt
  <2>2. UNCHANGED <<pc, f_pos, retval, reply, nextReadPosition>>
    BY <2>1 DEF vars, user
  <2>3. answer' \in Seq(Nat) /\ start' \in Nat
    BY <2>1
  <2>q. QED BY <2>1, <2>2, <2>3
     DEF DialogueInv, DialoguePlaces, CallInv, CommandInv, StartInv, SoughtAt, AnswerInv
<1>2. CASE OpenDevice
  <2>1. /\ thread = "open" /\ thread' = "recv"
        /\ UNCHANGED <<isIoctl, answer, start, chunk, reply, retval, nextReadPosition>>
        /\ pc[Server] = "closed" /\ pc'[Server] = "idle"
    BY <1>2, ServerFile DEF OpenDevice, ThreadAt, Open, Goto
  <2>q. QED BY <2>1
     DEF DialogueInv, DialoguePlaces, CallInv, CommandInv, StartInv, SoughtAt, AnswerInv
<1>3. CASE OpenFails
  <2>1. /\ thread = "open" /\ thread' = "exit" /\ UNCHANGED <<vars, isIoctl, answer, start, chunk>>
    BY <1>3 DEF OpenFails, ThreadAt
  <2>2. UNCHANGED <<pc, f_pos, retval, reply, nextReadPosition>>
    BY <2>1 DEF vars, user
  <2>q. QED BY <2>1, <2>2
     DEF DialogueInv, DialoguePlaces, CallInv, CommandInv, StartInv, SoughtAt, AnswerInv
<1>4. CASE Receive
  <2>1. PICK c \in Chunks, call \in {"seek", "write"} :
          /\ call \in CallsFor(c) /\ (c = "tail" <=> chunk = "head")
          /\ thread = "recv" /\ thread' = call /\ chunk' = c
          /\ UNCHANGED <<vars, isIoctl, answer, start>>
    BY <1>4 DEF Receive, ThreadAt
  <2>2. UNCHANGED <<pc, f_pos, retval, reply, nextReadPosition>>
    BY <2>1 DEF vars, user
  <2>3. call = "seek" => c \in {"command", "head"}
    BY <2>1 DEF CallsFor
  <2>q. QED BY <2>1, <2>2, <2>3
     DEF DialogueInv, DialoguePlaces, CallInv, CommandInv, StartInv, SoughtAt, AnswerInv
<1>5. CASE EndOfStream
  <2>1. /\ thread = "recv" /\ thread' = Answer
        /\ UNCHANGED <<vars, isIoctl, answer, start, chunk>>
    BY <1>5 DEF EndOfStream, ThreadAt
  <2>2. UNCHANGED <<pc, f_pos, retval, reply, nextReadPosition>>
    BY <2>1 DEF vars, user
  <2>3. pc[Server] = "idle" /\ reply[Server] = << >> /\ answer = << >>
    BY <2>1 DEF DialogueInv, DialoguePlaces, CallInv, AnswerInv
  <2>4. CASE isIoctl
    <3>1. f_pos[Server] = start /\ start <= Len(Contents)
      BY <2>1, <2>4 DEF DialogueInv, StartInv, SoughtAt
    <3>2. Contents \in Seq(Nat)
      BY <2>3, ServerFile, InCallIsLoaded, ContentsLength
    <3>3. SentSoFar'
      <4>1. Contents' \in Seq(Nat) /\ start' \in Nat /\ start' <= Len(Contents')
        BY <1>0, <2>1, <3>1, <3>2 DEF DialogueInv
      <4>q. QED BY <2>1, <2>2, <2>3, <3>1, <4>1, NothingSent
    <3>q. QED BY <2>1, <2>2, <2>3, <2>4, <3>3
       DEF DialogueInv, DialoguePlaces, CallInv, CommandInv, StartInv, SoughtAt, AnswerInv, Answer
  <2>5. CASE ~isIoctl
    BY <2>1, <2>2, <2>3, <2>5
       DEF DialogueInv, DialoguePlaces, CallInv, CommandInv, StartInv, SoughtAt, AnswerInv, Answer
  <2>q. QED BY <2>4, <2>5
<1>6. CASE CloseDevice
  <2>1. /\ thread = "close" /\ thread' = "none"
        /\ UNCHANGED <<isIoctl, answer, start, chunk, reply, retval, nextReadPosition>>
        /\ pc[Server] = "idle" /\ pc'[Server] = "closed"
    BY <1>6, ServerFile DEF CloseDevice, ThreadAt, Release, Goto
  <2>q. QED BY <2>1
     DEF DialogueInv, DialoguePlaces, CallInv, CommandInv, StartInv, SoughtAt, AnswerInv
<1>q. QED BY <1>1, <1>2, <1>3, <1>4, <1>5, <1>6

\* The server rewinds to the start: lseek(fd, 0, SEEK_SET) (line 252).
RewindsToStart == LseekTargets = {0}

LEMMA BeginKeepsDialogue ==
    ASSUME UserInv, DialogueInv, BeginCall
    PROVE  DialogueInv'
<1>1. /\ UNCHANGED <<thread, chunk, isIoctl, answer, start>>
      /\ UNCHANGED <<device, f_pos, retval, reply>>
      /\ pc[Server] = "idle"
      /\ \/ thread = "write" /\ pc'[Server] = "w_lock"
         \/ thread = "seek" /\ pc'[Server] = "i_lock"
         \/ thread = "rewind" /\ pc'[Server] = "l_lock"
         \/ thread = "read" /\ pc'[Server] = "r_lock" /\ nextReadPosition' = f_pos[Server]
  BY ServerFile DEF BeginCall, WriteCall, SeekCall, LseekCall, ReadCall, Goto, server, connection, user
<1>2. Contents' = Contents
  BY <1>1, SameContents DEF device
<1>3. SentSoFar => SentSoFar'
  BY <1>1, <1>2, SentStays
<1>q. QED BY <1>1, <1>2, <1>3
   DEF DialogueInv, DialoguePlaces, CallInv, CommandInv, StartInv, SoughtAt, AnswerInv, Lost

\* A write moves the contents, but nothing has been sent then.
LEMMA WriteKeepsDialogue ==
    ASSUME UserInv, DialogueInv, WriteBody
    PROVE  DialogueInv'
<1>1. /\ UNCHANGED <<thread, chunk, isIoctl, answer, start, reply>>
      /\ pc[Server] = "w_body" /\ pc'[Server] = "unlock"
  BY ServerFile DEF WriteBody, WriteSome, Attributed, Goto, connection
<1>2. thread = "write"
  BY <1>1 DEF DialogueInv, DialoguePlaces
<1>q. QED BY <1>1, <1>2
   DEF DialogueInv, DialoguePlaces, CallInv, CommandInv, StartInv, SoughtAt, AnswerInv

LEMMA SeekKeepsDialogue ==
    ASSUME DeviceInv, UserInv, DialogueInv, SeekBody
    PROVE  DialogueInv'
<1>1. /\ UNCHANGED <<thread, chunk, isIoctl, answer, reply, device>>
      /\ pc[Server] = "i_body" /\ pc'[Server] = "unlock" /\ Seek(Server)
      /\ start' = f_pos'[Server]
  BY ServerFile DEF SeekBody, Seek, Goto
<1>2. thread = "seek"
  BY <1>1 DEF DialogueInv, DialoguePlaces
<1>3. Contents' = Contents
  BY <1>1, SameContents DEF device
<1>4. start' \in Nat /\ start' <= Len(Contents)
  <2>1. loaded
    BY <1>1, ServerFile, InCallIsLoaded
  <2>2. Len(Contents) = buffer.buf_len
    BY <2>1, ContentsLength
  <2>q. QED BY <1>1, <2>2, ServerFile, SeekLandsInside
<1>q. QED BY <1>1, <1>2, <1>3, <1>4
   DEF DialogueInv, DialoguePlaces, CallInv, CommandInv, StartInv, SoughtAt, AnswerInv

\* What a read has copied is the next piece of the answer.
LEMMA CopyKeepsDialogue ==
    ASSUME DeviceInv, UserInv, DialogueInv, ReadSome(Server), UNCHANGED server
    PROVE  DialogueInv'
<1>1. /\ UNCHANGED <<thread, chunk, isIoctl, answer, start, device>>
      /\ pc[Server] = "r_body" /\ pc'[Server] = "r_load"
  BY ServerFile DEF ReadSome, Goto, server, connection
<1>2. thread = "read" /\ reply[Server] = << >> /\ nextReadPosition = f_pos[Server]
  BY <1>1 DEF DialogueInv, DialoguePlaces, CallInv
<1>3. Contents' = Contents
  BY <1>1, SameContents DEF device
<1> DEFINE c == Contents
           pos == f_pos[Server]
<1>4. PICK n \in Nat \ {0} :
         /\ f_pos'[Server] = pos + n /\ pos + n <= Len(c)
         /\ reply'[Server] = SubSeq(c, pos + 1, pos + n)
  BY <1>2, ServerFile, ReadCopies
<1>5. c \in Seq(Nat) /\ Len(c) \in Nat /\ pos \in Nat /\ start \in Nat /\ answer \in Seq(Nat)
  <2>1. loaded
    BY <1>1, ServerFile, InCallIsLoaded
  <2>q. QED BY <2>1, ContentsLength, ServerFile DEF DialogueInv
<1>6. reply'[Server] # << >>
  <2> DEFINE r == SubSeq(c, pos + 1, pos + n)
  <2>1. Len(r) = n
    <3> HIDE DEF c, pos
    <3>q. QED BY <1>4, <1>5, SliceIs
  <2> HIDE DEF r
  <2>2. r # << >>
    BY <2>1
  <2>q. QED BY <1>4, <2>2 DEF r
<1>7. ~Lost => SentSoFar'
  <2> SUFFICES ASSUME ~Lost PROVE SentSoFar'
    OBVIOUS
  <2>1. start <= pos /\ answer \o << >> = SubSeq(c, start + 1, pos)
    BY <1>2 DEF DialogueInv, AnswerInv, SentSoFar
  <2>2. answer \o << >> = answer
    BY <1>5, ConcatEmptySeq
  <2> DEFINE k == pos - start
  <2>3. k \in Nat /\ start + k = pos /\ start + k + n = pos + n /\ start + (k + n) = pos + n
    BY <1>5, <2>1
  <2>4. SubSeq(c, start + 1, start + k) \o SubSeq(c, start + k + 1, start + k + n)
          = SubSeq(c, start + 1, start + (k + n))
    <3>1. start + k + n <= Len(c)
      BY <1>4, <2>3
    <3> HIDE DEF c, k, pos
    <3>q. QED BY <1>5, <2>3, <3>1, SlicesJoin
  <2>5. SubSeq(c, start + 1, pos) \o SubSeq(c, pos + 1, pos + n) = SubSeq(c, start + 1, pos + n)
    BY <2>3, <2>4
  <2>6. answer \o reply'[Server] = SubSeq(c, start + 1, pos + n)
    BY <1>4, <2>1, <2>2, <2>5
  <2>7. start <= pos + n
    BY <1>5, <2>1
  <2>q. QED BY <1>1, <1>3, <1>4, <2>6, <2>7 DEF SentSoFar
<1>q. QED BY <1>1, <1>2, <1>6, <1>7
   DEF DialogueInv, DialoguePlaces, CallInv, CommandInv, StartInv, SoughtAt, AnswerInv, Lost

LEMMA OtherKeepsDialogue ==
    ASSUME RewindsToStart, DeviceInv, UserInv, DialogueInv, OtherBody
    PROVE  DialogueInv'
<1>0. UNCHANGED <<thread, chunk, isIoctl, answer, start>>
  BY DEF OtherBody, server, connection
<1>1. CASE ReadSome(Server)
  BY <1>1, CopyKeepsDialogue DEF OtherBody
<1>2. ASSUME ~ReadSome(Server) PROVE Contents' = Contents
  <2>1. buffer' = buffer /\ data' = data
    BY <1>2 DEF OtherBody, Lock, ReadNothing, ReadLoad, ReadStore, WriteNoMemory, SeekRefused,
                Lseek, device
  <2>q. QED BY <2>1, SameContents
<1>3. CASE Lock(Server)
  <2>1. /\ pc[Server] \in Waiting /\ pc'[Server] = AfterLock[pc[Server]]
        /\ UNCHANGED <<f_pos, reply, retval, nextReadPosition>>
    BY <1>3, ServerFile DEF Lock, user
  <2>2. ~ReadSome(Server)
    BY <2>1 DEF ReadSome, Goto, Waiting
  <2>3. SentSoFar => SentSoFar'
    BY <1>0, <1>2, <2>1, <2>2, SentStays
  <2>4. \/ pc[Server] = "r_lock" /\ pc'[Server] = "r_body"
        \/ pc[Server] = "w_lock" /\ pc'[Server] = "w_body"
        \/ pc[Server] = "i_lock" /\ pc'[Server] = "i_body"
        \/ pc[Server] = "l_lock" /\ pc'[Server] = "l_body"
    BY <2>1 DEF Waiting, AfterLock
  <2>q. QED BY <1>0, <1>2, <2>1, <2>2, <2>3, <2>4
     DEF DialogueInv, DialoguePlaces, CallInv, CommandInv, StartInv, SoughtAt, AnswerInv, Lost
<1>4. CASE ReadNothing(Server)
  <2>1. /\ pc[Server] = "r_body" /\ pc'[Server] = "r_store"
        /\ UNCHANGED <<f_pos, reply, nextReadPosition>>
    BY <1>4, ServerFile DEF ReadNothing, Goto
  <2>2. ~ReadSome(Server) /\ Len(Contents) <= nextReadPosition
    BY <1>4, ServerFile, NothingIsTheEnd DEF ReadNothing, ReadSome
  <2>3. SentSoFar => SentSoFar'
    BY <1>0, <1>2, <2>1, <2>2, SentStays
  <2>4. thread = "read" /\ nextReadPosition = f_pos[Server]
    BY <2>1 DEF DialogueInv, DialoguePlaces, CallInv
  <2>5. SentSoFar => f_pos[Server] = Len(Contents)
    <3>1. loaded
      BY <2>1, ServerFile, InCallIsLoaded
    <3>2. Len(Contents) \in Nat /\ f_pos[Server] \in Nat
      BY <3>1, ContentsLength, ServerFile
    <3>q. QED BY <2>2, <2>4, <3>2 DEF SentSoFar
  <2>q. QED BY <1>0, <1>2, <2>1, <2>2, <2>3, <2>4, <2>5
     DEF DialogueInv, DialoguePlaces, CallInv, CommandInv, StartInv, SoughtAt, AnswerInv, Lost
<1>5. CASE ReadLoad(Server) \/ ReadStore(Server)
  <2>1. /\ \/ pc[Server] = "r_load" /\ pc'[Server] = "r_store"
           \/ pc[Server] = "r_store" /\ pc'[Server] = "unlock"
        /\ UNCHANGED <<f_pos, reply>>
    BY <1>5, ServerFile DEF ReadLoad, ReadStore, Goto
  <2>2. ~ReadSome(Server) /\ thread = "read"
    BY <2>1 DEF ReadSome, Goto, DialogueInv, DialoguePlaces
  <2>3. SentSoFar => SentSoFar'
    BY <1>0, <1>2, <2>1, <2>2, SentStays
  <2>q. QED BY <1>0, <1>2, <2>1, <2>2, <2>3
     DEF DialogueInv, DialoguePlaces, CallInv, CommandInv, StartInv, SoughtAt, AnswerInv, Lost
<1>6. CASE WriteNoMemory(Server) \/ SeekRefused(Server)
  <2>1. /\ \/ pc[Server] = "w_body"
           \/ pc[Server] = "i_body" /\ retval'[Server] = "EINVAL"
        /\ pc'[Server] = "unlock"
        /\ UNCHANGED <<f_pos, reply>>
    BY <1>6, ServerFile DEF WriteNoMemory, SeekRefused, Goto, Returns
  <2>2. ~ReadSome(Server) /\ thread \in {"write", "seek"} /\ (thread = "seek" => pc[Server] = "i_body")
    BY <2>1 DEF ReadSome, Goto, DialogueInv, DialoguePlaces
  <2>q. QED BY <1>0, <1>2, <2>1, <2>2
     DEF DialogueInv, DialoguePlaces, CallInv, CommandInv, StartInv, SoughtAt, AnswerInv, Lost
<1>7. CASE Lseek(Server)
  <2>1. /\ pc[Server] = "l_body" /\ pc'[Server] = "unlock" /\ UNCHANGED reply
    BY <1>7, ServerFile DEF Lseek, Goto
  <2>2. f_pos'[Server] = 0
    <3>1. loaded
      BY <2>1, ServerFile, InCallIsLoaded
    <3>2. buffer.buf_len \in Nat
      BY <3>1, ContentsLength
    <3>3. IF 0 <= buffer.buf_len THEN f_pos' = [f_pos EXCEPT ![Server] = 0] ELSE TRUE
      BY <1>7 DEF Lseek, RewindsToStart
    <3>q. QED BY <3>2, <3>3, ServerFile
  <2>3. ~ReadSome(Server) /\ thread = "rewind"
    BY <2>1 DEF ReadSome, Goto, DialogueInv, DialoguePlaces
  <2>q. QED BY <1>0, <1>2, <2>1, <2>2, <2>3
     DEF DialogueInv, DialoguePlaces, CallInv, CommandInv, StartInv, SoughtAt, AnswerInv, Lost
<1>q. QED BY <1>1, <1>3, <1>4, <1>5, <1>6, <1>7 DEF OtherBody

\* The call is over; what a read has copied is sent.
LEMMA ReturnsKeepDialogue ==
    ASSUME DeviceInv, UserInv, DialogueInv,
           WriteReturns \/ SeekReturns \/ SeekFails \/ RewindReturns \/ ReadReturns
    PROVE  DialogueInv'
<1>0. UNCHANGED <<device, f_pos>> \/ SeekFails
  BY DEF WriteReturns, SeekReturns, RewindReturns, ReadReturns, Unlock
<1>1. Contents' = Contents
  <2>1. UNCHANGED device
    BY <1>0 DEF SeekFails, SeekUnlocks, UnlocksAnything, SeekOops
  <2>q. QED BY <2>1, SameContents DEF device
<1>2. CASE SeekFails
  <2>1. /\ thread = "seek" /\ UNCHANGED <<chunk, isIoctl, answer, start, reply, nextReadPosition>>
        /\ \/ thread' = "exit" /\ pc'[Server] = "idle"
           \/ thread' = "dead" /\ pc'[Server] = "closed"
        /\ pc[Server] = "idle"
    BY <1>2, ServerFile DEF SeekFails, SeekUnlocks, UnlocksAnything, SeekOops, ThreadAt, Goto, user
  <2>q. QED BY <2>1
     DEF DialogueInv, DialoguePlaces, CallInv, CommandInv, StartInv, SoughtAt, AnswerInv
<1>3. CASE WriteReturns \/ SeekReturns \/ RewindReturns \/ ReadReturns
  <2>0. Unlock(Server) /\ UNCHANGED <<chunk, start>>
    BY <1>3 DEF WriteReturns, SeekReturns, RewindReturns, ReadReturns
  <2>1. /\ pc[Server] = "unlock" /\ pc'[Server] = "idle"
        /\ f_pos'[Server] = f_pos[Server] /\ reply'[Server] = << >> /\ retval'[Server] = "none"
    BY <2>0, ServerFile DEF Unlock, Goto
  <2>2. Contents \in Seq(Nat) /\ Contents' \in Seq(Nat)
    BY <1>1, <2>1, ServerFile, InCallIsLoaded, ContentsLength
  <2>3. CASE WriteReturns
    <3>1. /\ thread = "write" /\ UNCHANGED <<isIoctl, answer>>
          /\ \/ thread' = "exit"
             \/ EndsLine(chunk) /\ thread' = Answer
             \/ ~EndsLine(chunk) /\ thread' = "recv"
      BY <2>3 DEF WriteReturns, ThreadAt
    <3>2. EndsLine("tail")
      BY DEF EndsLine
    <3>3. thread' = "recv" => ~isIoctl
      BY <3>1, <3>2 DEF DialogueInv, CommandInv, Answer
    <3>4. thread' = "read" => Lost
      BY <3>1 DEF DialogueInv, CommandInv, Answer, Lost
    <3>q. QED BY <1>1, <2>0, <2>1, <3>1, <3>3, <3>4
       DEF DialogueInv, DialoguePlaces, CallInv, CommandInv, StartInv, SoughtAt, AnswerInv, Lost, Answer
  <2>4. CASE SeekReturns
    <3>1. /\ thread = "seek" /\ isIoctl' = TRUE /\ answer' = answer
          /\ \/ thread' = "exit"
             \/ retval[Server] = "ok" /\ EndsLine(chunk) /\ thread' = "read"
             \/ retval[Server] = "ok" /\ ~EndsLine(chunk) /\ thread' = "recv"
      BY <2>4 DEF SeekReturns, ThreadAt
    <3>2. /\ answer = << >> /\ start \in Nat /\ chunk \in {"command", "head"}
          /\ retval[Server] = "ok" => f_pos[Server] = start /\ start <= Len(Contents)
      BY <2>1, <3>1 DEF DialogueInv, CommandInv, StartInv, SoughtAt, AnswerInv
    <3>3. thread' = "recv" => chunk = "head"
      BY <3>1, <3>2 DEF EndsLine
    <3>4. thread' = "read" => SentSoFar'
      <4> SUFFICES ASSUME thread' = "read" PROVE SentSoFar'
        OBVIOUS
      <4>1. start' \in Nat /\ start' <= Len(Contents') /\ f_pos'[Server] = start' /\ answer' = << >>
        BY <1>1, <2>0, <2>1, <3>1, <3>2
      <4>q. QED BY <2>1, <2>2, <4>1, NothingSent
    <3>q. QED BY <1>1, <2>0, <2>1, <3>1, <3>2, <3>3, <3>4
       DEF DialogueInv, DialoguePlaces, CallInv, CommandInv, StartInv, SoughtAt, AnswerInv, Lost
  <2>5. CASE RewindReturns
    <3>1. thread = "rewind" /\ thread' = "read" /\ UNCHANGED <<isIoctl, answer>>
      BY <2>5 DEF RewindReturns, ThreadAt
    <3>2. answer = << >> /\ start = 0 /\ f_pos[Server] = 0
      BY <2>1, <3>1 DEF DialogueInv, CommandInv, StartInv, AnswerInv
    <3>3. SentSoFar'
      <4>1. start' \in Nat /\ start' <= Len(Contents') /\ f_pos'[Server] = start' /\ answer' = << >>
        BY <1>1, <2>0, <2>1, <2>2, <3>1, <3>2, LenProperties
      <4>q. QED BY <2>1, <2>2, <4>1, NothingSent
    <3>q. QED BY <1>1, <2>0, <2>1, <3>1, <3>2, <3>3
       DEF DialogueInv, DialoguePlaces, CallInv, CommandInv, StartInv, SoughtAt, AnswerInv, Lost
  <2>6. CASE ReadReturns
    <3>1. /\ thread = "read" /\ thread' \in {"read", "close"} /\ isIoctl' = isIoctl
          /\ answer' = answer \o reply[Server]
      BY <2>6 DEF ReadReturns, ThreadAt
    <3>2. answer' \in Seq(Nat)
      BY <3>1, ServerFile, ConcatProperties DEF DialogueInv
    <3>3. SentSoFar => SentSoFar'
      <4>1. answer' \o << >> = answer'
        BY <3>2, ConcatEmptySeq
      <4>q. QED BY <1>1, <2>0, <2>1, <3>1, <4>1 DEF SentSoFar
    <3>q. QED BY <1>1, <2>0, <2>1, <3>1, <3>2, <3>3
       DEF DialogueInv, DialoguePlaces, CallInv, CommandInv, StartInv, SoughtAt, AnswerInv, Lost
  <2>q. QED BY <1>3, <2>3, <2>4, <2>5, <2>6
<1>q. QED BY <1>2, <1>3

\* The process ends and starts, and the module comes and goes, between calls.
LEMMA ProcessKeepsDialogue ==
    ASSUME UserInv, DialogueInv, Exits \/ Killed \/ Restart \/ LoadModule \/ UnloadModule
    PROVE  DialogueInv'
<1>1. CASE Exits \/ Killed
  <2>1. /\ thread' = "none" /\ UNCHANGED <<chunk, isIoctl, answer, start, reply>>
        /\ pc[Server] \in {"closed", "idle"} /\ pc'[Server] = "closed"
    BY <1>1, ServerFile DEF Exits, Killed, Ends, Release, Goto, vars, user
  <2>q. QED BY <2>1
     DEF DialogueInv, DialoguePlaces, CallInv, CommandInv, StartInv, SoughtAt, AnswerInv
<1>2. CASE Restart
  <2>1. UNCHANGED <<vars, thread, chunk, isIoctl, answer, start>>
    BY <1>2 DEF Restart, connection
  <2>2. UNCHANGED <<device, pc, f_pos, retval, reply, nextReadPosition>>
    BY <2>1 DEF vars, user
  <2>3. Contents' = Contents
    BY <2>2, SameContents DEF device
  <2>q. QED BY <2>1, <2>2, <2>3
     DEF DialogueInv, DialoguePlaces, CallInv, CommandInv, StartInv, SoughtAt, AnswerInv,
         SentSoFar, Lost
<1>3. CASE LoadModule \/ UnloadModule
  <2>1. UNCHANGED <<thread, chunk, isIoctl, answer, start, pc, f_pos, retval, reply>>
    BY <1>3 DEF LoadModule, UnloadModule, Load, Unload, server, connection, user
  <2>2. pc[Server] = "closed"
    BY <1>3, ServerFile DEF LoadModule, UnloadModule, Load, Unload, UserInv, Placement
  <2>3. thread \in {"none", "open", "dead", "exit"}
    BY <2>2 DEF DialogueInv, DialoguePlaces
  <2>q. QED BY <2>1, <2>2, <2>3
     DEF DialogueInv, DialoguePlaces, CallInv, CommandInv, StartInv, SoughtAt, AnswerInv
<1>q. QED BY <1>1, <1>2, <1>3

LEMMA NextDialogueInv ==
    ASSUME RewindsToStart
    PROVE  IInv /\ DialogueInv /\ [SystemNext]_allVars => DialogueInv'
<1> SUFFICES ASSUME DeviceInv, UserInv, DialogueInv, [SystemNext]_allVars PROVE DialogueInv'
  BY DEF IInv
<1>1. CASE UNCHANGED allVars
  <2>1. UNCHANGED <<device, pc, f_pos, retval, reply, nextReadPosition,
                    thread, chunk, isIoctl, answer, start>>
    BY <1>1 DEF allVars, vars, user, server, connection
  <2>2. Contents' = Contents
    BY <2>1, SameContents DEF device
  <2>q. QED BY <2>1, <2>2
     DEF DialogueInv, DialoguePlaces, CallInv, CommandInv, StartInv, SoughtAt, AnswerInv,
         SentSoFar, Lost
<1>2. CASE SystemNext
  BY <1>2, ConnectionKeepsDialogue, BeginKeepsDialogue, WriteKeepsDialogue, SeekKeepsDialogue,
     OtherKeepsDialogue, ReturnsKeepDialogue, ProcessKeepsDialogue
     DEF SystemNext, ThreadStep
<1>q. QED BY <1>1, <1>2

LEMMA DialogueInvariant == ASSUME RewindsToStart PROVE SystemSpec => []DialogueInv
<1>1. SystemInit => DialogueInv
  <2> SUFFICES ASSUME SystemInit PROVE DialogueInv
    OBVIOUS
  <2>1. /\ thread = "none" /\ isIoctl = FALSE /\ answer = << >> /\ start = 0
        /\ pc = [f \in Files |-> "closed"] /\ reply = [f \in Files |-> << >>]
    BY DEF SystemInit, Init
  <2>2. pc[Server] = "closed" /\ reply[Server] = << >> /\ answer \in Seq(Nat) /\ start \in Nat
    BY <2>1, SystemAssumption
  <2>q. QED BY <2>1, <2>2
     DEF DialogueInv, DialoguePlaces, CallInv, CommandInv, StartInv, SoughtAt, AnswerInv
<1>q. QED BY <1>1, NextDialogueInv, SystemUsesDriver, Invariant, PTL DEF SystemSpec

\* The read that ends the answer.
LEMMA AnswerStep ==
    ASSUME DeviceInv, UserInv, DialogueInv, [SystemNext]_allVars, Answered, ~Lost
    PROVE  answer' = SubSeq(Contents, start + 1, Len(Contents))
<1>1. ReadReturns
  <2>1. thread = "read" /\ thread' = "close"
    BY DEF Answered
  <2>2. CASE Accept \/ OpenDevice \/ OpenFails \/ Receive \/ EndOfStream \/ CloseDevice
    BY <2>1, <2>2 DEF Accept, OpenDevice, OpenFails, Receive, EndOfStream, CloseDevice, ThreadAt
  <2>3. CASE WriteReturns \/ SeekReturns \/ SeekFails \/ RewindReturns
    BY <2>1, <2>3 DEF WriteReturns, SeekReturns, SeekFails, RewindReturns, ThreadAt
  <2>4. CASE \/ BeginCall \/ WriteBody \/ SeekBody \/ OtherBody \/ Restart
             \/ LoadModule \/ UnloadModule \/ UNCHANGED allVars
    BY <2>1, <2>4 DEF BeginCall, WriteBody, Attributed, SeekBody, OtherBody, Restart,
                      LoadModule, UnloadModule, server, connection, allVars
  <2>5. CASE Exits \/ Killed
    BY <2>1, <2>5 DEF Exits, Killed, Ends
  <2>q. QED BY <2>2, <2>3, <2>4, <2>5 DEF SystemNext, ThreadStep
<1>2. /\ thread = "read" /\ pc[Server] = "unlock" /\ reply[Server] = << >>
      /\ answer' = answer \o reply[Server]
  BY <1>1 DEF ReadReturns, ThreadAt, Answered, Unlock, Goto
<1>3. SentSoFar /\ f_pos[Server] = Len(Contents)
  BY <1>2 DEF DialogueInv, AnswerInv
<1>q. QED BY <1>2, <1>3 DEF SentSoFar

(***************************************************************************)
(* A client is sent what the device holds, all of it and nothing twice,    *)
(* from the first byte on or from where its command points, whatever it    *)
(* and the clients before it sent and whenever the server died             *)
(* (aesdsocket.c:246-267).                                                 *)
(***************************************************************************)
THEOREM ClientsGetTheLog == ASSUME RewindsToStart PROVE SystemSpec => AnswerIsTheLog
<1>1. IInv /\ DialogueInv /\ [SystemNext]_allVars =>
        [Answered /\ ~(isIoctl /\ chunk = "tail")
            => answer' = SubSeq(Contents, start + 1, Len(Contents))]_allVars
  BY AnswerStep DEF IInv, Lost
<1>q. QED
  BY <1>1, DialogueInvariant, SystemUsesDriver, Invariant, PTL DEF SystemSpec, AnswerIsTheLog

-----------------------------------------------------------------------------
(***************************************************************************)
(* The client's own bytes: they are the last ones the driver was given, so *)
(* they are at the end of the working entry until the line ends, and at    *)
(* the end of the contents from then on.                                   *)
(***************************************************************************)
Own(s) == EndsWith(s, SentBy(client))

OwnInv ==
    /\ thread = "open" => SentBy(client) = {}
    /\ thread = "recv" /\ ~isIoctl => Own(Kept) /\ (EndsLine(chunk) => SentBy(client) = {})
    /\ thread = "write" /\ ~isIoctl /\ pc[Server] # "unlock" => Own(Kept)
    /\ thread = "write" /\ ~isIoctl /\ pc[Server] = "unlock" /\ retval[Server] = "ok"
         => Own(IF EndsLine(chunk) THEN Contents ELSE Kept)
    /\ thread \in {"rewind", "read"} /\ ~isIoctl /\ EndsLine(chunk) => Own(Contents)

\* A client that was just accepted has sent nothing.
LEMMA NewcomerSentNothing ==
    ASSUME DeviceInv, SystemInv, Accept
    PROVE  SentBy(client)' = {}
<1>1. PICK m \in Nat : Senders = 1 .. m
  BY DEF SystemInv, ClientIsLast
<1>2. Cardinality(Senders) = m
  BY <1>1, FS_Interval
<1>3. client' = m + 1 /\ from' = from /\ accepted' = accepted
  BY <1>2 DEF Accept, vars, device
<1>4. ASSUME NEW b \in 1 .. accepted PROVE from[b] # client'
  <2>1. from[b] \in 1 .. m
    BY <1>1, OwnerOf DEF Junk
  <2>q. QED BY <1>3, <2>1
<1>q. QED BY <1>3, <1>4 DEF SentBy

LEMMA OwnStays ==
    ASSUME UNCHANGED <<accepted, from, client>>
    PROVE  /\ SentBy(client)' = SentBy(client)
           /\ Kept' = Kept /\ Own(Kept) => Own(Kept)'
           /\ Contents' = Contents /\ Own(Contents) => Own(Contents)'
  BY DEF SentBy, Own, EndsWith

\* Putting something in front changes nothing at the end.
LEMMA OwnBehind ==
    ASSUME NEW s \in Seq(Nat), NEW before \in Seq(Nat), accepted \in Nat, Own(s)
    PROVE  Own(before \o s)
<1> DEFINE t == before \o s
<1>1. /\ Len(before) \in Nat /\ Len(s) \in Nat
      /\ Len(t) = Len(before) + Len(s) /\ DOMAIN t = 1 .. Len(before) + Len(s)
      /\ \A i \in 1 .. Len(s) : t[Len(before) + i] = s[i]
  OBVIOUS
<1> HIDE DEF t
<1>2. ASSUME NEW b \in SentBy(client)
      PROVE  Len(t) - (accepted - b) \in DOMAIN t /\ t[Len(t) - (accepted - b)] = b
  <2> DEFINE i == Len(s) - (accepted - b)
  <2>1. i \in DOMAIN s /\ s[i] = b
    BY DEF Own, EndsWith
  <2>2. b \in Nat /\ DOMAIN s = 1 .. Len(s)
    BY DEF SentBy
  <2>3. Len(t) - (accepted - b) = Len(before) + i
    BY <1>1, <2>2
  <2> HIDE DEF i
  <2>q. QED BY <1>1, <2>1, <2>2, <2>3
<1>q. QED BY <1>2 DEF Own, EndsWith, t

\* A write puts the client's bytes behind what was kept.
LEMMA WrittenIsOwn ==
    ASSUME DeviceInv, SystemInv, loaded, NEW k \in Nat, thread # "none",
           accepted' = accepted + k, Attributed, Own(Kept),
           NEW s, s = Kept \o NewBytes(k)
    PROVE  \A b \in SentBy(client)' :
              Len(s) - (accepted' - b) \in DOMAIN s /\ s[Len(s) - (accepted' - b)] = b
<1> DEFINE n == working.size
<1>1. accepted \in Nat /\ n \in Nat /\ Kept \in Seq(Nat) /\ Len(Kept) = n /\ DOMAIN Kept = 1 .. n
  BY HeapFacts, LenProperties DEF DeviceInv
<1>2. /\ Len(s) = n + k /\ DOMAIN s = 1 .. n + k
      /\ \A i \in 1 .. n : s[i] = Kept[i]
      /\ \A i \in n + 1 .. n + k : s[i] = accepted + (i - n)
  <2>1. Len(s) = n + k
    BY WrittenBytes
  <2>q. QED BY <2>1, WrittenElements
<1>3. /\ client' = client
      /\ \A b \in Nat : b # Junk /\ b <= accepted => from'[b] = from[b]
  BY OwnersAfter
<1>4. SentBy(client)' = {b \in 1 .. accepted + k : from'[b] = client}
  BY <1>3 DEF SentBy
<1> HIDE DEF n
<1>5. ASSUME NEW b \in SentBy(client)'
      PROVE  Len(s) - (accepted' - b) \in DOMAIN s /\ s[Len(s) - (accepted' - b)] = b
  <2>1. b \in 1 .. accepted + k /\ from'[b] = client
    BY <1>4
  <2>2. Len(s) - (accepted' - b) = n - (accepted - b)
    BY <1>1, <1>2, <2>1
  <2> DEFINE i == n - (accepted - b)
  <2>3. CASE b <= accepted
    <3>1. b \in SentBy(client)
      BY <1>1, <1>3, <2>1, <2>3 DEF SentBy, Junk
    <3>2. i \in DOMAIN Kept /\ Kept[i] = b
      BY <1>1, <3>1 DEF Own, EndsWith
    <3> HIDE DEF i
    <3>3. i \in 1 .. n /\ i \in 1 .. n + k
      BY <1>1, <3>2
    <3>q. QED BY <1>2, <2>2, <3>2, <3>3 DEF i
  <2>4. CASE ~(b <= accepted)
    <3>1. i \in n + 1 .. n + k /\ i \in 1 .. n + k /\ accepted + (i - n) = b
      BY <1>1, <2>1, <2>4
    <3> HIDE DEF i
    <3>q. QED BY <1>2, <2>2, <3>1 DEF i
  <2>q. QED BY <2>3, <2>4
<1>q. QED BY <1>5

LEMMA WriteKeepsOwn ==
    ASSUME DeviceInv, UserInv, SystemInv, DialogueInv, OwnInv, WriteBody
    PROVE  OwnInv'
<1>1. /\ UNCHANGED <<thread, chunk, isIoctl>>
      /\ pc[Server] = "w_body" /\ pc'[Server] = "unlock"
      /\ Attributed /\ WriteSome(Server) /\ (buffer' # buffer <=> EndsLine(chunk))
  BY ServerFile DEF WriteBody, WriteSome, Attributed, Goto, connection
<1>2. thread = "write" /\ loaded
  BY <1>1, ServerFile, InCallIsLoaded DEF DialogueInv, DialoguePlaces
<1>3. CASE isIoctl
  BY <1>1, <1>2, <1>3 DEF OwnInv
<1>4. CASE ~isIoctl
  <2>1. Own(Kept)
    BY <1>1, <1>2, <1>4 DEF OwnInv
  <2>2. PICK p \in Reallocated, k \in Nat :
           /\ \/ Commit(p, working.size + k, Kept \o NewBytes(k))
              \/ Collect(p, working.size + k, Kept \o NewBytes(k))
           /\ accepted' = accepted + k
    BY <1>1, <1>2, ServerFile, WriteCases
  <2> DEFINE bytes == Kept \o NewBytes(k)
             total == working.size + k
  <2>3. bytes \in Seq(Nat) /\ total \in Nat
    BY <1>2, WrittenBytes
  <2>4. \A b \in SentBy(client)' :
           Len(bytes) - (accepted' - b) \in DOMAIN bytes /\ bytes[Len(bytes) - (accepted' - b)] = b
    BY <1>1, <1>2, <2>1, <2>2, WrittenIsOwn
  <2> HIDE DEF bytes, total
  <2>5. accepted' \in Nat
    BY <2>2 DEF DeviceInv
  <2>6. CASE Commit(p, total, bytes)
    <3>1. buffer' # buffer /\ \E before \in Seq(Nat) : Contents' = before \o bytes
      BY <1>2, <2>3, <2>6, CommitComesLast
    <3>2. PICK before \in Seq(Nat) : Contents' = before \o bytes
      BY <3>1
    <3>3. Own(Contents)'
      <4>1. /\ Len(before) \in Nat /\ Len(bytes) \in Nat /\ DOMAIN bytes = 1 .. Len(bytes)
            /\ Len(Contents') = Len(before) + Len(bytes)
            /\ DOMAIN Contents' = 1 .. Len(before) + Len(bytes)
            /\ \A i \in 1 .. Len(bytes) : Contents'[Len(before) + i] = bytes[i]
        BY <2>3, <3>2
      <4> SUFFICES ASSUME NEW b \in SentBy(client)'
                   PROVE  LET i == Len(Contents') - (accepted' - b)
                          IN  i \in DOMAIN Contents' /\ Contents'[i] = b
        BY DEF Own, EndsWith
      <4> DEFINE i == Len(bytes) - (accepted' - b)
      <4>2. i \in 1 .. Len(bytes) /\ bytes[i] = b
        BY <2>4, <4>1
      <4>3. Len(Contents') - (accepted' - b) = Len(before) + i
        <5>1. b \in Nat
          BY DEF SentBy
        <5>q. QED BY <2>5, <4>1, <5>1
      <4> HIDE DEF i
      <4>q. QED BY <4>1, <4>2, <4>3
    <3>q. QED BY <1>1, <1>2, <3>1, <3>3 DEF OwnInv
  <2>7. CASE Collect(p, total, bytes)
    <3>1. ~EndsLine(chunk)
      BY <1>1, <2>7 DEF Collect
    <3>2. Kept' = bytes
      <4>1. p \in Ptrs /\ p # NULL
        BY <1>2, ReallocatedIsFresh
      <4>q. QED BY <2>7, <4>1 DEF Collect, Heap, Kept
    <3>3. Own(Kept)'
      BY <2>4, <3>2 DEF Own, EndsWith
    <3>q. QED BY <1>1, <1>2, <3>1, <3>3 DEF OwnInv
  <2>q. QED BY <2>2, <2>6, <2>7 DEF bytes, total
<1>q. QED BY <1>3, <1>4

\* Nobody else writes while the client is served.
LEMMA QuietKeepsOwn ==
    ASSUME DeviceInv, UserInv, DialogueInv, OwnInv,
           UNCHANGED <<device, from, client>>,
           \/ OpenDevice \/ OpenFails \/ Receive \/ EndOfStream
           \/ WriteReturns \/ SeekReturns \/ SeekFails \/ RewindReturns \/ ReadReturns
    PROVE  OwnInv'
<1>1. /\ Contents' = Contents /\ Kept' = Kept
      /\ SentBy(client)' = SentBy(client)
      /\ Own(Kept) => Own(Kept)'
      /\ Own(Contents) => Own(Contents)'
  <2>1. Contents' = Contents
    BY SameContents DEF device
  <2>2. Kept' = Kept
    BY DEF device, Kept
  <2>q. QED BY <2>1, <2>2, OwnStays DEF device
<1>2. SentBy(client) = {} => Own(Kept) /\ Own(Contents)
  BY DEF Own, EndsWith
<1>3. CASE OpenDevice \/ OpenFails
  BY <1>1, <1>2, <1>3 DEF OpenDevice, OpenFails, ThreadAt, OwnInv
<1>4. CASE Receive
  <2>1. /\ thread = "recv" /\ isIoctl' = isIoctl /\ pc' = pc /\ thread' \in {"seek", "write"}
    BY <1>4 DEF Receive, ThreadAt, vars
  <2>2. pc[Server] = "idle"
    BY <2>1 DEF DialogueInv, DialoguePlaces
  <2>q. QED BY <1>1, <2>1, <2>2 DEF OwnInv
<1>5. CASE EndOfStream
  <2>1. /\ thread = "recv" /\ isIoctl' = isIoctl /\ chunk' = chunk
        /\ ~isIoctl => thread' = "rewind" 
        /\ thread' \in {"rewind", "read"}
    BY <1>5 DEF EndOfStream, ThreadAt, Answer
  <2>q. QED BY <1>1, <1>2, <2>1 DEF OwnInv
<1>6. CASE WriteReturns
  <2>1. /\ thread = "write" /\ isIoctl' = isIoctl /\ chunk' = chunk /\ pc[Server] = "unlock"
        /\ \/ thread' = "exit"
           \/ retval[Server] = "ok" /\ EndsLine(chunk) /\ thread' = Answer
           \/ retval[Server] = "ok" /\ ~EndsLine(chunk) /\ thread' = "recv"
    BY <1>6 DEF WriteReturns, ThreadAt, Unlock, Goto
  <2>q. QED BY <1>1, <2>1 DEF OwnInv, Answer
<1>7. CASE SeekReturns \/ SeekFails
  <2>1. \/ isIoctl' = TRUE /\ thread' \in {"exit", "read", "recv"}
        \/ thread' \in {"exit", "dead"}
    BY <1>7 DEF SeekReturns, SeekFails, ThreadAt
  <2>q. QED BY <2>1 DEF OwnInv
<1>8. CASE RewindReturns \/ ReadReturns
  <2>1. /\ isIoctl' = isIoctl /\ chunk' = chunk
        /\ thread \in {"rewind", "read"} /\ thread' \in {"read", "close"}
    BY <1>8 DEF RewindReturns, ReadReturns, ThreadAt
  <2>q. QED BY <1>1, <2>1 DEF OwnInv
<1>q. QED BY <1>3, <1>4, <1>5, <1>6, <1>7, <1>8

LEMMA CallsKeepOwn ==
    ASSUME UserInv, DialogueInv, OwnInv, BeginCall \/ SeekBody \/ OtherBody
    PROVE  OwnInv'
<1>1. /\ UNCHANGED <<thread, chunk, isIoctl, client, from, accepted>>
      /\ pc[Server] \notin {"closed", "unlock"}
      /\ buffer' = buffer /\ data' = data
  BY DEF BeginCall, SeekBody, OtherBody, WriteCall, SeekCall, LseekCall, ReadCall, Seek, Lock,
         ReadNothing, ReadSome, ReadLoad, ReadStore, WriteNoMemory, SeekRefused, Lseek, Goto,
         Waiting, device, server, connection
<1>2. /\ Contents' = Contents /\ (Own(Contents) => Own(Contents)')
      /\ SentBy(client)' = SentBy(client)
  BY <1>1, SameContents, OwnStays
<1>3. CASE WriteNoMemory(Server)
  <2>1. thread = "write" /\ pc'[Server] = "unlock" /\ retval'[Server] = "ENOMEM"
    BY <1>3, ServerFile DEF WriteNoMemory, Goto, Returns, DialogueInv, DialoguePlaces
  <2>q. QED BY <1>1, <2>1 DEF OwnInv
<1>4. CASE ~WriteNoMemory(Server)
  <2>1. working' = working
    BY <1>4 DEF BeginCall, SeekBody, OtherBody, WriteCall, SeekCall, LseekCall, ReadCall, Seek,
                Lock, ReadNothing, ReadSome, ReadLoad, ReadStore, SeekRefused, Lseek, device
  <2>2. Kept' = Kept /\ (Own(Kept) => Own(Kept)')
    <3>1. Kept' = Kept
      BY <1>1, <2>1 DEF Kept
    <3>q. QED BY <1>1, <3>1, OwnStays
  <2>3. thread = "write" => pc'[Server] # "unlock"
    <3>1. thread = "write" /\ pc'[Server] = "unlock" => pc[Server] = "w_body"
      <4>1. thread = "write" => pc[Server] \in {"idle", "w_lock", "w_body", "unlock"}
        BY DEF DialogueInv, DialoguePlaces
      <4>2. BeginCall => pc'[Server] \in Waiting
        BY ServerFile DEF BeginCall, WriteCall, SeekCall, LseekCall, ReadCall, Goto, Waiting
      <4>3. Lock(Server) => pc'[Server] \in {"r_body", "w_body", "i_body", "l_body"}
        BY ServerFile DEF Lock, Waiting, AfterLock
      <4>4. BeginCall \/ Lock(Server) \/ pc[Server] \notin {"idle", "w_lock"}
        BY DEF SeekBody, OtherBody, Seek, ReadNothing, ReadSome, ReadLoad, ReadStore,
               WriteNoMemory, SeekRefused, Lseek, Goto
      <4>q. QED BY <1>1, <4>1, <4>2, <4>3, <4>4 DEF Waiting
    <3>2. pc[Server] # "w_body"
      BY <1>4 DEF BeginCall, SeekBody, OtherBody, WriteCall, SeekCall, LseekCall, ReadCall, Seek,
                Lock, ReadNothing, ReadSome, ReadLoad, ReadStore, SeekRefused, Lseek, Goto, Waiting
    <3>q. QED BY <3>1, <3>2
  <2>q. QED BY <1>1, <1>2, <2>2, <2>3 DEF OwnInv
<1>q. QED BY <1>3, <1>4

LEMMA NextOwnInv == IInv /\ SystemInv /\ DialogueInv /\ OwnInv /\ [SystemNext]_allVars => OwnInv'
<1> SUFFICES ASSUME DeviceInv, UserInv, SystemInv, DialogueInv, OwnInv, [SystemNext]_allVars
             PROVE  OwnInv'
  BY DEF IInv
<1>1. CASE UNCHANGED allVars
  <2>1. UNCHANGED <<device, pc, retval, from, client, thread, chunk, isIoctl>>
    BY <1>1 DEF allVars, vars, user, server, connection
  <2>2. Contents' = Contents /\ Kept' = Kept
    BY <2>1, SameContents DEF device, Kept
  <2>3. /\ SentBy(client)' = SentBy(client)
        /\ Own(Kept) => Own(Kept)'
        /\ Own(Contents) => Own(Contents)'
    BY <2>1, <2>2, OwnStays DEF device
  <2>q. QED BY <2>1, <2>2, <2>3 DEF OwnInv
<1>2. CASE Accept
  <2>1. thread' = "open"
    BY <1>2 DEF Accept, ThreadAt
  <2>q. QED BY <1>2, <2>1, NewcomerSentNothing DEF OwnInv
<1>3. CASE WriteBody
  BY <1>3, WriteKeepsOwn
<1>4. CASE BeginCall \/ SeekBody \/ OtherBody
  BY <1>4, CallsKeepOwn
<1>5. CASE \/ OpenDevice \/ OpenFails \/ Receive \/ EndOfStream
           \/ WriteReturns \/ SeekReturns \/ SeekFails \/ RewindReturns \/ ReadReturns
  <2>1. UNCHANGED <<device, from, client>>
    BY <1>5 DEF OpenDevice, OpenFails, Receive, EndOfStream, WriteReturns, SeekReturns, SeekFails,
                RewindReturns, ReadReturns, Open, Unlock, SeekUnlocks, UnlocksAnything, SeekOops, vars
  <2>q. QED BY <1>5, <2>1, QuietKeepsOwn
<1>6. CASE CloseDevice \/ Exits \/ Killed
  <2>1. thread' = "none"
    BY <1>6 DEF CloseDevice, Exits, Killed, Ends, ThreadAt
  <2>q. QED BY <2>1 DEF OwnInv
<1>7. CASE Restart
  <2>1. UNCHANGED <<device, pc, retval, from, client, thread, chunk, isIoctl>>
    BY <1>7 DEF Restart, vars, user, connection
  <2>2. Contents' = Contents /\ Kept' = Kept
    BY <2>1, SameContents DEF device, Kept
  <2>3. /\ SentBy(client)' = SentBy(client)
        /\ Own(Kept) => Own(Kept)'
        /\ Own(Contents) => Own(Contents)'
    BY <2>1, <2>2, OwnStays DEF device
  <2>q. QED BY <2>1, <2>2, <2>3 DEF OwnInv
<1>8. CASE LoadModule \/ UnloadModule
  <2>1. UNCHANGED <<accepted, from, client, thread>> /\ pc[Server] = "closed"
    BY <1>8, ServerFile DEF LoadModule, UnloadModule, Load, Unload, server, connection, UserInv,
                            Placement
  <2>2. thread \in {"none", "open", "dead", "exit"}
    BY <2>1 DEF DialogueInv, DialoguePlaces
  <2>3. SentBy(client)' = SentBy(client)
    BY <2>1 DEF SentBy
  <2>q. QED BY <2>1, <2>2, <2>3 DEF OwnInv
<1>q. QED
  BY <1>1, <1>2, <1>3, <1>4, <1>5, <1>6, <1>7, <1>8 DEF SystemNext, ThreadStep

(***************************************************************************)
(* A client that ends its packet and seeks nothing finds everything it     *)
(* sent at the end of its answer, however many writes it came in, behind   *)
(* whatever was left in the device, and whichever packets had to go        *)
(* (aesdsocket.c:220-267, main.c:128-170).                                 *)
(***************************************************************************)
THEOREM ClientsGetTheirPacket == ASSUME RewindsToStart PROVE SystemSpec => OwnPacketComesBack
<1>1. SystemInit => OwnInv
  BY DEF SystemInit, OwnInv
<1>2. ASSUME DeviceInv, UserInv, DialogueInv, OwnInv, [SystemNext]_allVars,
             Answered, ~isIoctl, EndsLine(chunk)
      PROVE  EndsWith(answer', SentBy(client))
  <2>1. answer' = SubSeq(Contents, start + 1, Len(Contents))
    BY <1>2, AnswerStep DEF Lost
  <2>2. /\ start = 0 /\ thread = "read" /\ Own(Contents)
    BY <1>2 DEF Answered, OwnInv, DialogueInv, StartInv
  <2>3. answer' = Contents
    <3>1. loaded
      BY <2>2, <1>2, ServerFile, InCallIsLoaded DEF DialogueInv, DialoguePlaces
    <3>2. Contents \in Seq(Nat)
      BY <1>2, <3>1, ContentsLength
    <3>q. QED BY <2>1, <2>2, <3>2
  <2>q. QED BY <2>2, <2>3 DEF Own
<1>3. IInv /\ DialogueInv /\ OwnInv /\ [SystemNext]_allVars =>
        [Answered /\ ~isIoctl /\ EndsLine(chunk) => EndsWith(answer', SentBy(client))]_allVars
  BY <1>2 DEF IInv
<1>q. QED
  BY <1>1, <1>3, NextOwnInv, DialogueInvariant, SystemInvariant, SystemUsesDriver, Invariant, PTL
     DEF SystemSpec, OwnPacketComesBack
=============================================================================
