-------------------------- MODULE SpiMasterProofs --------------------------
(***************************************************************************)
(* For any clients, devices and configuration, the lock list of the SPI    *)
(* manager keeps one record per device, owned by a connected client, and   *)
(* implements DeviceLocks.                                                 *)
(***************************************************************************)
EXTENDS SpiMaster, SequenceTheorems, TLAPS

-----------------------------------------------------------------------------
(* The two operations on the list.                                          *)

\* Taking an element out shifts those behind it.
LEMMA RemovedElements ==
  ASSUME NEW S, NEW s \in Seq(S), NEW i \in 1 .. Len(s)
  PROVE  /\ RemoveAt(s, i) \in Seq(S)
         /\ Len(RemoveAt(s, i)) = Len(s) - 1
         /\ \A j \in 1 .. Len(s) - 1 :
              RemoveAt(s, i)[j] = IF j < i THEN s[j] ELSE s[j + 1]
<1> DEFINE front == SubSeq(s, 1, i-1)  back == SubSeq(s, i+1, Len(s))
<1>0. i \in Nat \ {0} /\ Len(s) \in Nat /\ i <= Len(s)
  OBVIOUS
<1>1. /\ front \in Seq(S)
      /\ Len(front) = i - 1
      /\ \A j \in 1 .. i-1 : front[j] = s[j]
  BY SubSeqProperties
<1>2. /\ back \in Seq(S)
      /\ Len(back) = Len(s) - i
      /\ \A j \in 1 .. Len(s) - i : back[j] = s[i + j]
  BY SubSeqProperties
<1>3. RemoveAt(s, i) = front \o back
  BY DEF RemoveAt
<1> HIDE DEF front, back
<1>4. /\ front \o back \in Seq(S)
      /\ Len(front \o back) = Len(front) + Len(back)
      /\ \A j \in 1 .. Len(front) + Len(back) : (front \o back)[j] =
           IF j <= Len(front) THEN front[j] ELSE back[j - Len(front)]
  BY <1>1, <1>2, ConcatProperties
<1>5. ASSUME NEW j \in 1 .. Len(s) - 1
      PROVE  (front \o back)[j] = IF j < i THEN s[j] ELSE s[j + 1]
  <2>1. CASE j < i
    <3>1. j \in 1 .. i-1 /\ j <= Len(front) /\ j \in 1 .. Len(front) + Len(back)
      BY <1>0, <1>1, <1>2, <2>1
    <3> QED  BY <1>1, <1>4, <2>1, <3>1
  <2>2. CASE ~(j < i)
    <3>1. /\ ~(j <= Len(front)) /\ j \in 1 .. Len(front) + Len(back)
          /\ j - Len(front) \in 1 .. Len(s) - i /\ i + (j - Len(front)) = j + 1
      BY <1>0, <1>1, <1>2, <2>2
    <3> QED  BY <1>2, <1>4, <2>2, <3>1
  <2> QED  BY <2>1, <2>2
<1>6. Len(front \o back) = Len(s) - 1
  BY <1>0, <1>1, <1>2, <1>4
<1> QED  BY <1>3, <1>4, <1>5, <1>6

\* An element put in front shifts the list.
LEMMA PrependedElements ==
  ASSUME NEW S, NEW s \in Seq(S), NEW r \in S
  PROVE  /\ <<r>> \o s \in Seq(S)
         /\ Len(<<r>> \o s) = Len(s) + 1
         /\ (<<r>> \o s)[1] = r
         /\ \A j \in 2 .. Len(s) + 1 : (<<r>> \o s)[j] = s[j - 1]
<1>1. <<r>> \in Seq(S) /\ Len(<<r>>) = 1 /\ <<r>>[1] = r
  OBVIOUS
<1> DEFINE one == <<r>>
<1>2. one \in Seq(S) /\ Len(one) = 1 /\ one[1] = r
  BY <1>1
<1> HIDE DEF one
<1>3. /\ one \o s \in Seq(S)
      /\ Len(one \o s) = Len(one) + Len(s)
      /\ \A j \in 1 .. Len(one) + Len(s) : (one \o s)[j] =
           IF j <= Len(one) THEN one[j] ELSE s[j - Len(one)]
  BY <1>2, ConcatProperties
<1>4. (one \o s)[1] = r /\ \A j \in 2 .. Len(s) + 1 : (one \o s)[j] = s[j - 1]
  BY <1>2, <1>3
<1> QED  BY <1>3, <1>4 DEF one

-----------------------------------------------------------------------------
(* What the operations do to the lock list.                                 *)

\* With one record per device, the owner is that of any record.
LEMMA OwnerOfRecord ==
  ASSUME NEW l \in Seq(Records),
         \A i, j \in DOMAIN l : l[i].device = l[j].device => i = j
  PROVE  /\ \A i \in DOMAIN l : OwnerIn(l, l[i].device) = l[i].owner
         /\ \A id : (\A i \in DOMAIN l : l[i].device # id) => OwnerIn(l, id) = Nil
  BY DEF OwnerIn

\* A list that grew by a record at its head.
Prepended(c, id) ==
  /\ locks' \in Seq(Records)
  /\ Len(locks') = Len(locks) + 1
  /\ locks'[1] = [owner |-> c, device |-> id]
  /\ \A j \in 2 .. Len(locks) + 1 : locks'[j] = locks[j - 1]

\* A list that lost record i.
Removed(i) ==
  /\ locks' \in Seq(Records)
  /\ Len(locks') = Len(locks) - 1
  /\ \A j \in 1 .. Len(locks) - 1 :
       locks'[j] = IF j < i THEN locks[j] ELSE locks[j + 1]

LEMMA LockDevPrepends ==
  ASSUME locks \in Seq(Records), NEW c \in Clients, NEW id \in Ids, LockDev(c, id)
  PROVE  Prepended(c, id)
<1> DEFINE r == [owner |-> c, device |-> id]
<1>1. r \in Records
  BY DEF Records
<1> HIDE DEF r
<1>2. locks' = <<r>> \o locks
  BY DEF LockDev, r
<1>3. /\ locks' \in Seq(Records) /\ Len(locks') = Len(locks) + 1 /\ locks'[1] = r
      /\ \A j \in 2 .. Len(locks) + 1 : locks'[j] = locks[j - 1]
  BY <1>1, <1>2, PrependedElements
<1> QED  BY <1>3 DEF Prepended, r

LEMMA UnlockRemoves ==
  ASSUME locks \in Seq(Records), NEW c, NEW id, Unlock(c, id)
  PROVE  \E i \in 1 .. Len(locks) :
           locks[i].owner = c /\ (id = None \/ locks[i].device = id) /\ Removed(i)
<1>1. PICK i \in Releasable(c, id) : locks' = RemoveAt(locks, i)
  BY DEF Unlock
<1>2. i \in 1 .. Len(locks) /\ locks[i].owner = c /\ (id = None \/ locks[i].device = id)
  BY DEF Releasable
<1>3. Removed(i)
  BY <1>1, <1>2, RemovedElements DEF Removed
<1> QED  BY <1>2, <1>3

\* Every record of the shorter list is one of the longer list, at another
\* place, and only record i is missing.
LEMMA RemovedRecords ==
  ASSUME locks \in Seq(Records), NEW i \in 1 .. Len(locks), Removed(i)
  PROVE  /\ \A k \in DOMAIN locks' : \E m \in DOMAIN locks :
              m # i /\ locks'[k] = locks[m] /\ m = IF k < i THEN k ELSE k + 1
         /\ \A m \in DOMAIN locks : m # i =>
              \E k \in DOMAIN locks' : locks'[k] = locks[m]
<1>1. DOMAIN locks = 1 .. Len(locks) /\ DOMAIN locks' = 1 .. Len(locks) - 1
      /\ Len(locks) \in Nat /\ i \in Nat
  BY DEF Removed
<1>2. ASSUME NEW k \in DOMAIN locks'
      PROVE  \E m \in DOMAIN locks :
               m # i /\ locks'[k] = locks[m] /\ m = IF k < i THEN k ELSE k + 1
  <2>1. CASE k < i
    <3>1. k \in DOMAIN locks /\ k # i /\ locks'[k] = locks[k]
      BY <1>1, <2>1 DEF Removed
    <3> QED  BY <2>1, <3>1
  <2>2. CASE ~(k < i)
    <3>1. k + 1 \in DOMAIN locks /\ k + 1 # i /\ locks'[k] = locks[k + 1]
      BY <1>1, <2>2 DEF Removed
    <3> QED  BY <2>2, <3>1
  <2> QED  BY <2>1, <2>2
<1>3. ASSUME NEW m \in DOMAIN locks, m # i
      PROVE  \E k \in DOMAIN locks' : locks'[k] = locks[m]
  <2>1. CASE m < i
    <3>1. m \in DOMAIN locks' /\ locks'[m] = locks[m]
      BY <1>1, <2>1 DEF Removed
    <3> QED  BY <3>1
  <2>2. CASE m > i
    <3>1. m - 1 \in DOMAIN locks' /\ ~(m - 1 < i) /\ (m - 1) + 1 = m
      BY <1>1, <2>2
    <3>2. locks'[m - 1] = locks[m]
      BY <1>1, <3>1 DEF Removed
    <3> QED  BY <3>1, <3>2
  <2> QED  BY <1>1, <1>3, <2>1, <2>2
<1> QED  BY <1>2, <1>3

\* The three ways a handler can leave the list: as it was, with a record for
\* a device that had none, or without one of the client's own records.
ListStep(c) ==
  \/ UNCHANGED locks
  \/ \E id \in Ids : ~Locked(id) /\ Prepended(c, id)
  \/ \E i \in 1 .. Len(locks) : locks[i].owner = c /\ Removed(i)

LEMMA GrantedIsListStep ==
  ASSUME locks \in Seq(Records), NEW c \in Clients, NEW a \in Addresses, Granted(c, a)
  PROVE  ListStep(c)
<1>0. a.id \in Ids
  BY DEF Addresses
<1>1. CASE UNCHANGED locks
  BY <1>1 DEF ListStep
<1>2. CASE Unlock(c, a.id)
  BY <1>2, UnlockRemoves DEF ListStep
<1>3. CASE ~Locked(a.id) /\ LockDev(c, a.id)
  BY <1>0, <1>3, LockDevPrepends DEF ListStep
<1> QED  BY <1>1, <1>2, <1>3 DEF Granted

\* A step of a connected client keeps the shape of the list.
LEMMA ListStepKeeps ==
  ASSUME locks \in Seq(Records), OneRecordPerDevice, OwnersAreConnected,
         NEW c \in Clients, chip[c] # Nil, ListStep(c),
         \A b \in Clients : chip[b] # Nil => chip'[b] # Nil
  PROVE  locks' \in Seq(Records) /\ OneRecordPerDevice' /\ OwnersAreConnected'
<1>0. \A i \in DOMAIN locks : locks[i].owner \in Clients
  <2>1. \A i \in DOMAIN locks : locks[i] \in Records
    OBVIOUS
  <2> QED  BY <2>1 DEF Records
<1>1. CASE UNCHANGED locks
  BY <1>0, <1>1 DEF OneRecordPerDevice, OwnersAreConnected
<1>2. ASSUME NEW id \in Ids, ~Locked(id), Prepended(c, id)
      PROVE  locks' \in Seq(Records) /\ OneRecordPerDevice' /\ OwnersAreConnected'
  <2>1. DOMAIN locks = 1 .. Len(locks) /\ DOMAIN locks' = 1 .. Len(locks) + 1
        /\ Len(locks) \in Nat
    BY <1>2 DEF Prepended
  <2>2. \A i \in DOMAIN locks : locks[i].device # id
    BY <1>2 DEF Locked, RecordsOf
  <2>3. \A k \in DOMAIN locks' : k = 1 \/ (k - 1 \in DOMAIN locks /\ locks'[k] = locks[k - 1])
    BY <1>2, <2>1 DEF Prepended
  <2>4. locks'[1].device = id /\ locks'[1].owner = c
    BY <1>2 DEF Prepended
  <2>5. ASSUME NEW j \in DOMAIN locks', NEW k \in DOMAIN locks',
               locks'[j].device = locks'[k].device
        PROVE  j = k
    <3>1. CASE j = 1 \/ k = 1
      BY <2>2, <2>3, <2>4, <2>5, <3>1
    <3>2. CASE j # 1 /\ k # 1
      <4>1. j - 1 = k - 1
        BY <2>3, <2>5, <3>2 DEF OneRecordPerDevice
      <4> QED  BY <2>1, <4>1
    <3> QED  BY <3>1, <3>2
  <2>6. OwnersAreConnected'
    BY <1>0, <2>3, <2>4 DEF OwnersAreConnected
  <2>7. OneRecordPerDevice'
    BY <2>5 DEF OneRecordPerDevice
  <2> QED  BY <1>2, <2>6, <2>7 DEF Prepended
<1>3. ASSUME NEW i \in 1 .. Len(locks), Removed(i)
      PROVE  locks' \in Seq(Records) /\ OneRecordPerDevice' /\ OwnersAreConnected'
  <2>1. \A k \in DOMAIN locks' : \E m \in DOMAIN locks :
          locks'[k] = locks[m] /\ m = IF k < i THEN k ELSE k + 1
    BY <1>3, RemovedRecords
  <2>2. DOMAIN locks' \subseteq Nat /\ i \in Nat
    BY <1>3 DEF Removed
  <2>3. ASSUME NEW j \in DOMAIN locks', NEW k \in DOMAIN locks',
               locks'[j].device = locks'[k].device
        PROVE  j = k
    <3>1. (IF j < i THEN j ELSE j + 1) = (IF k < i THEN k ELSE k + 1)
      BY <2>1, <2>3 DEF OneRecordPerDevice
    <3> QED  BY <2>2, <3>1
  <2>4. OneRecordPerDevice'
    BY <2>3 DEF OneRecordPerDevice
  <2>5. OwnersAreConnected'
    BY <1>0, <2>1 DEF OwnersAreConnected
  <2> QED  BY <1>3, <2>4, <2>5 DEF Removed
<1> QED  BY <1>1, <1>2, <1>3 DEF ListStep

-----------------------------------------------------------------------------
(* The invariant.                                                           *)

ConfigTyped == mode \in [Present -> Configs] /\ ctrl \in [Present -> Programmable]

LEMMA InitEstablishes == Init => IInv
<1> SUFFICES ASSUME Init PROVE IInv
  OBVIOUS
<1>1. TypeOK
  <2>1. FirstCfg.len \in Programmable
    BY SpiAssumption DEF Programmable
  <2>2. ConfigTyped
    BY <2>1, SpiAssumption DEF Init, ConfigTyped
  <2>3. locks \in Seq(Records)
    BY DEF Init
  <2>4. buflen \in 0 .. MaxXlen /\ room \in 0 .. MaxXlen
    BY SpiAssumption DEF Init
  <2>5. /\ chip \in [Clients -> Addresses \cup {Nil}] /\ closing \in Clients \cup {Nil}
        /\ bus \in Transfers \cup {Nil} /\ down \in BOOLEAN
    BY Zenon DEF Init
  <2> QED  BY <2>2, <2>3, <2>4, <2>5, Zenon DEF TypeOK, ConfigTyped
<1>2. OneRecordPerDevice /\ OwnersAreConnected
  BY DEF Init, OneRecordPerDevice, OwnersAreConnected
<1> QED  BY <1>1, <1>2 DEF IInv

\* A transfer the controller accepts is recorded with the right types.
LEMMA XferTyped ==
  ASSUME TypeOK, NEW c \in Clients, NEW named \in BOOLEAN, NEW d,
         NEW n \in 0 .. MaxXlen, Xfer(c, named, d, n)
  PROVE  bus' \in Transfers \cup {Nil} /\ down' \in BOOLEAN
<1>1. ASSUME d \in Present
      PROVE  bus' \in Transfers \cup {Nil}
  <2>1. [client |-> c, named |-> named, device |-> d, len |-> n] \in Transfers
    BY <1>1 DEF Transfers
  <2> QED  BY <2>1 DEF Xfer, NoUse, Dies
<1>2. ASSUME d \notin Present
      PROVE  bus' \in Transfers \cup {Nil}
  BY <1>2 DEF Xfer, NoUse
<1>3. down' \in BOOLEAN
  BY Zenon DEF Xfer, NoUse, Dies, TypeOK
<1> QED  BY <1>1, <1>2, <1>3

BusTyped    == bus \in Transfers \cup {Nil} /\ down \in BOOLEAN
BufferTyped == buflen \in 0 .. MaxXlen /\ room \in 0 .. MaxXlen /\ BufferIsBacked

\* Whatever a handler does after the lock check.
LEMMA TransferTyped ==
  ASSUME TypeOK, BufferIsBacked, NEW c \in Clients, NEW named \in BOOLEAN, NEW d,
         \/ NoTransfer
         \/ \E least \in {0, 1} : Transfer(c, named, d, least)
         \/ DmaTransfer(c, named, d)
  PROVE  BusTyped' /\ BufferTyped'
<1>0. BufferTyped /\ MaxXlen \in Nat
  BY SpiAssumption DEF TypeOK, BufferTyped
<1>1. CASE NoTransfer
  BY <1>0, <1>1 DEF NoTransfer, NoUse, BusTyped, BufferTyped, buffer,
     BufferIsBacked, TypeOK
<1>2. ASSUME NEW least \in {0, 1}, NEW n \in least .. MaxXlen,
             \/ NoMemory(n) /\ NoUse
             \/ Grow(n) /\ (NoUse \/ Xfer(c, named, d, n))
      PROVE  BusTyped' /\ BufferTyped'
  <2>1. n \in 0 .. MaxXlen
    BY <1>0
  <2>2. BusTyped'
    <3>1. CASE NoUse
      BY <3>1, Zenon DEF BusTyped, NoUse, TypeOK
    <3>2. CASE Xfer(c, named, d, n)
      BY <2>1, <3>2, XferTyped, Zenon DEF BusTyped
    <3> QED  BY <1>2, <3>1, <3>2
  <2>3. BufferTyped'
    BY <1>0, <1>2, <2>1 DEF NoMemory, Grow, BufferTyped, BufferIsBacked, buffer
  <2> QED  BY <2>2, <2>3
<1>3. CASE DmaTransfer(c, named, d)
  <2>1. BusTyped'
    <3>1. CASE NoTransfer
      BY <3>1, Zenon DEF NoTransfer, NoUse, BusTyped, TypeOK
    <3>2. ASSUME NEW n \in 0 .. MaxXlen, Xfer(c, named, d, n)
          PROVE  BusTyped'
      BY <3>2, XferTyped, Zenon DEF BusTyped
    <3> QED  BY <1>3, <3>1, <3>2 DEF DmaTransfer
  <2>2. BufferTyped'
    BY <1>0, <1>3 DEF DmaTransfer, NoTransfer, BufferTyped, BufferIsBacked, buffer
  <2> QED  BY <2>1, <2>2
<1> QED  BY <1>1, <1>2, <1>3 DEF Transfer

StrongInv == IInv /\ BufferIsBacked

LEMMA StepPreserves == StrongInv /\ [Next]_vars => StrongInv'
<1> SUFFICES ASSUME StrongInv, [Next]_vars PROVE StrongInv'
  OBVIOUS
<1> USE SpiAssumption
<1>0. TypeOK /\ OneRecordPerDevice /\ OwnersAreConnected /\ BufferIsBacked
      /\ locks \in Seq(Records)
  BY DEF StrongInv, IInv, TypeOK
\* What is left to show of a step that is one on the list.
<1>q. ASSUME NEW c \in Clients, chip[c] # Nil, ListStep(c),
             \A b \in Clients : chip[b] # Nil => chip'[b] # Nil,
             chip' \in [Clients -> Addresses \cup {Nil}],
             closing' \in Clients \cup {Nil}, UNCHANGED config,
             BusTyped', BufferTyped'
      PROVE  StrongInv'
  <2>1. locks' \in Seq(Records) /\ OneRecordPerDevice' /\ OwnersAreConnected'
    BY <1>0, <1>q, ListStepKeeps
  <2>2. TypeOK'
    BY <1>0, <1>q, <2>1 DEF TypeOK, config, BusTyped, BufferTyped
  <2> QED  BY <1>q, <2>1, <2>2 DEF StrongInv, IInv, BufferTyped
\* And of one that leaves the list alone.
<1>r. ASSUME UNCHANGED locks,
             \A i \in DOMAIN locks : chip'[locks[i].owner] # Nil,
             chip' \in [Clients -> Addresses \cup {Nil}],
             closing' \in Clients \cup {Nil},
             ConfigTyped',
             BusTyped', BufferTyped'
      PROVE  StrongInv'
  <2>1. OneRecordPerDevice' /\ OwnersAreConnected'
    BY <1>0, <1>r DEF OneRecordPerDevice, OwnersAreConnected
  <2>2. TypeOK'
    BY <1>0, <1>r DEF TypeOK, BusTyped, BufferTyped, ConfigTyped
  <2> QED  BY <1>r, <2>1, <2>2 DEF StrongInv, IInv, BufferTyped
<1>s. NoUse /\ UNCHANGED buffer => BusTyped' /\ BufferTyped'
  BY <1>0 DEF NoUse, BusTyped, BufferTyped, buffer, TypeOK, BufferIsBacked
<1>t. \A i \in DOMAIN locks : chip[locks[i].owner] # Nil /\ locks[i].owner \in Clients
  <2>1. \A i \in DOMAIN locks : locks[i] \in Records
    BY <1>0
  <2> QED  BY <1>0, <2>1 DEF OwnersAreConnected, Records
<1>u. ConfigTyped /\ (UNCHANGED config => ConfigTyped')
  BY <1>0 DEF TypeOK, config, ConfigTyped
<1>v. closing \in Clients \cup {Nil} /\ chip \in [Clients -> Addresses \cup {Nil}]
  BY <1>0 DEF TypeOK
<1>1. ASSUME NEW c \in Clients, Open(c)
      PROVE  StrongInv'
  <2>1. [id |-> None, flags |-> {}] \in Addresses /\ [id |-> None, flags |-> {}] # Nil
    BY SpiAssumption DEF Addresses, Ids, Flags
  <2>2. chip' \in [Clients -> Addresses \cup {Nil}]
    BY <1>1, <1>v, <2>1 DEF Open
  <2>3. \A i \in DOMAIN locks : chip'[locks[i].owner] # Nil
    BY <1>1, <1>t, <1>v, <2>1 DEF Open
  <2> QED  BY <1>1, <1>r, <1>s, <1>u, <1>v, <2>2, <2>3 DEF Open
<1>2. ASSUME NEW c \in Clients, Close(c)
      PROVE  StrongInv'
  BY <1>2, <1>r, <1>s, <1>t, <1>u, <1>v DEF Close
<1>3. ASSUME NEW c \in Clients, CloseUnlock(c)
      PROVE  StrongInv'
  <2>1. PICK i \in 1 .. Len(locks) : locks[i].owner = c /\ Removed(i)
    BY <1>0, <1>3, UnlockRemoves DEF CloseUnlock
  <2>2. chip[c] # Nil /\ ListStep(c)
    BY <1>0, <1>t, <2>1 DEF ListStep
  <2> QED  BY <1>3, <1>q, <1>s, <1>v, <2>2 DEF CloseUnlock
<1>4. ASSUME NEW c \in Clients, CloseDone(c)
      PROVE  StrongInv'
  <2>1. \A i \in DOMAIN locks : locks[i].owner # c
    BY <1>4 DEF CloseDone, Releasable
  <2>2. \A i \in DOMAIN locks : chip'[locks[i].owner] # Nil
    BY <1>4, <1>t, <1>v, <2>1 DEF CloseDone
  <2>3. chip' \in [Clients -> Addresses \cup {Nil}]
    BY <1>4, <1>v DEF CloseDone
  <2> QED  BY <1>4, <1>r, <1>s, <1>u, <2>2, <2>3 DEF CloseDone
<1>5. ASSUME NEW c \in Clients, ReadWrite(c)
      PROVE  StrongInv'
  <2>1. chip[c] # Nil /\ chip[c] \in Addresses
    BY <1>5, <1>v DEF ReadWrite, Serving
  <2>2. ListStep(c)
    BY <1>0, <1>5, <2>1, GrantedIsListStep DEF ReadWrite, Refused, ListStep
  <2>3. BusTyped' /\ BufferTyped'
    BY <1>0, <1>5, TransferTyped DEF ReadWrite
  <2> QED  BY <1>5, <1>q, <1>v, <2>1, <2>2, <2>3 DEF ReadWrite
<1>6. ASSUME NEW c \in Clients, NEW a \in Addresses, IoMsg(c, a)
      PROVE  StrongInv'
  <2>1. chip[c] # Nil
    BY <1>6 DEF IoMsg, Serving
  <2>2. ListStep(c)
    BY <1>0, <1>6, GrantedIsListStep DEF IoMsg, Refused, ListStep
  <2>3. BusTyped' /\ BufferTyped'
    BY <1>0, <1>6, TransferTyped DEF IoMsg
  <2> QED  BY <1>6, <1>q, <1>v, <2>1, <2>2, <2>3 DEF IoMsg
<1>7. ASSUME NEW c \in Clients, NEW a \in Addresses, NEW default \in BOOLEAN,
             Devctl(c, a, default)
      PROVE  StrongInv'
  <2>1. chip' \in [Clients -> Addresses \cup {Nil}] /\ a # Nil
    BY <1>7, <1>v DEF Devctl
  <2>2. \A i \in DOMAIN locks : chip'[locks[i].owner] # Nil
    BY <1>7, <1>t, <1>v, <2>1 DEF Devctl
  <2>3. ConfigTyped' /\ down' \in BOOLEAN
    <3>1. CASE UNCHANGED <<config, down>>
      BY <1>0, <1>u, <3>1 DEF TypeOK
    <3>2. ASSUME NEW cfg \in Configs, SetCfg(a.id, cfg)
          PROVE  ConfigTyped' /\ down' \in BOOLEAN
      <4>1. Accepted(cfg.len) => cfg.len \in Programmable
        BY DEF Programmable
      <4>2. ConfigTyped'
        BY <1>u, <3>2, <4>1 DEF SetCfg, ConfigTyped, config
      <4>3. down' \in BOOLEAN
        BY <1>0, <3>2, Zenon DEF SetCfg, TypeOK
      <4> QED  BY <4>2, <4>3
    <3> QED  BY <1>7, <3>1, <3>2 DEF Devctl
  <2>4. BusTyped' /\ BufferTyped'
    BY <1>0, <1>7, <2>3 DEF Devctl, BusTyped, BufferTyped, buffer, TypeOK, BufferIsBacked
  <2> QED  BY <1>7, <1>r, <1>v, <2>1, <2>2, <2>3, <2>4 DEF Devctl
<1>8. CASE UNCHANGED vars
  BY <1>0, <1>8 DEF vars, config, buffer, StrongInv, IInv, TypeOK,
     OneRecordPerDevice, OwnersAreConnected, BufferIsBacked
<1> QED
  BY <1>1, <1>2, <1>3, <1>4, <1>5, <1>6, <1>7, <1>8 DEF Next

\* In every reachable state, for any number of clients and devices, the lock
\* list has one record per device and each belongs to a connected client
\* (_spi_lock_check, _spi_close_ocb), and the buffer is what buflen says.
THEOREM Invariance == Spec => []StrongInv
<1>1. Init => StrongInv
  BY InitEstablishes DEF StrongInv, Init, BufferIsBacked
<1> QED  BY <1>1, StepPreserves, PTL DEF Spec

\* The variables keep their types; only devices of the controller are used.
THEOREM TypeCorrect == Spec => []TypeOK
<1>1. StrongInv => TypeOK
  BY DEF StrongInv, IInv
<1> QED  BY <1>1, Invariance, PTL

\* No device ever has two lock records.
THEOREM LocksExclusive == Spec => []OneRecordPerDevice
<1>1. StrongInv => OneRecordPerDevice
  BY DEF StrongInv, IInv
<1> QED  BY <1>1, Invariance, PTL

\* No lock outlives the client that took it.
THEOREM LocksReleased == Spec => []OwnersAreConnected
<1>1. StrongInv => OwnersAreConnected
  BY DEF StrongInv, IInv
<1> QED  BY <1>1, Invariance, PTL

\* A failed allocation leaves no stale buffer length behind.
THEOREM BufferBacked == Spec => []BufferIsBacked
<1>1. StrongInv => BufferIsBacked
  BY DEF StrongInv
<1> QED  BY <1>1, Invariance, PTL

-----------------------------------------------------------------------------
(* Who uses a device.                                                       *)

\* After the lock check has let a client through, nobody else owns the device
\* it was made for.
LEMMA GrantedKeepsOthersOut ==
  ASSUME IInv, NEW c \in Clients, NEW a \in Addresses, Granted(c, a)
  PROVE  \A k \in DOMAIN locks' : locks'[k].device = a.id => locks'[k].owner = c
<1>0. locks \in Seq(Records) /\ OneRecordPerDevice /\ a.id \in Ids
  BY DEF IInv, TypeOK, Addresses
<1>1. CASE Locked(a.id)
  <2>1. PICK i \in DOMAIN locks : locks[i].device = a.id /\ locks[i].owner = c
    BY <1>1 DEF Granted, OwnedBy, RecordsOf
  <2>2. \A m \in DOMAIN locks : locks[m].device = a.id => locks[m].owner = c
    BY <1>0, <2>1 DEF OneRecordPerDevice
  <2>3. CASE UNCHANGED locks
    BY <2>2, <2>3
  <2>4. CASE Unlock(c, a.id)
    <3>1. PICK j \in 1 .. Len(locks) : Removed(j)
      BY <1>0, <2>4, UnlockRemoves
    <3> QED  BY <1>0, <2>2, <3>1, RemovedRecords
  <2> QED  BY <1>1, <2>3, <2>4 DEF Granted
<1>2. CASE ~Locked(a.id)
  <2>1. \A m \in DOMAIN locks : locks[m].device # a.id
    BY <1>2 DEF Locked, RecordsOf
  <2>2. CASE UNCHANGED locks
    BY <2>1, <2>2
  <2>3. CASE LockDev(c, a.id)
    <3>1. Prepended(c, a.id)
      BY <1>0, <2>3, LockDevPrepends
    <3>2. DOMAIN locks' = 1 .. Len(locks) + 1 /\ DOMAIN locks = 1 .. Len(locks)
          /\ Len(locks) \in Nat
      BY <1>0, <3>1 DEF Prepended
    <3>3. \A k \in DOMAIN locks' :
            k = 1 \/ (k - 1 \in DOMAIN locks /\ locks'[k] = locks[k - 1])
      BY <3>1, <3>2 DEF Prepended
    <3> QED  BY <2>1, <3>1, <3>3 DEF Prepended
  <2> QED  BY <1>2, <2>2, <2>3 DEF Granted
<1> QED  BY <1>1, <1>2

\* What a handler records of its transfer.
TransferOf(c, named, d) ==
  \/ bus' = Nil
  \/ /\ bus' \in Transfers /\ bus'.client = c
     /\ bus'.named = named /\ bus'.device = d

LEMMA TransferRecorded ==
  ASSUME TypeOK, BufferIsBacked, NEW c \in Clients, NEW named \in BOOLEAN, NEW d,
         \/ NoTransfer
         \/ \E least \in {0, 1} : Transfer(c, named, d, least)
         \/ DmaTransfer(c, named, d)
  PROVE  TransferOf(c, named, d)
<1>1. BusTyped'
  BY TransferTyped
<1>2. ASSUME NEW n, Xfer(c, named, d, n)
      PROVE  TransferOf(c, named, d)
  <2>1. CASE bus' = Nil
    BY <2>1 DEF TransferOf
  <2>2. CASE bus' # Nil
    <3>1. bus' = [client |-> c, named |-> named, device |-> d, len |-> n]
      BY <1>2, <2>2 DEF Xfer, NoUse, Dies
    <3>2. bus' \in Transfers
      BY <1>1, <2>2 DEF BusTyped
    <3> QED  BY <3>1, <3>2 DEF TransferOf
  <2> QED  BY <2>1, <2>2
<1> QED  BY <1>2 DEF NoTransfer, NoUse, Transfer, DmaTransfer, TransferOf

\* A request either leads to no transfer, or to one of the device its lock
\* check was made for, or to one of the default device.
LEMMA RequestUse ==
  ASSUME StrongInv, NEW c \in Clients,
         ReadWrite(c) \/ \E a \in Addresses : IoMsg(c, a)
  PROVE  \/ bus' = Nil
         \/ /\ bus' \in Transfers /\ bus'.client = c
            /\ bus'.named => \A k \in DOMAIN locks' :
                 locks'[k].device = bus'.device => locks'[k].owner = c
<1>0. IInv /\ TypeOK /\ BufferIsBacked
  BY DEF StrongInv, IInv
<1>1. CASE ReadWrite(c)
  <2>1. chip[c] \in Addresses
    BY <1>0, <1>1 DEF ReadWrite, Serving, TypeOK
  <2>2. CASE NoTransfer
    BY <2>2 DEF NoTransfer, NoUse
  <2>3. CASE Granted(c, chip[c]) /\ Transfer(c, TRUE, chip[c].id, 1)
    <3>1. TransferOf(c, TRUE, chip[c].id)
      BY <1>0, <2>3, TransferRecorded
    <3>2. \A k \in DOMAIN locks' : locks'[k].device = chip[c].id => locks'[k].owner = c
      BY <1>0, <2>1, <2>3, GrantedKeepsOthersOut
    <3> QED  BY <3>1, <3>2 DEF TransferOf
  <2> QED  BY <1>1, <2>2, <2>3 DEF ReadWrite
<1>2. ASSUME NEW a \in Addresses, IoMsg(c, a)
      PROVE  \/ bus' = Nil
             \/ /\ bus' \in Transfers /\ bus'.client = c
                /\ bus'.named => \A k \in DOMAIN locks' :
                     locks'[k].device = bus'.device => locks'[k].owner = c
  <2>2. CASE NoTransfer
    BY <2>2 DEF NoTransfer, NoUse
  <2>3. CASE /\ Granted(c, a)
             /\ \/ Transfer(c, a.id # None, Target(c, a), 0)
                \/ DmaTransfer(c, a.id # None, Target(c, a))
    <3>1. TransferOf(c, a.id # None, Target(c, a))
      <4> DEFINE named == a.id # None
      <4>1. named \in BOOLEAN
        OBVIOUS
      <4>2. Transfer(c, named, Target(c, a), 0) \/ DmaTransfer(c, named, Target(c, a))
        BY <2>3
      <4> HIDE DEF named
      <4>3. TransferOf(c, named, Target(c, a))
        BY <1>0, <4>1, <4>2, TransferRecorded
      <4> QED  BY <4>3 DEF named
    <3>2. \A k \in DOMAIN locks' : locks'[k].device = a.id => locks'[k].owner = c
      BY <1>0, <2>3, GrantedKeepsOthersOut
    <3>3. a.id # None => Target(c, a) = a.id
      BY DEF Target
    <3> QED  BY <3>1, <3>2, <3>3 DEF TransferOf
  <2> QED  BY <1>2, <2>2, <2>3 DEF IoMsg
<1> QED  BY <1>1, <1>2

\* The steps that are no requests make no transfer.
LEMMA OtherSteps ==
  ASSUME NEW c \in Clients,
         \/ Open(c) \/ Close(c) \/ CloseUnlock(c) \/ CloseDone(c)
         \/ \E a \in Addresses, default \in BOOLEAN : Devctl(c, a, default)
  PROVE  bus' = Nil
  BY DEF Open, Close, CloseUnlock, CloseDone, NoUse, Devctl

\* A client that names a device, or uses its default with read and write, uses
\* it only while no other client owns it.
THEOREM AccessRespectsLocks == Spec => LockedOutStaysOut
<1>1. ASSUME StrongInv, [Next]_vars
      PROVE  [bus' # Nil /\ bus'.named
                => \A i \in DOMAIN locks' :
                     locks'[i].device = bus'.device => locks'[i].owner = bus'.client]_vars
  <2>1. CASE UNCHANGED vars
    BY <2>1
  <2>2. ASSUME NEW c \in Clients, ReadWrite(c) \/ \E a \in Addresses : IoMsg(c, a)
        PROVE  bus' # Nil /\ bus'.named
                 => \A i \in DOMAIN locks' :
                      locks'[i].device = bus'.device => locks'[i].owner = bus'.client
    BY <1>1, <2>2, RequestUse
  <2> QED  BY <1>1, <2>1, <2>2, OtherSteps DEF Next
<1> QED  BY <1>1, Invariance, PTL DEF Spec, LockedOutStaysOut

-----------------------------------------------------------------------------
(* The list implements the abstract locks.                                  *)

Owner == [id \in Ids |-> OwnerIn(locks, id)]
Use   == IF bus = Nil THEN Nil
         ELSE [client |-> bus.client, device |-> bus.device, named |-> bus.named]
Opened == {c \in Clients : chip[c] # Nil}

\* A step on the list acquires a free device, releases an owned one, or
\* changes no owner.
LEMMA ListStepIsLockStep ==
  ASSUME StrongInv, StrongInv', NEW c \in Clients, ListStep(c)
  PROVE  UNCHANGED Owner \/ \E d \in Ids : Abs!Acquire(c, d) \/ Abs!Release(c, d)
<1>0. /\ locks \in Seq(Records) /\ OneRecordPerDevice
      /\ locks' \in Seq(Records) /\ OneRecordPerDevice'
  BY DEF StrongInv, IInv, TypeOK
<1>1. /\ \A i \in DOMAIN locks : OwnerIn(locks, locks[i].device) = locks[i].owner
      /\ \A id : (\A i \in DOMAIN locks : locks[i].device # id) => OwnerIn(locks, id) = Nil
  BY <1>0, OwnerOfRecord DEF OneRecordPerDevice
<1>2. /\ \A i \in DOMAIN locks' : OwnerIn(locks', locks'[i].device) = locks'[i].owner
      /\ \A id : (\A i \in DOMAIN locks' : locks'[i].device # id) => OwnerIn(locks', id) = Nil
  <2>1. \A i, j \in DOMAIN locks' : locks'[i].device = locks'[j].device => i = j
    BY <1>0 DEF OneRecordPerDevice
  <2> QED  BY <1>0, <2>1, OwnerOfRecord
<1>3. CASE UNCHANGED locks
  BY <1>3 DEF Owner
<1>4. ASSUME NEW id \in Ids, ~Locked(id), Prepended(c, id)
      PROVE  Abs!Acquire(c, id)
  <2>1. \A i \in DOMAIN locks : locks[i].device # id
    BY <1>4 DEF Locked, RecordsOf
  <2>2. DOMAIN locks = 1 .. Len(locks) /\ DOMAIN locks' = 1 .. Len(locks) + 1
        /\ Len(locks) \in Nat
    BY <1>0, <1>4 DEF Prepended
  <2>3. OwnerIn(locks', id) = c
    BY <1>2, <1>4, <2>2 DEF Prepended
  <2>4. ASSUME NEW d \in Ids, d # id
        PROVE  OwnerIn(locks', d) = OwnerIn(locks, d)
    <3>1. CASE \E i \in DOMAIN locks : locks[i].device = d
      <4>1. PICK i \in DOMAIN locks : locks[i].device = d
        BY <3>1
      <4>2. i + 1 \in DOMAIN locks' /\ i + 1 \in 2 .. Len(locks) + 1 /\ (i + 1) - 1 = i
        BY <2>2
      <4>3. locks'[i + 1] = locks[i]
        BY <1>4, <4>2 DEF Prepended
      <4> QED  BY <1>1, <1>2, <4>1, <4>2, <4>3
    <3>2. CASE \A i \in DOMAIN locks : locks[i].device # d
      <4>1. \A k \in DOMAIN locks' :
              k = 1 \/ (k - 1 \in DOMAIN locks /\ locks'[k] = locks[k - 1])
        BY <1>4, <2>2 DEF Prepended
      <4>2. \A k \in DOMAIN locks' : locks'[k].device # d
        BY <1>4, <2>4, <3>2, <4>1 DEF Prepended
      <4> QED  BY <1>1, <1>2, <3>2, <4>2
    <3> QED  BY <3>1, <3>2
  <2>5. Owner[id] = Nil
    BY <1>1, <2>1 DEF Owner
  <2>6. Owner' = [Owner EXCEPT ![id] = c]
    BY <2>3, <2>4 DEF Owner
  <2> QED  BY <2>5, <2>6 DEF Abs!Acquire, Owner
<1>5. ASSUME NEW i \in 1 .. Len(locks), locks[i].owner = c, Removed(i)
      PROVE  \E d \in Ids : Abs!Release(c, d)
  <2> DEFINE id == locks[i].device
  <2>1. i \in DOMAIN locks /\ id \in Ids
    <3>1. locks[i] \in Records
      BY <1>0
    <3> QED  BY <1>0, <3>1 DEF Records
  <2>2. /\ \A k \in DOMAIN locks' : \E m \in DOMAIN locks : m # i /\ locks'[k] = locks[m]
        /\ \A m \in DOMAIN locks : m # i => \E k \in DOMAIN locks' : locks'[k] = locks[m]
    BY <1>0, <1>5, RemovedRecords
  <2>3. OwnerIn(locks, id) = c
    BY <1>1, <1>5, <2>1
  <2>4. \A k \in DOMAIN locks' : locks'[k].device # id
    BY <1>0, <2>1, <2>2 DEF OneRecordPerDevice
  <2>5. OwnerIn(locks', id) = Nil
    BY <1>2, <2>4
  <2>6. ASSUME NEW d \in Ids, d # id
        PROVE  OwnerIn(locks', d) = OwnerIn(locks, d)
    <3>1. CASE \E m \in DOMAIN locks : locks[m].device = d
      <4>1. PICK m \in DOMAIN locks : locks[m].device = d
        BY <3>1
      <4>2. PICK k \in DOMAIN locks' : locks'[k] = locks[m]
        BY <2>2, <2>6, <4>1
      <4> QED  BY <1>1, <1>2, <4>1, <4>2
    <3>2. CASE \A m \in DOMAIN locks : locks[m].device # d
      <4>1. \A k \in DOMAIN locks' : locks'[k].device # d
        BY <2>2, <3>2
      <4> QED  BY <1>1, <1>2, <3>2, <4>1
    <3> QED  BY <3>1, <3>2
  <2> HIDE DEF id
  <2>7. Owner[id] = c /\ Owner' = [Owner EXCEPT ![id] = Nil]
    BY <2>1, <2>3, <2>5, <2>6 DEF Owner
  <2>8. Abs!Release(c, id)
    BY <2>7 DEF Abs!Release, Owner
  <2> QED  BY <2>1, <2>8
<1> QED  BY <1>3, <1>4, <1>5 DEF ListStep

\* A handler's transfer is one the abstract client may make.
LEMMA UseAllowed ==
  ASSUME StrongInv, StrongInv', NEW c \in Clients,
         \/ bus' = Nil
         \/ /\ bus' \in Transfers /\ bus'.client = c
            /\ bus'.named => \A k \in DOMAIN locks' :
                 locks'[k].device = bus'.device => locks'[k].owner = c
  PROVE  Abs!MayUse(c)
<1>0. locks' \in Seq(Records) /\ OneRecordPerDevice'
  BY DEF StrongInv, IInv, TypeOK
<1>1. CASE bus' = Nil
  BY <1>1 DEF Abs!MayUse
<1>2. CASE /\ bus' \in Transfers /\ bus'.client = c
           /\ bus'.named => \A k \in DOMAIN locks' :
                locks'[k].device = bus'.device => locks'[k].owner = c
  <2>1. bus' # Nil /\ bus'.device \in Ids /\ bus'.named \in BOOLEAN
    BY <1>2, SpiAssumption DEF Transfers, Present, Ids
  <2>2. Use' = [client |-> c, device |-> bus'.device, named |-> bus'.named]
    BY <1>2, <2>1 DEF Use
  <2>3. Use' \in Abs!Uses /\ Use'.client = c /\ Use'.named = bus'.named
        /\ Use'.device = bus'.device
    BY <2>1, <2>2 DEF Abs!Uses
  <2>4. ASSUME bus'.named
        PROVE  OwnerIn(locks', bus'.device) \in {c, Nil}
    <3>1. \A i, j \in DOMAIN locks' : locks'[i].device = locks'[j].device => i = j
      BY <1>0 DEF OneRecordPerDevice
    <3>2. /\ \A i \in DOMAIN locks' : OwnerIn(locks', locks'[i].device) = locks'[i].owner
          /\ \A id : (\A i \in DOMAIN locks' : locks'[i].device # id) => OwnerIn(locks', id) = Nil
      BY <1>0, <3>1, OwnerOfRecord
    <3> QED  BY <1>2, <2>4, <3>2
  <2>5. Use'.named => Owner'[Use'.device] \in {c, Nil}
    BY <2>1, <2>3, <2>4 DEF Owner
  <2> QED  BY <2>3, <2>5 DEF Abs!MayUse, Use, Owner
<1> QED  BY <1>1, <1>2

LEMMA InitImplements == Init => Abs!Init
<1> SUFFICES ASSUME Init PROVE Abs!Init
  OBVIOUS
<1>1. \A d : OwnerIn(locks, d) = Nil
  BY DEF Init, OwnerIn
<1> QED  BY <1>1 DEF Init, Abs!Init

LEMMA StepImplements == StrongInv /\ StrongInv' /\ [Next]_vars => [Abs!Next]_(Abs!vars)
<1> SUFFICES ASSUME StrongInv, StrongInv', [Next]_vars PROVE [Abs!Next]_(Abs!vars)
  OBVIOUS
<1>0. IInv /\ TypeOK /\ locks \in Seq(Records)
  BY DEF StrongInv, IInv, TypeOK
<1>1. ASSUME NEW c \in Clients, c \in Opened, UNCHANGED Opened, ListStep(c),
             \/ bus' = Nil
             \/ /\ bus' \in Transfers /\ bus'.client = c
                /\ bus'.named => \A k \in DOMAIN locks' :
                     locks'[k].device = bus'.device => locks'[k].owner = c
      PROVE  Abs!Next
  <2>1. UNCHANGED Owner \/ \E d \in Ids : Abs!Acquire(c, d) \/ Abs!Release(c, d)
    BY <1>1, ListStepIsLockStep
  <2>2. Abs!MayUse(c)
    BY <1>1, UseAllowed
  <2>3. Abs!Request(c)
    BY <1>1, <2>1, <2>2 DEF Abs!Request, Opened, Owner
  <2> QED  BY <2>3 DEF Abs!Next
<1>2. ASSUME NEW c \in Clients, Open(c)
      PROVE  Abs!Next
  <2>1. [id |-> None, flags |-> {}] # Nil
    BY SpiAssumption DEF Addresses, Ids, Flags
  <2>2. c \notin Opened /\ Opened' = Opened \cup {c} /\ UNCHANGED Owner /\ Use' = Nil
    BY <1>0, <1>2, <2>1 DEF Open, NoUse, Opened, Owner, Use, TypeOK
  <2>3. Abs!Enter(c)
    BY <2>2 DEF Abs!Enter, Opened, Owner, Use
  <2> QED  BY <2>3 DEF Abs!Next
<1>3. ASSUME NEW c \in Clients, Close(c)
      PROVE  Abs!Next
  BY <1>1, <1>3 DEF Close, NoUse, Serving, Opened, ListStep
<1>4. ASSUME NEW c \in Clients, CloseUnlock(c)
      PROVE  Abs!Next
  <2>1. PICK i \in 1 .. Len(locks) : locks[i].owner = c /\ Removed(i)
    BY <1>0, <1>4, UnlockRemoves DEF CloseUnlock
  <2>2. chip[c] # Nil
    BY <1>0, <2>1 DEF IInv, OwnersAreConnected
  <2> QED  BY <1>1, <1>4, <2>1, <2>2 DEF CloseUnlock, NoUse, Opened, ListStep
<1>5. ASSUME NEW c \in Clients, CloseDone(c)
      PROVE  Abs!Next
  <2>1. \A i \in DOMAIN locks : locks[i].owner # c
    BY <1>5 DEF CloseDone, Releasable
  <2>2. c # Nil
    BY SpiAssumption
  <2>3. \A d \in Ids : Owner[d] # c
    BY <2>1, <2>2 DEF Owner, OwnerIn
  <2>4. Opened' = Opened \ {c} /\ UNCHANGED Owner /\ Use' = Nil
    BY <1>0, <1>5 DEF CloseDone, NoUse, Opened, Owner, Use, TypeOK
  <2>5. Abs!Leave(c)
    BY <2>3, <2>4 DEF Abs!Leave, Opened, Owner, Use
  <2> QED  BY <2>5 DEF Abs!Next
<1>6. ASSUME NEW c \in Clients, ReadWrite(c)
      PROVE  Abs!Next
  <2>1. chip[c] \in Addresses /\ c \in Opened /\ UNCHANGED Opened
    BY <1>0, <1>6 DEF ReadWrite, Serving, TypeOK, Opened
  <2>2. ListStep(c)
    BY <1>0, <1>6, <2>1, GrantedIsListStep DEF ReadWrite, Refused, ListStep
  <2> QED  BY <1>1, <1>6, <2>1, <2>2, RequestUse
<1>7. ASSUME NEW c \in Clients, NEW a \in Addresses, IoMsg(c, a)
      PROVE  Abs!Next
  <2>1. c \in Opened /\ UNCHANGED Opened
    BY <1>7 DEF IoMsg, Serving, Opened
  <2>2. ListStep(c)
    BY <1>0, <1>7, GrantedIsListStep DEF IoMsg, Refused, ListStep
  <2> QED  BY <1>1, <1>7, <2>1, <2>2, RequestUse
<1>8. ASSUME NEW c \in Clients, NEW a \in Addresses, NEW default \in BOOLEAN,
             Devctl(c, a, default)
      PROVE  Abs!Next
  <2>1. a # Nil
    BY SpiAssumption
  <2>2. c \in Opened /\ UNCHANGED Opened
    BY <1>0, <1>8, <2>1 DEF Devctl, Serving, Opened, TypeOK
  <2> QED  BY <1>1, <1>8, <2>2 DEF Devctl, ListStep
<1>9. CASE UNCHANGED vars
  BY <1>9 DEF vars, Abs!vars
<1> QED
  BY <1>2, <1>3, <1>4, <1>5, <1>6, <1>7, <1>8, <1>9 DEF Next

\* The lock list implements DeviceLocks: a lock is taken only while it is free,
\* released only by its owner, and obeyed by every client that names a device.
THEOREM Refinement == Spec => ImplementsLocks
<1>1. StrongInv /\ StrongInv' /\ [Next]_vars => [Abs!Next]_(Abs!vars)
  BY StepImplements
<1> QED  BY <1>1, InitImplements, Invariance, PTL DEF Spec, ImplementsLocks, Abs!Spec
=============================================================================
