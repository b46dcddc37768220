-------------------------- MODULE ExercisesProofs ---------------------------
(***************************************************************************)
(* Theorems about four of the stand-alone programs: ConnectionPool, for    *)
(* any number of clients and any size of the pool, MonotonicStack, for any *)
(* numbers and any calls, AdjGraph, for any graph, and AvlTree, for any    *)
(* keys and any calls.                                                     *)
(***************************************************************************)
EXTENDS ConnectionPool, MonotonicStack, AdjGraph, AvlTree, FiniteSetTheorems,
        SequenceTheorems, WellFoundedInduction, TLAPS

-----------------------------------------------------------------------------
(* The connection pool.                                                    *)

(* instanceMutex_ is held by the client between the lock and the unlock.   *)
LockInv ==
  \A c \in Clients : cpc[c] \in {"look", "build", "unlock", "ended"} <=> imutex = c

(* A pool under construction is nobody's, and holds what it opened so far. *)
BuildInv ==
  \A c \in Clients : cpc[c] = "build" =>
    /\ instance = NoClient
    /\ Len(pools[c].conns) <= PoolSize
    /\ \A i \in DOMAIN pools[c].conns : pools[c].conns[i] = <<c, i>>

(* Before the pool is published nobody uses one.                           *)
NoneYet == instance = NoClient =>
  /\ lost = {}
  /\ \A c \in Clients :
       /\ held[c] = {}
       /\ cpc[c] \notin {"unlock", "get", "have", "busy"}
       /\ cpc[c] \notin {"build", "ended"} => pools[c] = NoPool

(* After that there is no other, and nobody makes one.                     *)
OnlyOne == instance # NoClient =>
  /\ \A d \in Clients \ {instance} : pools[d] = NoPool
  /\ \A c \in Clients : cpc[c] \notin {"build", "ended"}

PtrInv == \A c \in Clients : cpc[c] \in {"have", "busy"} => ptr[c] = instance

HeldInv == \A c \in Clients :
  IF cpc[c] = "busy" THEN \E x \in Connections(instance) : held[c] = {x} ELSE held[c] = {}

PInv ==
  /\ PTypeOK /\ LockInv /\ BuildInv /\ NoneYet /\ OnlyOne /\ PtrInv /\ HeldInv
  /\ PoolConserved

-----------------------------------------------------------------------------
(* The stack of idle connections                                           *)

Elements(s) == {s[i] : i \in DOMAIN s}
Distinct(s) == \A i, j \in DOMAIN s : s[i] = s[j] => i = j

(* What pop_back takes away is one element that is not left in the vector. *)
LEMMA Popped ==
  ASSUME NEW S, NEW s \in Seq(S), s # <<>>, Distinct(s)
  PROVE  /\ ButLast(s) \in Seq(S) /\ Distinct(ButLast(s))
         /\ Len(s) \in Nat \ {0} /\ Len(ButLast(s)) = Len(s) - 1
         /\ s[Len(s)] \in S /\ s[Len(s)] \in Elements(s)
         /\ Elements(ButLast(s)) = Elements(s) \ {s[Len(s)]}
<1>1. Len(s) \in Nat \ {0} /\ DOMAIN s = 1..Len(s)
  OBVIOUS
<1>2. ButLast(s) \in Seq(S) /\ Len(ButLast(s)) = Len(s) - 1
  BY <1>1 DEF ButLast
<1>3. DOMAIN ButLast(s) = 1..(Len(s) - 1) /\ \A i \in 1..(Len(s) - 1) : ButLast(s)[i] = s[i]
  BY <1>1 DEF ButLast
<1>4. Distinct(ButLast(s))
  BY <1>1, <1>3 DEF Distinct
<1>5. s[Len(s)] \in S /\ s[Len(s)] \in Elements(s)
  BY <1>1 DEF Elements
<1>6. ASSUME NEW x PROVE x \in Elements(ButLast(s)) <=> x \in Elements(s) \ {s[Len(s)]}
  <2>1. ASSUME x \in Elements(ButLast(s)) PROVE x \in Elements(s) \ {s[Len(s)]}
    BY <1>1, <1>3, <2>1 DEF Elements, Distinct
  <2>2. ASSUME x \in Elements(s) \ {s[Len(s)]} PROVE x \in Elements(ButLast(s))
    BY <1>1, <1>3, <2>2 DEF Elements
  <2> QED BY <2>1, <2>2
<1> QED BY <1>1, <1>2, <1>4, <1>5, <1>6

(* What push_back adds is one element that was not in the vector.          *)
LEMMA Pushed ==
  ASSUME NEW S, NEW s \in Seq(S), Distinct(s), NEW x \in S, x \notin Elements(s)
  PROVE  /\ Append(s, x) \in Seq(S) /\ Distinct(Append(s, x))
         /\ Len(Append(s, x)) = Len(s) + 1
         /\ Elements(Append(s, x)) = Elements(s) \union {x}
<1>1. Len(s) \in Nat /\ DOMAIN s = 1..Len(s)
  OBVIOUS
<1>2. Append(s, x) \in Seq(S) /\ Len(Append(s, x)) = Len(s) + 1
  OBVIOUS
<1>3. /\ DOMAIN Append(s, x) = 1..(Len(s) + 1)
      /\ Append(s, x)[Len(s) + 1] = x
      /\ \A i \in 1..Len(s) : Append(s, x)[i] = s[i]
  BY <1>1
<1>4. Distinct(Append(s, x))
  BY <1>1, <1>3 DEF Distinct, Elements
<1>5. ASSUME NEW y PROVE y \in Elements(Append(s, x)) <=> y \in Elements(s) \union {x}
  <2>1. ASSUME y \in Elements(Append(s, x)) PROVE y \in Elements(s) \union {x}
    BY <1>1, <1>3, <2>1 DEF Elements
  <2>2. ASSUME y \in Elements(s) \union {x} PROVE y \in Elements(Append(s, x))
    BY <1>1, <1>3, <2>2 DEF Elements
  <2> QED BY <2>1, <2>2
<1> QED BY <1>2, <1>4, <1>5

(* A pool filled by Connect alone holds each of its connections once.      *)
LEMMA Filled ==
  ASSUME NEW c, NEW S, NEW s \in Seq(S), Len(s) = PoolSize,
         \A i \in DOMAIN s : s[i] = <<c, i>>
  PROVE  Distinct(s) /\ Elements(s) = Connections(c)
<1>1. DOMAIN s = 1..PoolSize
  OBVIOUS
<1>2. Distinct(s)
  BY <1>1 DEF Distinct
<1>3. ASSUME NEW x PROVE x \in Elements(s) <=> x \in Connections(c)
  <2>1. x \in Connections(c) <=> \E i \in 1..PoolSize : x = <<c, i>>
    BY DEF Connections
  <2> QED BY <1>1, <2>1 DEF Elements
<1> QED BY <1>2, <1>3

-----------------------------------------------------------------------------
(* No pool, no clients in it: the invariant holds at the start.            *)
LEMMA PInitInv == PInit => PInv
<1> SUFFICES ASSUME PInit PROVE PInv
  OBVIOUS
<1> USE PoolAssumption DEF PInit
<1>1. NoPool \in [conns : Seq(Clients \X (1..PoolSize)), free : Nat]
  BY DEF NoPool
<1>2. pools \in [Clients -> [conns : Seq(Clients \X (1..PoolSize)), free : Nat]]
  BY <1>1
<1>3. PTypeOK
  BY <1>2 DEF PTypeOK
<1>4. LockInv /\ BuildInv /\ NoneYet /\ OnlyOne
  BY DEF LockInv, BuildInv, NoneYet, OnlyOne
<1>5. PtrInv /\ HeldInv /\ PoolConserved
  BY DEF PtrInv, HeldInv, PoolConserved
<1> QED BY <1>3, <1>4, <1>5 DEF PInv

(* A step that touches neither the pools nor who has what keeps the books. *)
LEMMA BooksKept ==
  ASSUME PoolConserved, UNCHANGED <<instance, pools, held, lost>>
  PROVE  PoolConserved'
BY DEF PoolConserved, Accounted, Idle, Connections

(* The steps of getInstance that only move a client or the mutex.          *)
LEMMA MoveInv ==
  ASSUME PInv, NEW c \in Clients,
         FirstLook(c) \/ Lock(c) \/ SecondLook(c) \/ BuildFails(c) \/ Unlock(c)
           \/ GetInstance(c) \/ GetThrows(c)
  PROVE  PInv'
<1> USE PoolAssumption DEF PInv, Goto
<1> USE DEF FirstLook, Lock, SecondLook, BuildFails, Unlock, GetInstance, GetThrows
<1>1. UNCHANGED <<instance, pools, held, lost>>
  OBVIOUS
<1>2. PTypeOK'
  BY DEF PTypeOK
<1>3. LockInv'
  BY DEF PTypeOK, LockInv
<1>4. BuildInv'
  <2>1. NoPool.conns = <<>> /\ Len(<<>>) = 0 /\ DOMAIN <<>> = {}
    BY DEF NoPool
  <2>2. ASSUME NEW d \in Clients, cpc'[d] = "build", cpc[d] # "build"
        PROVE  instance = NoClient /\ pools[d] = NoPool
    BY <2>2 DEF PTypeOK, NoneYet
  <2>3. ASSUME NEW d \in Clients, cpc'[d] = "build"
        PROVE  /\ instance = NoClient
               /\ Len(pools[d].conns) <= PoolSize
               /\ \A i \in DOMAIN pools[d].conns : pools[d].conns[i] = <<d, i>>
    <3>1. CASE cpc[d] = "build"
      BY <3>1 DEF BuildInv
    <3>2. CASE cpc[d] # "build"
      BY <2>1, <2>2, <2>3, <3>2
    <3> QED BY <3>1, <3>2
  <2> QED BY <1>1, <2>3 DEF BuildInv
<1>9. NoneYet'
  BY <1>1 DEF PTypeOK, NoneYet
<1>5. OnlyOne'
  BY <1>1 DEF PTypeOK, OnlyOne
<1>6. PtrInv'
  BY <1>1 DEF PTypeOK, PtrInv
<1>7. HeldInv'
  BY <1>1 DEF PTypeOK, HeldInv, Connections
<1>8. PoolConserved'
  BY <1>1, BooksKept
<1> QED BY <1>2, <1>3, <1>4, <1>5, <1>6, <1>7, <1>8, <1>9

(* A connection opened for the pool under construction.                    *)
LEMMA ConnectInv ==
  ASSUME PInv, NEW c \in Clients, Connect(c)
  PROVE  PInv'
<1> USE PoolAssumption DEF PInv, Goto, Connect
<1> DEFINE s == pools[c].conns
<1>1. /\ s \in Seq(Clients \X (1..PoolSize)) /\ Len(s) \in Nat /\ Len(s) < PoolSize
      /\ pools[c].free \in Nat
  BY DEF PTypeOK
<1>2. pools'[c] = [conns |-> Append(s, <<c, Len(s) + 1>>), free |-> pools[c].free]
  BY DEF PTypeOK
<1>3. <<c, Len(s) + 1>> \in Clients \X (1..PoolSize)
  BY <1>1
<1>4. /\ Append(s, <<c, Len(s) + 1>>) \in Seq(Clients \X (1..PoolSize))
      /\ Len(Append(s, <<c, Len(s) + 1>>)) = Len(s) + 1
  BY <1>1, <1>3, SMTT(30)
<1>5. pools' \in [Clients -> [conns : Seq(Clients \X (1..PoolSize)), free : Nat]]
  BY <1>1, <1>2, <1>4, ZenonT(60) DEF PTypeOK
<1>6. PTypeOK'
  BY <1>5 DEF PTypeOK
<1>7. \A i \in DOMAIN Append(s, <<c, Len(s) + 1>>) :
        Append(s, <<c, Len(s) + 1>>)[i] = <<c, i>>
  BY <1>1 DEF BuildInv
<1>8. \A d \in Clients \ {c} : cpc[d] # "build" /\ pools'[d] = pools[d]
  BY DEF PTypeOK, LockInv
<1>9. instance = NoClient /\ instance' = instance /\ cpc' = cpc /\ held' = held /\ lost' = lost
  BY DEF PTypeOK, BuildInv
<1>10. BuildInv'
  BY <1>1, <1>2, <1>4, <1>7, <1>8, <1>9 DEF BuildInv
<1>11. NoneYet' /\ OnlyOne' /\ PoolConserved'
  BY <1>8, <1>9 DEF NoneYet, OnlyOne, PoolConserved
<1>12. LockInv' /\ PtrInv' /\ HeldInv'
  BY <1>9 DEF LockInv, PtrInv, HeldInv, Connections
<1> QED BY <1>6, <1>10, <1>11, <1>12

LEMMA FreeSet ==
  ASSUME NEW C, NEW p \in [conns : C, free : Nat], NEW n \in Nat
  PROVE  [p EXCEPT !.free = n] \in [conns : C, free : Nat]
OBVIOUS

(* The pool appears complete, with all its connections idle.               *)
LEMMA PublishInv ==
  ASSUME PInv, NEW c \in Clients, Publish(c)
  PROVE  PInv'
<1> USE PoolAssumption DEF PInv, Goto, Publish
<1>1. /\ pools[c].conns \in Seq(Clients \X (1..PoolSize))
      /\ pools'[c].conns = pools[c].conns /\ pools'[c].free = PoolSize
      /\ \A d \in Clients \ {c} : pools'[d] = pools[d]
  BY DEF PTypeOK
<1>2. /\ instance = NoClient /\ instance' = c /\ c # NoClient
      /\ cpc[c] = "build" /\ cpc' = [cpc EXCEPT ![c] = "unlock"]
      /\ held' = held /\ lost' = lost
  BY DEF BuildInv
<1>3. PTypeOK'
  <2> DEFINE Pool == [conns : Seq(Clients \X (1..PoolSize)), free : Nat]
  <2>1. pools \in [Clients -> Pool] /\ pools' = [pools EXCEPT ![c].free = PoolSize]
    BY DEF PTypeOK
  <2>2. [pools[c] EXCEPT !.free = PoolSize] \in Pool
    BY <2>1, FreeSet
  <2>3. pools' = [pools EXCEPT ![c] = [pools[c] EXCEPT !.free = PoolSize]]
    BY <2>1
  <2>4. pools' \in [Clients -> Pool]
    <3> HIDE DEF Pool
    <3> QED BY <2>1, <2>2, <2>3
  <2> QED BY <2>4 DEF PTypeOK
<1>4. LockInv'
  BY <1>2 DEF LockInv, PTypeOK
<1>5. \A d \in Clients \ {c} : cpc[d] \notin {"build", "ended"} /\ cpc'[d] = cpc[d]
  BY <1>2 DEF LockInv, PTypeOK
<1>6. cpc'[c] = "unlock"
  BY <1>2 DEF PTypeOK
<1>7. BuildInv' /\ NoneYet'
  BY <1>2, <1>5, <1>6 DEF BuildInv, NoneYet
<1>8. OnlyOne'
  BY <1>1, <1>2, <1>5, <1>6 DEF NoneYet, OnlyOne
<1>9. PtrInv' /\ HeldInv'
  BY <1>2, <1>5, <1>6 DEF NoneYet, PtrInv, HeldInv
<1>10. PoolConserved'
  <2>1. /\ Distinct(pools'[c].conns)
        /\ Elements(pools'[c].conns) = Connections(c)
    BY <1>1, <1>2, Filled DEF BuildInv
  <2>2. lost' = {} /\ \A d \in Clients : held'[d] = {}
    BY <1>2 DEF NoneYet
  <2>3. UNION {held'[d] : d \in Clients} = {}
    BY <2>2
  <2>4. Idle(c)' = Connections(c)
    BY <2>1 DEF Idle, Elements
  <2>5. Accounted(c)'
    BY <1>1, <2>1, <2>2, <2>3, <2>4 DEF Accounted, Distinct, Connections
  <2> QED BY <1>2, <2>5 DEF PoolConserved, Accounted, Idle, Connections
<1> QED BY <1>3, <1>4, <1>7, <1>8, <1>9, <1>10

-----------------------------------------------------------------------------
(* The connections that clients have                                       *)

InUse(h) == UNION {h[d] : d \in Clients}

(* What a client with no connection takes is all that is added.            *)
LEMMA Taken ==
  ASSUME NEW T, NEW h \in [Clients -> T], NEW c \in Clients, h[c] = {}, NEW x
  PROVE  InUse([h EXCEPT ![c] = {x}]) = InUse(h) \union {x}
<1> DEFINE g == [h EXCEPT ![c] = {x}]
<1>1. g[c] = {x} /\ \A d \in Clients \ {c} : g[d] = h[d]
  OBVIOUS
<1>2. ASSUME NEW y PROVE y \in InUse(g) <=> y \in InUse(h) \union {x}
  <2> HIDE DEF g
  <2>1. y \in InUse(g) <=> \E d \in Clients : y \in g[d]
    BY DEF InUse
  <2>2. y \in InUse(h) <=> \E d \in Clients : y \in h[d]
    BY DEF InUse
  <2> QED BY <1>1, <2>1, <2>2
<1> QED BY <1>2

(* What a client gives back or loses is all that is taken away.            *)
LEMMA GivenBack ==
  ASSUME NEW T, NEW h \in [Clients -> T], NEW c \in Clients,
         \A d \in Clients \ {c} : h[d] \intersect h[c] = {}
  PROVE  InUse([h EXCEPT ![c] = {}]) = InUse(h) \ h[c]
<1> DEFINE g == [h EXCEPT ![c] = {}]
<1>1. g[c] = {} /\ \A d \in Clients \ {c} : g[d] = h[d]
  OBVIOUS
<1>2. ASSUME NEW y PROVE y \in InUse(g) <=> y \in InUse(h) \ h[c]
  <2> HIDE DEF g
  <2>1. y \in InUse(g) <=> \E d \in Clients : y \in g[d]
    BY DEF InUse
  <2>2. y \in InUse(h) <=> \E d \in Clients : y \in h[d]
    BY DEF InUse
  <2> QED BY <1>1, <2>1, <2>2
<1> QED BY <1>2

(* A client that has the pointer has the pool that is published.           *)
LEMMA PtrFacts ==
  ASSUME PInv, NEW c \in Clients, cpc[c] \in {"have", "busy"}
  PROVE  /\ ptr[c] = instance /\ instance \in Clients /\ instance # NoClient
         /\ Accounted(instance)
         /\ pools[instance].conns \in Seq(Clients \X (1..PoolSize))
         /\ pools[instance].free = Len(pools[instance].conns)
         /\ Distinct(pools[instance].conns)
         /\ Idle(instance) = Elements(pools[instance].conns)
         /\ Connections(instance) \subseteq Clients \X (1..PoolSize)
<1>1. ptr[c] = instance /\ instance \in Clients /\ instance # NoClient
  BY PoolAssumption DEF PInv, PTypeOK, PtrInv, NoneYet
<1>2. Accounted(instance)
  BY <1>1 DEF PInv, PoolConserved
<1>3. pools[instance].conns \in Seq(Clients \X (1..PoolSize))
  BY <1>1 DEF PInv, PTypeOK
<1>4. pools[instance].free = Len(pools[instance].conns) /\ Distinct(pools[instance].conns)
  BY <1>2 DEF Accounted, Distinct
<1>5. Idle(instance) = Elements(pools[instance].conns)
  BY DEF Idle, Elements
<1>6. Connections(instance) \subseteq Clients \X (1..PoolSize)
  BY <1>1 DEF Connections
<1> QED BY <1>1, <1>2, <1>3, <1>4, <1>5, <1>6

(* The books, said of any stack of idle connections and any holdings.      *)
Books(c, s, n, h, l) ==
  /\ n = Len(s) /\ Distinct(s)
  /\ Elements(s) \union l \union InUse(h) = Connections(c)
  /\ \A d \in Clients :
       /\ h[d] \intersect (Elements(s) \union l) = {}
       /\ \A e \in Clients \ {d} : h[d] \intersect h[e] = {}
  /\ Elements(s) \intersect l = {}

LEMMA AccountedIsBooks ==
  ASSUME NEW c \in Clients
  PROVE  Accounted(c) <=> Books(c, pools[c].conns, pools[c].free, held, lost)
BY DEF Accounted, Books, Distinct, Elements, Idle, InUse

LEMMA BooksHold ==
  ASSUME NEW c \in Clients, instance' = c,
         Books(c, pools'[c].conns, pools'[c].free, held', lost')
  PROVE  PoolConserved'
<1>1. Books(instance', pools'[instance'].conns, pools'[instance'].free, held', lost')
  OBVIOUS
<1>2. Accounted(instance)' <=>
        Books(instance', pools'[instance'].conns, pools'[instance'].free, held', lost')
  BY DEF Accounted, Books, Distinct, Elements, Idle, InUse, Connections
<1> QED BY <1>1, <1>2 DEF PoolConserved

(* getConnection moves one connection from the stack to its caller.        *)
LEMMA GetInv ==
  ASSUME PInv, NEW c \in Clients, GetConnection(c)
  PROVE  PInv'
<1> USE PoolAssumption DEF Goto
<1>1. cpc[c] = "have" /\ cpc' = [cpc EXCEPT ![c] = "busy"]
  BY DEF GetConnection
<1>p. PICK p \in Clients : p = instance
  BY <1>1, PtrFacts
<1> DEFINE s == pools[p].conns
           x == s[Len(s)]
<1>2. /\ ptr[c] = p /\ instance = p /\ p # NoClient
      /\ s \in Seq(Clients \X (1..PoolSize)) /\ Distinct(s)
      /\ Books(p, s, pools[p].free, held, lost)
  BY <1>1, <1>p, PtrFacts, AccountedIsBooks
<1>3. /\ s # <<>>
      /\ held' = [held EXCEPT ![c] = {x}]
      /\ pools' = [pools EXCEPT ![p] = [conns |-> ButLast(s), free |-> pools[p].free - 1]]
      /\ UNCHANGED <<instance, imutex, ptr, lost, exited>>
  BY <1>2 DEF GetConnection
<1>4. /\ ButLast(s) \in Seq(Clients \X (1..PoolSize)) /\ Distinct(ButLast(s))
      /\ Len(s) \in Nat \ {0} /\ Len(ButLast(s)) = Len(s) - 1
      /\ x \in Clients \X (1..PoolSize) /\ x \in Elements(s)
      /\ Elements(ButLast(s)) = Elements(s) \ {x}
  BY <1>2, <1>3, Popped
<1>5. pools[p].free = Len(s)
  BY <1>2 DEF Books
<1>6. PTypeOK'
  <2>1. [conns |-> ButLast(s), free |-> pools[p].free - 1]
          \in [conns : Seq(Clients \X (1..PoolSize)), free : Nat]
    BY <1>4, <1>5
  <2>2. pools' \in [Clients -> [conns : Seq(Clients \X (1..PoolSize)), free : Nat]]
    BY <1>3, <2>1 DEF PInv, PTypeOK
  <2>3. held' \in [Clients -> SUBSET (Clients \X (1..PoolSize))]
    BY <1>3, <1>4 DEF PInv, PTypeOK
  <2> QED BY <1>1, <1>3, <2>2, <2>3 DEF PInv, PTypeOK
<1>7. held[c] = {}
  BY <1>1 DEF PInv, HeldInv
<1>8. Books(p, pools'[p].conns, pools'[p].free, held', lost')
  <2>1. /\ pools'[p].conns = ButLast(s) /\ pools'[p].free = pools[p].free - 1
        /\ lost' = lost
    BY <1>2, <1>3 DEF PInv, PTypeOK
  <2>2. InUse(held') = InUse(held) \union {x}
    BY <1>3, <1>7, Taken DEF PInv, PTypeOK
  <2>3. held'[c] = {x} /\ \A d \in Clients \ {c} : held'[d] = held[d]
    BY <1>3 DEF PInv, PTypeOK
  <2>4. \A d \in Clients : x \notin held[d]
    BY <1>2, <1>4 DEF Books
  <2> HIDE DEF s, x
  <2>5. Elements(ButLast(s)) \union lost \union InUse(held') = Connections(p)
    BY <1>2, <1>4, <2>2 DEF Books
  <2>6. \A d \in Clients : held'[d] \intersect (Elements(ButLast(s)) \union lost) = {}
    <3>1. {x} \intersect (Elements(ButLast(s)) \union lost) = {}
      BY <1>2, <1>4 DEF Books
    <3>2. \A d \in Clients : held[d] \intersect (Elements(ButLast(s)) \union lost) = {}
      BY <1>2, <1>4 DEF Books
    <3> QED BY <2>3, <3>1, <3>2
  <2>7. \A d \in Clients : \A e \in Clients \ {d} : held'[d] \intersect held'[e] = {}
    BY <1>2, <2>3, <2>4 DEF Books
  <2>8. Elements(ButLast(s)) \intersect lost = {}
    BY <1>2, <1>4 DEF Books
  <2> QED BY <1>4, <1>5, <2>1, <2>5, <2>6, <2>7, <2>8 DEF Books
<1>9. PoolConserved'
  <2>1. instance' = p
    BY <1>2, <1>3
  <2> HIDE DEF s, x
  <2> QED BY <1>8, <2>1, BooksHold
<1>10. LockInv' /\ BuildInv'
  BY <1>1, <1>2, <1>3 DEF PInv, PTypeOK, LockInv, BuildInv, OnlyOne
<1>11. NoneYet' /\ OnlyOne'
  BY <1>1, <1>2, <1>3 DEF PInv, PTypeOK, NoneYet, OnlyOne
<1>12. PtrInv'
  BY <1>1, <1>2, <1>3 DEF PInv, PTypeOK, PtrInv
<1>13. HeldInv'
  <2>1. x \in Connections(p)
    BY <1>2, <1>4 DEF Books
  <2> HIDE DEF s, x
  <2> QED BY <1>1, <1>2, <1>3, <2>1 DEF PInv, PTypeOK, HeldInv, Connections
<1> QED BY <1>6, <1>9, <1>10, <1>11, <1>12, <1>13 DEF PInv

(* A client gives its connection back, or an exception loses it.           *)
LEMMA ReturnInv ==
  ASSUME PInv, NEW c \in Clients, ReleaseConnection(c) \/ UseThrows(c)
  PROVE  PInv'
<1> USE PoolAssumption DEF Goto
<1>1. cpc[c] = "busy" /\ cpc' = [cpc EXCEPT ![c] = "start"]
  BY DEF ReleaseConnection, UseThrows
<1>p. PICK p \in Clients : p = instance
  BY <1>1, PtrFacts
<1> DEFINE s == pools[p].conns
<1>2. /\ ptr[c] = p /\ instance = p /\ p # NoClient
      /\ s \in Seq(Clients \X (1..PoolSize)) /\ Distinct(s)
      /\ Books(p, s, pools[p].free, held, lost)
      /\ Connections(p) \subseteq Clients \X (1..PoolSize)
  BY <1>1, <1>p, PtrFacts, AccountedIsBooks
<1>x. PICK x \in Connections(p) : held[c] = {x}
  BY <1>1, <1>2 DEF PInv, HeldInv
<1>3. /\ held' = [held EXCEPT ![c] = {}]
      /\ UNCHANGED <<instance, imutex, ptr, exited>>
  BY DEF ReleaseConnection, UseThrows
<1>4. /\ x \notin Elements(s) /\ x \notin lost
      /\ \A d \in Clients \ {c} : x \notin held[d]
  BY <1>2, <1>x DEF Books
<1>5. held'[c] = {} /\ \A d \in Clients \ {c} : held'[d] = held[d]
  BY <1>3 DEF PInv, PTypeOK
<1>6. InUse(held') = InUse(held) \ {x} /\ x \in InUse(held)
  <2>1. \A d \in Clients \ {c} : held[d] \intersect held[c] = {}
    BY <1>2 DEF Books
  <2>2. InUse(held') = InUse(held) \ held[c]
    BY <1>3, <2>1, GivenBack DEF PInv, PTypeOK
  <2> QED BY <1>x, <2>2 DEF InUse
<1>7. held' \in [Clients -> SUBSET (Clients \X (1..PoolSize))]
  BY <1>3 DEF PInv, PTypeOK
<1>8. LockInv' /\ BuildInv'
  BY <1>1, <1>2, <1>3 DEF PInv, PTypeOK, LockInv, BuildInv, OnlyOne
<1>9. PtrInv'
  BY <1>1, <1>2, <1>3 DEF PInv, PTypeOK, PtrInv
<1>10. HeldInv'
  BY <1>1, <1>2, <1>3, <1>5 DEF PInv, PTypeOK, HeldInv, Connections
<1>11. NoneYet'
  BY <1>2, <1>3 DEF NoneYet
<1>12. CASE ReleaseConnection(c)
  <2>1. /\ pools' = [pools EXCEPT ![p] = [conns |-> Append(s, x), free |-> pools[p].free + 1]]
        /\ lost' = lost
    BY <1>2, <1>x, <1>12 DEF ReleaseConnection
  <2>2. /\ Append(s, x) \in Seq(Clients \X (1..PoolSize)) /\ Distinct(Append(s, x))
        /\ Len(s) \in Nat /\ Len(Append(s, x)) = Len(s) + 1
        /\ Elements(Append(s, x)) = Elements(s) \union {x}
    BY <1>2, <1>4, Pushed
  <2>3. pools[p].free = Len(s)
    BY <1>2 DEF Books
  <2>4. [conns |-> Append(s, x), free |-> pools[p].free + 1]
          \in [conns : Seq(Clients \X (1..PoolSize)), free : Nat]
    BY <2>2, <2>3
  <2>5. PTypeOK'
    <3>1. pools' \in [Clients -> [conns : Seq(Clients \X (1..PoolSize)), free : Nat]]
      BY <2>1, <2>4 DEF PInv, PTypeOK
    <3> QED BY <1>1, <1>3, <1>7, <2>1, <3>1 DEF PInv, PTypeOK
  <2>6. OnlyOne'
    BY <1>1, <1>2, <1>3, <2>1 DEF PInv, PTypeOK, OnlyOne
  <2>7. pools'[p].conns = Append(s, x) /\ pools'[p].free = Len(s) + 1
    BY <2>1, <2>3 DEF PInv, PTypeOK
  <2> HIDE DEF s
  <2>8. Elements(Append(s, x)) \union lost \union InUse(held') = Connections(p)
    BY <1>2, <1>6, <2>2 DEF Books
  <2>9. /\ \A d \in Clients : held'[d] \intersect (Elements(Append(s, x)) \union lost) = {}
        /\ Elements(Append(s, x)) \intersect lost = {}
    BY <1>2, <1>4, <1>5, <2>2 DEF Books
  <2>10. \A d \in Clients : \A e \in Clients \ {d} : held'[d] \intersect held'[e] = {}
    BY <1>2, <1>5 DEF Books
  <2>11. Books(p, pools'[p].conns, pools'[p].free, held', lost')
    BY <2>1, <2>2, <2>7, <2>8, <2>9, <2>10 DEF Books
  <2>12. PoolConserved'
    BY <1>2, <1>3, <2>11, BooksHold
  <2> QED BY <1>8, <1>9, <1>10, <1>11, <2>5, <2>6, <2>12 DEF PInv
<1>13. CASE UseThrows(c)
  <2>1. pools' = pools /\ lost' = lost \union {x}
    BY <1>x, <1>13 DEF UseThrows
  <2>2. PTypeOK'
    <3> HIDE DEF s
    <3>1. lost' \subseteq Clients \X (1..PoolSize)
      BY <1>2, <2>1 DEF PInv, PTypeOK
    <3>2. cpc' \in [Clients -> {"start", "lock", "look", "build", "unlock", "get",
                               "have", "busy", "ended"}]
      BY <1>1 DEF PInv, PTypeOK
    <3> QED BY <1>3, <1>7, <2>1, <3>1, <3>2 DEF PInv, PTypeOK
  <2>3. OnlyOne'
    BY <1>1, <1>2, <1>3, <2>1 DEF PInv, PTypeOK, OnlyOne
  <2> HIDE DEF s
  <2>4. Elements(s) \union lost' \union InUse(held') = Connections(p)
    BY <1>2, <1>6, <2>1 DEF Books
  <2>5. /\ \A d \in Clients : held'[d] \intersect (Elements(s) \union lost') = {}
        /\ Elements(s) \intersect lost' = {}
    BY <1>2, <1>4, <1>5, <2>1 DEF Books
  <2>6. \A d \in Clients : \A e \in Clients \ {d} : held'[d] \intersect held'[e] = {}
    BY <1>2, <1>5 DEF Books
  <2>7. Books(p, s, pools[p].free, held', lost')
    BY <1>2, <2>4, <2>5, <2>6 DEF Books
  <2>8. Books(p, pools'[p].conns, pools'[p].free, held', lost')
    BY <2>1, <2>7 DEF s
  <2>9. PoolConserved'
    BY <1>2, <1>3, <2>8, BooksHold
  <2> QED BY <1>8, <1>9, <1>10, <1>11, <2>2, <2>3, <2>9 DEF PInv
<1> QED BY <1>12, <1>13

(* Every step of every client preserves the invariant.                     *)
LEMMA PNextInv == PInv /\ [PNext]_pvars => PInv'
<1> SUFFICES ASSUME PInv, [PNext]_pvars PROVE PInv'
  OBVIOUS
<1>1. ASSUME NEW c \in Clients, Creating(c) PROVE PInv'
  BY <1>1, MoveInv, ConnectInv, PublishInv DEF Creating
<1>2. ASSUME NEW c \in Clients, Using(c) PROVE PInv'
  BY <1>2, MoveInv, GetInv, ReturnInv DEF Using
<1>3. CASE UNCHANGED pvars
  <2>1. PTypeOK' /\ LockInv' /\ BuildInv' /\ NoneYet' /\ OnlyOne' /\ PtrInv'
    BY <1>3 DEF pvars, PInv, PTypeOK, LockInv, BuildInv, NoneYet, OnlyOne, PtrInv
  <2>2. HeldInv' /\ PoolConserved'
    BY <1>3, BooksKept DEF pvars, PInv, HeldInv, Connections
  <2> QED BY <2>1, <2>2 DEF PInv
<1> QED BY <1>1, <1>2, <1>3 DEF PNext

-----------------------------------------------------------------------------
(* For any number of clients that race for the first call of getInstance,  *)
(* a client that has a pool has the one pool there is.                     *)
THEOREM OnePool == PSpec => []OneInstance
<1>1. PInv => OneInstance
  BY PoolAssumption DEF PInv, PTypeOK, NoneYet, OnlyOne, PtrInv, OneInstance
<1> QED BY PInitInv, PNextInv, <1>1, PTL DEF PSpec

(* For any pool size no connection is lent twice, none disappears except   *)
(* with a client that failed, and freeConnections is exact.                *)
THEOREM ConnectionsAccounted == PSpec => []PoolConserved
<1>1. PInv => PoolConserved
  BY DEF PInv
<1> QED BY PInitInv, PNextInv, <1>1, PTL DEF PSpec

-----------------------------------------------------------------------------
(* The monotonic stack.                                                    *)

Pushes == [val : Values, gone : BOOLEAN]

StackTypeOK ==
  /\ order \in {"less", "greater"}
  /\ stack \in Seq(Values)
  /\ pushed \in Seq(Pushes)

SInv == StackTypeOK /\ StackSound

(* Of numbers there is a least.                                            *)
LEMMA LeastIn ==
  ASSUME NEW T, T \subseteq Nat, T # {}
  PROVE  \E n \in T : \A m \in T : n <= m
<1> DEFINE R == OpToRel(<, Nat)
<1>1. IsWellFoundedOn(R, Nat)
  BY NatLessThanWellFounded
<1> HIDE DEF R
<1>2. PICK n \in T : \A m \in T : ~(<<m, n>> \in R)
  BY <1>1, WFMin
<1>3. ASSUME NEW m \in T PROVE n <= m
  <2>1. <<m, n>> \notin R /\ m \in Nat /\ n \in Nat
    BY <1>2
  <2>2. ~(m < n)
    BY <2>1 DEF R, OpToRel
  <2> QED BY <2>1, <2>2
<1> QED BY <1>3

(* The loop of push ends, and leaves what Kept says.                       *)
LEMMA KeptFacts ==
  ASSUME NEW s \in Seq(Values), NEW v \in Values
  PROVE  /\ Kept(s, v) \in 0..Len(s)
         /\ Kept(s, v) = 0 \/ ~Comp(v, s[Kept(s, v)])
         /\ \A i \in (Kept(s, v) + 1)..Len(s) : Comp(v, s[i])
<1> DEFINE T == {n \in 0..Len(s) : \A i \in (n + 1)..Len(s) : Comp(v, s[i])}
<1> HIDE DEF Comp
<1>1. Len(s) \in T /\ T \subseteq Nat
  OBVIOUS
<1>2. PICK k \in T : \A m \in T : k <= m
  BY <1>1, LeastIn
<1>3. k = 0 \/ ~Comp(v, s[k])
  <2> SUFFICES ASSUME k # 0, Comp(v, s[k]) PROVE FALSE
    OBVIOUS
  <2>1. k \in Nat /\ k - 1 \in 0..Len(s) /\ ~(k <= k - 1)
    BY <1>2
  <2>2. \A i \in k..Len(s) : i = k \/ i \in (k + 1)..Len(s)
    BY <2>1
  <2>3. k - 1 + 1 = k
    BY <2>1
  <2>4. k - 1 \in T
    BY <1>2, <2>1, <2>2, <2>3
  <2> QED BY <1>2, <2>1, <2>4
<1>4. \E n \in 0..Len(s) : /\ n = 0 \/ ~Comp(v, s[n])
                           /\ \A i \in (n + 1)..Len(s) : Comp(v, s[i])
  BY <1>2, <1>3
<1> QED BY <1>4 DEF Kept

(* What compares before what: a value that does not compare before one on  *)
(* the stack does not compare before those below it.                       *)
LEMMA CompTransitive ==
  ASSUME order \in {"less", "greater"}, NEW a \in Values, NEW b \in Values, NEW c \in Values,
         ~Comp(b, a), ~Comp(c, b)
  PROVE  ~Comp(c, a)
BY StackAssumption DEF Comp

(* Nothing on the stack compares before what is below it.                  *)
LEMMA Ordered ==
  ASSUME SInv, NEW i \in DOMAIN stack, NEW j \in DOMAIN stack, i < j
  PROVE  ~Comp(stack[j], stack[i])
<1> HIDE DEF Comp
<1>1. PICK places \in [DOMAIN stack -> OnStack] :
        /\ \A x, y \in DOMAIN stack : x < y => places[x] < places[y]
        /\ \A x \in DOMAIN stack : stack[x] = pushed[places[x]].val
  BY DEF SInv, StackSound
<1>2. places[i] \in OnStack /\ places[j] \in OnStack /\ places[i] < places[j]
  BY <1>1
<1>3. places[j] \in DOMAIN pushed /\ places[j] > places[i]
  BY <1>2 DEF OnStack, SInv, StackTypeOK
<1>4. ~Comp(pushed[places[j]].val, pushed[places[i]].val)
  BY <1>2, <1>3 DEF OnStack
<1> QED BY <1>1, <1>4

LEMMA StackInitInv == StackInit => SInv
<1> SUFFICES ASSUME StackInit PROVE SInv
  OBVIOUS
<1>1. StackTypeOK
  BY DEF StackInit, StackTypeOK
<1>2. DOMAIN stack = {} /\ DOMAIN pushed = {}
  BY DEF StackInit
<1>3. OnStack = {}
  BY <1>2 DEF OnStack
<1> DEFINE places == [i \in DOMAIN stack |-> 0]
<1>4. places \in [DOMAIN stack -> OnStack]
  BY <1>2
<1>5. StackSound
  BY <1>2, <1>3, <1>4 DEF StackSound
<1> QED BY <1>1, <1>5 DEF SInv

(* A push takes off what the new value compares before: what is left of    *)
(* the earlier pushes, in the same order, and the new one on top.          *)
LEMMA StackPushInv == SInv /\ StackPush => SInv'
<1> SUFFICES ASSUME SInv, StackPush PROVE SInv'
  OBVIOUS
<1> HIDE DEF Comp
<1>1. PICK v \in Values : /\ stack' = Push(stack, v)
                          /\ pushed' = Append(pushed, [val |-> v, gone |-> FALSE])
  BY DEF StackPush
<1> DEFINE k == Kept(stack, v)
           n == Len(pushed)
<1>2. /\ order' = order /\ order \in {"less", "greater"} /\ n \in Nat
      /\ stack \in Seq(Values) /\ pushed \in Seq(Pushes)
      /\ DOMAIN stack = 1..Len(stack) /\ DOMAIN pushed = 1..n
  BY DEF SInv, StackTypeOK, StackPush
<1>3. /\ k \in 0..Len(stack)
      /\ k = 0 \/ ~Comp(v, stack[k])
      /\ \A i \in (k + 1)..Len(stack) : Comp(v, stack[i])
  BY <1>2, KeptFacts
<1> HIDE DEF k
<1>4. /\ stack' \in Seq(Values) /\ DOMAIN stack' = 1..(k + 1)
      /\ \A i \in 1..k : stack'[i] = stack[i]
      /\ stack'[k + 1] = v
  <2>1. stack' = Append(SubSeq(stack, 1, k), v)
    BY <1>1 DEF Push, k
  <2> QED BY <1>2, <1>3, <2>1
<1>5. /\ pushed' \in Seq(Pushes) /\ DOMAIN pushed' = 1..(n + 1)
      /\ \A i \in 1..n : pushed'[i] = pushed[i]
      /\ pushed'[n + 1] = [val |-> v, gone |-> FALSE]
  BY <1>1, <1>2 DEF Pushes
<1>6. \A i \in 1..k : i \in DOMAIN stack
  BY <1>2, <1>3
<1>c. \A a, b : Comp(a, b)' <=> Comp(a, b)
  BY <1>2 DEF Comp
<1>7. /\ OnStack' \subseteq 1..(n + 1) /\ OnStack \subseteq 1..n
      /\ n + 1 \in OnStack'
      /\ \A p \in 1..n : p \in OnStack' <=> p \in OnStack /\ ~Comp(v, pushed[p].val)
  <2>1. \A p \in 1..(n + 1) :
          p \in OnStack' <=> /\ ~pushed'[p].gone
                             /\ \A j \in 1..(n + 1) :
                                  j > p => ~Comp(pushed'[j].val, pushed'[p].val)
    BY <1>5, <1>2 DEF OnStack, Comp
  <2>2. \A p \in 1..n :
          p \in OnStack <=> /\ ~pushed[p].gone
                            /\ \A j \in 1..n : j > p => ~Comp(pushed[j].val, pushed[p].val)
    BY <1>2 DEF OnStack
  <2>3. OnStack' \subseteq 1..(n + 1) /\ OnStack \subseteq 1..n
    BY <1>2, <1>5 DEF OnStack
  <2>4. n + 1 \in OnStack'
    <3>1. n + 1 \in 1..(n + 1) /\ \A j \in 1..(n + 1) : ~(j > n + 1)
      BY <1>2
    <3> QED BY <1>5, <2>1, <3>1
  <2>5. ASSUME NEW p \in 1..n
        PROVE  p \in OnStack' <=> p \in OnStack /\ ~Comp(v, pushed[p].val)
    <3>1. p \in 1..(n + 1) /\ n + 1 \in 1..(n + 1) /\ n + 1 > p
      BY <1>2
    <3>2. \A j \in 1..(n + 1) : j \in 1..n \/ j = n + 1
      BY <1>2
    <3>3. \A j \in 1..n : j \in 1..(n + 1)
      BY <1>2
    <3>4. /\ pushed'[p] = pushed[p] /\ pushed'[n + 1].val = v
          /\ \A j \in 1..n : pushed'[j] = pushed[j]
      BY <1>5
    <3>5. ASSUME p \in OnStack' PROVE p \in OnStack /\ ~Comp(v, pushed[p].val)
      BY <3>5, <2>1, <2>2, <3>1, <3>3, <3>4
    <3>6. ASSUME p \in OnStack, ~Comp(v, pushed[p].val) PROVE p \in OnStack'
      BY <3>6, <2>1, <2>2, <3>1, <3>2, <3>4
    <3> QED BY <3>5, <3>6
  <2> QED BY <2>3, <2>4, <2>5
<1>8. PICK places \in [DOMAIN stack -> OnStack] :
        /\ \A i, j \in DOMAIN stack : i < j => places[i] < places[j]
        /\ \A p \in OnStack : \E i \in DOMAIN stack : places[i] = p
        /\ \A i \in DOMAIN stack : stack[i] = pushed[places[i]].val
  BY DEF SInv, StackSound
<1>9. ASSUME NEW i \in 1..k PROVE ~Comp(v, stack[i])
  <2>1. k \in DOMAIN stack /\ ~Comp(v, stack[k]) /\ i \in DOMAIN stack
    BY <1>2, <1>3
  <2>2. CASE i = k
    BY <2>1, <2>2
  <2>3. CASE i < k
    <3>1. ~Comp(stack[k], stack[i])
      BY <2>1, <2>3, Ordered
    <3>2. stack[i] \in Values /\ stack[k] \in Values
      BY <1>2, <2>1
    <3> QED BY <1>2, <2>1, <3>1, <3>2, CompTransitive
  <2> QED BY <1>3, <2>2, <2>3
<1> DEFINE new == [i \in 1..(k + 1) |-> IF i \in 1..k THEN places[i] ELSE n + 1]
<1>10. \A i \in 1..k : new[i] = places[i] /\ places[i] \in OnStack /\ places[i] \in OnStack' /\ places[i] \in 1..n
  <2>1. ASSUME NEW i \in 1..k
        PROVE  new[i] = places[i] /\ places[i] \in OnStack /\ places[i] \in OnStack' /\ places[i] \in 1..n
    <3>1. i \in 1..(k + 1) /\ i \in DOMAIN stack
      BY <1>3, <1>6
    <3>2. new[i] = places[i]
      BY <3>1
    <3>3. places[i] \in OnStack /\ places[i] \in 1..n /\ stack[i] = pushed[places[i]].val
      BY <1>7, <1>8, <3>1
    <3> QED BY <1>7, <1>9, <3>2, <3>3
  <2> QED BY <2>1
<1>11. new[k + 1] = n + 1
  BY <1>3
<1>12. \A i \in 1..(k + 1) : i \in 1..k \/ i = k + 1
  BY <1>3
<1> HIDE DEF new
<1>13. new \in [1..(k + 1) -> OnStack']
  <2>1. \A i \in 1..(k + 1) : new[i] \in OnStack'
    BY <1>7, <1>10, <1>11, <1>12
  <2> QED BY <2>1 DEF new
<1>14. ASSUME NEW i \in 1..(k + 1), NEW j \in 1..(k + 1), i < j PROVE new[i] < new[j]
  <2>1. i \in 1..k
    BY <1>3, <1>14
  <2>2. CASE j \in 1..k
    BY <1>6, <1>8, <1>10, <1>14, <2>1, <2>2
  <2>3. CASE j = k + 1
    BY <1>2, <1>10, <1>11, <2>1, <2>3
  <2> QED BY <1>12, <2>2, <2>3
<1>15. ASSUME NEW p \in OnStack' PROVE \E i \in 1..(k + 1) : new[i] = p
  <2>0. k + 1 \in 1..(k + 1) /\ \A i \in 1..k : i \in 1..(k + 1)
    BY <1>3
  <2>1. CASE p = n + 1
    BY <1>11, <2>0, <2>1
  <2>2. CASE p \in 1..n
    <3>1. p \in OnStack /\ ~Comp(v, pushed[p].val)
      BY <1>7, <2>2
    <3>2. PICK i \in DOMAIN stack : places[i] = p
      BY <1>8, <3>1
    <3>3. i \notin (k + 1)..Len(stack)
      BY <1>3, <1>8, <3>1, <3>2
    <3>4. i \in 1..k
      BY <1>2, <1>3, <3>3
    <3> QED BY <1>10, <2>0, <3>2, <3>4
  <2> QED BY <1>2, <1>7, <2>1, <2>2
<1>16. ASSUME NEW i \in 1..(k + 1) PROVE stack'[i] = pushed'[new[i]].val
  <2>1. CASE i \in 1..k
    BY <1>4, <1>5, <1>6, <1>8, <1>10, <2>1
  <2>2. CASE i = k + 1
    BY <1>4, <1>5, <1>11, <2>2
  <2> QED BY <1>12, <2>1, <2>2
<1>17. StackSound'
  <2>1. /\ new \in [DOMAIN stack' -> OnStack']
        /\ \A i, j \in DOMAIN stack' : i < j => new[i] < new[j]
        /\ \A p \in OnStack' : \E i \in DOMAIN stack' : new[i] = p
        /\ \A i \in DOMAIN stack' : stack'[i] = pushed'[new[i]].val
    BY <1>4, <1>13, <1>14, <1>15, <1>16
  <2> HIDE DEF new
  <2> QED BY <2>1 DEF StackSound
<1>18. StackTypeOK'
  BY <1>2, <1>4, <1>5 DEF StackTypeOK
<1> QED BY <1>17, <1>18 DEF SInv

(* A pop takes off the top, which is the latest push still there.          *)
LEMMA StackPopInv == SInv /\ StackPop => SInv'
<1> SUFFICES ASSUME SInv, StackPop PROVE SInv'
  OBVIOUS
<1> HIDE DEF Comp
<1> DEFINE k == Len(stack) - 1
           n == Len(pushed)
<1>1. PICK m \in OnStack : /\ \A j \in OnStack : j <= m
                           /\ pushed' = [pushed EXCEPT ![m].gone = TRUE]
  BY DEF StackPop
<1>2. /\ order' = order /\ order \in {"less", "greater"} /\ n \in Nat
      /\ stack \in Seq(Values) /\ pushed \in Seq(Pushes)
      /\ DOMAIN stack = 1..Len(stack) /\ DOMAIN pushed = 1..n /\ stack # <<>>
  BY DEF SInv, StackTypeOK, StackPop
<1>3. k \in Nat /\ Len(stack) = k + 1
  BY <1>2
<1>4. /\ stack' \in Seq(Values) /\ DOMAIN stack' = 1..k
      /\ \A i \in 1..k : stack'[i] = stack[i] /\ i \in 1..(k + 1)
  BY <1>2, <1>3 DEF StackPop, Pop
<1>5. OnStack \subseteq 1..n
  BY <1>2 DEF OnStack
<1>6. /\ pushed' \in Seq(Pushes) /\ DOMAIN pushed' = 1..n
      /\ \A i \in 1..n : pushed'[i].val = pushed[i].val
      /\ pushed'[m].gone /\ \A i \in 1..n : i # m => pushed'[i].gone = pushed[i].gone
  <2>1. m \in 1..n
    BY <1>1, <1>5
  <2>2. pushed[m] \in Pushes
    BY <1>2, <2>1
  <2>3. pushed' = [pushed EXCEPT ![m] = [pushed[m] EXCEPT !.gone = TRUE]]
    BY <1>1
  <2>4. [pushed[m] EXCEPT !.gone = TRUE] \in Pushes
    BY <2>2 DEF Pushes
  <2>5. pushed' \in Seq(Pushes) /\ DOMAIN pushed' = 1..n
    BY <1>2, <2>1, <2>3, <2>4
  <2>6. \A i \in 1..n : pushed'[i] = IF i = m THEN [pushed[m] EXCEPT !.gone = TRUE] ELSE pushed[i]
    BY <1>2, <2>1, <2>3
  <2> QED BY <2>1, <2>2, <2>5, <2>6 DEF Pushes
<1>7. OnStack' = OnStack \ {m}
  <2>1. \A p \in 1..n :
          p \in OnStack' <=> /\ ~pushed'[p].gone
                             /\ \A j \in 1..n : j > p => ~Comp(pushed'[j].val, pushed'[p].val)
    BY <1>6, <1>2 DEF OnStack, Comp
  <2>2. \A p \in 1..n :
          p \in OnStack <=> /\ ~pushed[p].gone
                            /\ \A j \in 1..n : j > p => ~Comp(pushed[j].val, pushed[p].val)
    BY <1>2 DEF OnStack
  <2>3. OnStack' \subseteq 1..n
    BY <1>6 DEF OnStack
  <2>4. \A p \in 1..n : p \in OnStack' <=> p \in OnStack /\ p # m
    BY <1>6, <2>1, <2>2
  <2> QED BY <1>5, <2>3, <2>4
<1>8. PICK places \in [DOMAIN stack -> OnStack] :
        /\ \A i, j \in DOMAIN stack : i < j => places[i] < places[j]
        /\ \A p \in OnStack : \E i \in DOMAIN stack : places[i] = p
        /\ \A i \in DOMAIN stack : stack[i] = pushed[places[i]].val
  BY DEF SInv, StackSound
<1>9. places[k + 1] = m
  <2>1. PICK i \in 1..(k + 1) : places[i] = m
    BY <1>1, <1>2, <1>3, <1>8
  <2>2. k + 1 \in DOMAIN stack /\ places[k + 1] \in OnStack
    BY <1>2, <1>3, <1>8
  <2>3. places[k + 1] <= m /\ m \in Nat /\ places[k + 1] \in Nat
    BY <1>1, <1>2, <1>5, <2>2
  <2>4. i < k + 1 => m < places[k + 1]
    BY <1>2, <1>3, <1>8, <2>1, <2>2
  <2> QED BY <1>3, <2>1, <2>3, <2>4
<1> DEFINE new == [i \in 1..k |-> places[i]]
<1>10. ASSUME NEW i \in 1..k PROVE places[i] \in OnStack'
  <2>1. i \in DOMAIN stack /\ k + 1 \in DOMAIN stack /\ i < k + 1
    BY <1>2, <1>3
  <2>2. places[i] < m /\ places[i] \in OnStack /\ m \in 1..n /\ places[i] \in 1..n
    BY <1>1, <1>5, <1>8, <1>9, <2>1
  <2> QED BY <1>7, <2>2
<1>11. new \in [1..k -> OnStack']
  BY <1>10
<1>12. ASSUME NEW p \in OnStack' PROVE \E i \in 1..k : new[i] = p
  <2>1. p \in OnStack /\ p # m
    BY <1>7
  <2>2. PICK i \in 1..(k + 1) : places[i] = p
    BY <1>2, <1>3, <1>8, <2>1
  <2>3. i \in 1..k
    BY <1>3, <1>9, <2>1, <2>2
  <2> QED BY <2>2, <2>3
<1>13. \A i, j \in 1..k : i < j => new[i] < new[j]
  BY <1>2, <1>3, <1>4, <1>8
<1>14. ASSUME NEW i \in 1..k PROVE stack'[i] = pushed'[new[i]].val
  <2>1. i \in DOMAIN stack /\ places[i] \in 1..n
    BY <1>2, <1>3, <1>4, <1>5, <1>8
  <2> QED BY <1>4, <1>6, <1>8, <2>1
<1>15. StackSound'
  <2>1. /\ new \in [DOMAIN stack' -> OnStack']
        /\ \A i, j \in DOMAIN stack' : i < j => new[i] < new[j]
        /\ \A p \in OnStack' : \E i \in DOMAIN stack' : new[i] = p
        /\ \A i \in DOMAIN stack' : stack'[i] = pushed'[new[i]].val
    BY <1>4, <1>11, <1>12, <1>13, <1>14
  <2> HIDE DEF new
  <2> QED BY <2>1 DEF StackSound
<1>16. StackTypeOK'
  BY <1>2, <1>4, <1>6 DEF StackTypeOK
<1> QED BY <1>15, <1>16 DEF SInv

(* For any values, either comparison and any number of pushes: the stack   *)
(* is the pushed values that were not popped and that no later one         *)
(* compared before, in the order they came.                                *)
THEOREM StackHolds == StackSpec => []StackSound
<1>1. ASSUME SInv, UNCHANGED svars PROVE SInv'
  <2>1. order' = order /\ stack' = stack /\ pushed' = pushed
    BY <1>1 DEF svars
  <2>2. OnStack' = OnStack
    BY <2>1 DEF OnStack, Comp
  <2>3. StackSound' <=> StackSound
    BY <2>1, <2>2 DEF StackSound
  <2> QED BY <1>1, <2>1, <2>3 DEF SInv, StackTypeOK
<1>2. SInv /\ [StackNext]_svars => SInv'
  BY <1>1, StackPushInv, StackPopInv DEF StackNext
<1>3. SInv => StackSound
  BY DEF SInv
<1> QED BY StackInitInv, <1>2, <1>3, PTL DEF StackSpec

-----------------------------------------------------------------------------
(* The graphs.                                                             *)

(* What the caller built, and where a traversal is.                        *)
GTypeOK ==
  /\ nodeCount \in Nat \ {0} /\ isDirected \in BOOLEAN
  /\ adjMatrix \in [Nodes -> [Nodes -> {0, 1, Inf}]]
  /\ traversal \in {"none", "BFS", "DFS"} /\ gpc \in {"edit", "take", "look", "done"}
  /\ start \in Nodes /\ waiting \in Seq(Nodes) /\ visited \subseteq Nodes
  /\ found \in Seq(Nodes) /\ next \in Int

CallInv ==
  /\ gpc = "edit" <=> traversal = "none"
  /\ gpc = "edit" => waiting = <<>> /\ found = <<>>
  /\ gpc = "look" => found # <<>>
  /\ gpc = "done" => waiting = <<>>

(* Every node of s after the first comes from one before it.               *)
Follows(s) == \A q \in DOMAIN s : q > 1 => \E o \in 1..(q - 1) : ComesFrom(s, q, o)

(* breadth-first search: the nodes found and those waiting, in this order, *)
(* are the ones marked.  Only those that wait, and what the inner loop has *)
(* not come to, have unmarked neighbours.                                  *)
BFSInv == traversal = "BFS" =>
  LET line == found \o waiting IN
  /\ visited = Visited(line) /\ line # <<>> /\ line[1] = start
  /\ Follows(line) /\ (gpc = "look" => next \in Nat)
  /\ \A p \in DOMAIN found : \A v \in Adjacent(found[p]) \ visited :
       gpc = "look" /\ p = Len(found) /\ v >= next

(* depth-first search: from[k] is the place among the nodes found of the   *)
(* one that put the k-th to wait; the latest are on top, with their        *)
(* neighbours in ascending order.                                          *)
StackedBy(from) ==
  /\ \A k \in DOMAIN waiting : waiting[k] \in Adjacent(found[from[k]])
  /\ \A k, l \in DOMAIN waiting : k < l =>
       from[k] > from[l] \/ (from[k] = from[l] /\ waiting[k] < waiting[l])
  /\ \A p \in DOMAIN found : \A v \in Adjacent(found[p]) \ visited :
       \/ gpc = "look" /\ p = Len(found) /\ v <= next
       \/ \E k \in DOMAIN waiting : from[k] = p /\ waiting[k] = v
  /\ gpc = "look" => \A k \in DOMAIN waiting : from[k] = Len(found) => waiting[k] > next

DFSInv == traversal = "DFS" =>
  /\ visited = Visited(found) /\ Follows(found) /\ (gpc = "look" => next < nodeCount)
  /\ IF found = <<>> THEN gpc = "take" /\ waiting = <<start>>
     ELSE found[1] = start /\ \E from \in [DOMAIN waiting -> DOMAIN found] : StackedBy(from)

GInv == GTypeOK /\ CallInv /\ BFSInv /\ DFSInv

-----------------------------------------------------------------------------
LEMMA AppendFacts ==
  ASSUME NEW S, NEW s \in Seq(S), NEW x \in S
  PROVE  /\ Append(s, x) \in Seq(S) /\ Len(s) \in Nat /\ Len(Append(s, x)) = Len(s) + 1
         /\ DOMAIN s = 1..Len(s) /\ DOMAIN Append(s, x) = 1..(Len(s) + 1)
         /\ \A p \in 1..Len(s) : Append(s, x)[p] = s[p]
         /\ Append(s, x)[Len(s) + 1] = x
         /\ Append(s, x) # <<>>
OBVIOUS

LEMMA VisitedAppend ==
  ASSUME NEW S, NEW s \in Seq(S), NEW x \in S
  PROVE  Visited(Append(s, x)) = Visited(s) \union {x}
<1> DEFINE t == Append(s, x)
<1>1. /\ DOMAIN s = 1..Len(s) /\ DOMAIN t = 1..(Len(s) + 1) /\ Len(s) \in Nat
      /\ \A p \in 1..Len(s) : t[p] = s[p]
      /\ t[Len(s) + 1] = x
  BY AppendFacts
<1> HIDE DEF t
<1>2. 1..(Len(s) + 1) = (1..Len(s)) \union {Len(s) + 1}
  BY <1>1
<1>3. Visited(t) = Visited(s) \union {x}
  BY <1>1, <1>2 DEF Visited
<1> QED BY <1>3 DEF t

(* The head of a queue goes to the end of what was found before it.        *)
LEMMA LineTake ==
  ASSUME NEW S, NEW s \in Seq(S), NEW t \in Seq(S), t # <<>>
  PROVE  Append(s, Head(t)) \o Tail(t) = s \o t
OBVIOUS

LEMMA LinePush ==
  ASSUME NEW S, NEW s \in Seq(S), NEW t \in Seq(S), NEW x \in S
  PROVE  s \o Append(t, x) = Append(s \o t, x)
OBVIOUS

LEMMA LineFacts ==
  ASSUME NEW S, NEW s \in Seq(S), NEW t \in Seq(S)
  PROVE  /\ s \o t \in Seq(S) /\ s \o <<>> = s /\ <<>> \o s = s
         /\ Len(s \o t) = Len(s) + Len(t) /\ Len(s) \in Nat /\ Len(t) \in Nat
         /\ DOMAIN s = 1..Len(s) /\ DOMAIN (s \o t) = 1..(Len(s) + Len(t))
         /\ \A p \in 1..Len(s) : (s \o t)[p] = s[p]
OBVIOUS

LEMMA HeadFacts ==
  ASSUME NEW S, NEW t \in Seq(S), t # <<>>
  PROVE  /\ Head(t) \in S /\ Head(t) = t[1] /\ Tail(t) \in Seq(S)
         /\ Len(t) \in Nat \ {0} /\ Len(Tail(t)) = Len(t) - 1
         /\ DOMAIN t = 1..Len(t) /\ DOMAIN Tail(t) = 1..(Len(t) - 1)
         /\ \A k \in 1..(Len(t) - 1) : Tail(t)[k] = t[k + 1]
OBVIOUS

(* A push on a stack.                                                      *)
LEMMA PushFacts ==
  ASSUME NEW S, NEW t \in Seq(S), NEW x \in S
  PROVE  /\ <<x>> \o t \in Seq(S) /\ Len(t) \in Nat /\ DOMAIN t = 1..Len(t)
         /\ DOMAIN (<<x>> \o t) = 1..(Len(t) + 1)
         /\ (<<x>> \o t)[1] = x
         /\ \A k \in 2..(Len(t) + 1) : (<<x>> \o t)[k] = t[k - 1]
OBVIOUS

(* Where a node comes from is settled by the nodes up to it.               *)
LEMMA FollowsAppend ==
  ASSUME NEW S, NEW s \in Seq(S), NEW x \in S, Follows(s),
         s # <<>> => \E o \in 1..Len(s) : ComesFrom(Append(s, x), Len(s) + 1, o)
  PROVE  Follows(Append(s, x))
<1> DEFINE t == Append(s, x)
<1>1. /\ DOMAIN s = 1..Len(s) /\ DOMAIN t = 1..(Len(s) + 1) /\ Len(s) \in Nat
      /\ \A p \in 1..Len(s) : t[p] = s[p]
  BY AppendFacts
<1>2. s # <<>> => \E o \in 1..Len(s) : ComesFrom(t, Len(s) + 1, o)
  OBVIOUS
<1>3. s = <<>> => Len(s) = 0
  OBVIOUS
<1> HIDE DEF t
<1> SUFFICES ASSUME NEW q \in 1..(Len(s) + 1), q > 1
             PROVE  \E o \in 1..(q - 1) : ComesFrom(t, q, o)
  BY <1>1 DEF Follows, t
<1>4. CASE q = Len(s) + 1
  BY <1>1, <1>2, <1>3, <1>4
<1>5. CASE q \in 1..Len(s)
  <2>1. PICK o \in 1..(q - 1) : ComesFrom(s, q, o)
    BY <1>1, <1>5 DEF Follows
  <2>2. /\ t[q] = s[q] /\ t[o] = s[o] /\ \A p \in 1..(q - 1) : t[p] = s[p]
    BY <1>1, <1>5
  <2>3. Before(t, q) = Before(s, q)
    BY <2>2 DEF Before
  <2>4. ComesFrom(t, q, o)
    BY <2>1, <2>2, <2>3 DEF ComesFrom
  <2> QED BY <2>4
<1> QED BY <1>1, <1>4, <1>5

(* What x, put at the end of s, has to be for it to follow.                *)
LEMMA NextComes ==
  ASSUME NEW S, NEW s \in Seq(S), NEW x \in S, NEW o \in 1..Len(s),
         x \in Adjacent(s[o]) \ Visited(s),
         \A v \in Adjacent(s[o]) \ Visited(s) : x <= v,
         \A p \in 1..Len(s) :
           (IF traversal = "BFS" THEN p < o ELSE p > o) => Adjacent(s[p]) \subseteq Visited(s)
  PROVE  ComesFrom(Append(s, x), Len(s) + 1, o)
<1> DEFINE t == Append(s, x)
<1>1. /\ DOMAIN s = 1..Len(s) /\ Len(s) \in Nat /\ t[Len(s) + 1] = x
      /\ \A p \in 1..Len(s) : t[p] = s[p]
  BY AppendFacts
<1>2. (Len(s) + 1) - 1 = Len(s)
  BY <1>1
<1> HIDE DEF t
<1>3. Before(t, Len(s) + 1) = Visited(s)
  BY <1>1, <1>2 DEF Before, Visited
<1>4. ComesFrom(t, Len(s) + 1, o)
  BY <1>1, <1>2, <1>3 DEF ComesFrom
<1> QED BY <1>4 DEF t
-----------------------------------------------------------------------------
LEMMA GInitInv == GraphInit => GInv
<1> SUFFICES ASSUME GraphInit PROVE GInv
  OBVIOUS
<1>1. Nodes = {0}
  BY DEF GraphInit, Nodes
<1>2. GTypeOK
  BY <1>1 DEF GraphInit, GTypeOK
<1>3. CallInv /\ BFSInv /\ DFSInv
  BY DEF GraphInit, CallInv, BFSInv, DFSInv
<1> QED BY <1>2, <1>3 DEF GInv

LEMMA EditInv ==
  ASSUME GInv, AddNode \/ \E u, v \in Nodes : \E weight \in {1, Inf} : SetEdge(u, v, weight)
  PROVE  GInv'
<1>1. GTypeOK /\ gpc = "edit" /\ traversal = "none"
  BY DEF GInv, CallInv, AddNode, SetEdge
<1>2. UNCHANGED <<isDirected, traversal, gpc, start, waiting, visited, found, next>>
  BY DEF AddNode, SetEdge
<1>3. CASE AddNode
  <2>1. nodeCount' = nodeCount + 1 /\ Nodes \subseteq Nodes' /\ Nodes' = 0..nodeCount
    BY <1>1, <1>3 DEF AddNode, Nodes, GTypeOK
  <2>2. waiting = <<>> /\ found = <<>>
    BY <1>1 DEF GInv, CallInv
  <2>3. adjMatrix' \in [Nodes' -> [Nodes' -> {0, 1, Inf}]]
    BY <1>1, <1>3, <2>1 DEF AddNode, GTypeOK
  <2>4. waiting' \in Seq(Nodes') /\ found' \in Seq(Nodes')
    BY <1>2, <2>2
  <2> QED BY <1>1, <1>2, <2>1, <2>3, <2>4 DEF GInv, GTypeOK, CallInv, BFSInv, DFSInv
<1>4. ASSUME NEW u \in Nodes, NEW v \in Nodes, NEW weight \in {1, Inf}, SetEdge(u, v, weight)
      PROVE  GInv'
  <2>1. nodeCount' = nodeCount /\ Nodes' = Nodes
    BY <1>4 DEF SetEdge, Nodes
  <2> DEFINE once == [adjMatrix EXCEPT ![u][v] = weight]
             both == [once EXCEPT ![v][u] = weight]
  <2>2. once \in [Nodes -> [Nodes -> {0, 1, Inf}]]
    BY <1>1, <1>4 DEF GTypeOK
  <2>3. both \in [Nodes -> [Nodes -> {0, 1, Inf}]]
    BY <1>4, <2>2
  <2>4. adjMatrix' \in [Nodes' -> [Nodes' -> {0, 1, Inf}]]
    BY <1>4, <2>1, <2>2, <2>3 DEF SetEdge
  <2> QED BY <1>1, <1>2, <2>1, <2>4 DEF GInv, GTypeOK, CallInv, BFSInv, DFSInv
<1> QED BY <1>3, <1>4

LEMMA TraverseInv == GInv /\ Traverse => GInv'
<1> SUFFICES ASSUME GInv, Traverse PROVE GInv'
  OBVIOUS
<1>1. GTypeOK /\ gpc = "edit" /\ found = <<>> /\ found' = <<>>
  BY DEF GInv, CallInv, Traverse
<1>2. Nodes' = Nodes /\ UNCHANGED <<nodeCount, isDirected, adjMatrix>>
  BY DEF Traverse, matrix, Nodes
<1>3. /\ start' \in Nodes /\ waiting' = <<start'>> /\ gpc' = "take"
      /\ traversal' \in {"BFS", "DFS"} /\ next' = next
      /\ visited' = IF traversal' = "BFS" THEN {start'} ELSE {}
  BY DEF Traverse
<1>4. GTypeOK'
  BY <1>1, <1>2, <1>3 DEF GTypeOK
<1>5. CallInv'
  BY <1>1, <1>3 DEF CallInv
<1>6. BFSInv'
  <2>1. PICK x \in Nodes : start' = x
    BY <1>3
  <2>2. (found \o waiting)' = <<x>>
    BY <1>1, <1>3, <2>1
  <2>3. Visited(<<x>>) = {x}
    BY DEF Visited
  <2>4. Follows(<<x>>)'
    BY DEF Follows
  <2> QED BY <1>1, <1>3, <2>1, <2>2, <2>3, <2>4 DEF BFSInv
<1>7. DFSInv'
  BY <1>1, <1>3 DEF DFSInv, Visited, Follows
<1> QED BY <1>4, <1>5, <1>6, <1>7 DEF GInv

-----------------------------------------------------------------------------
(* In a traversal the graph stays as it is.                                *)
LEMMA SameGraph ==
  ASSUME TraversalStep
  PROVE  /\ UNCHANGED <<nodeCount, isDirected, adjMatrix, traversal, start>>
         /\ Nodes' = Nodes /\ \A u : Adjacent(u)' = Adjacent(u)
         /\ \A s : Follows(s)' <=> Follows(s)
<1>1. UNCHANGED <<nodeCount, isDirected, adjMatrix, traversal, start>>
  BY DEF TraversalStep, matrix
<1>2. Nodes' = Nodes
  BY <1>1 DEF Nodes
<1>3. \A u : Adjacent(u)' = Adjacent(u)
  BY <1>1, <1>2 DEF Adjacent
<1>4. ASSUME NEW s PROVE Follows(s)' <=> Follows(s)
  <2>1. ASSUME NEW q, NEW o PROVE ComesFrom(s, q, o)' <=> ComesFrom(s, q, o)
    BY <1>1, <1>3 DEF ComesFrom, Before
  <2> QED BY <2>1 DEF Follows
<1> QED BY <1>1, <1>2, <1>3, <1>4

LEMMA StepTypes == GInv /\ TraversalStep => GTypeOK' /\ CallInv'
<1> SUFFICES ASSUME GInv, TraversalStep PROVE GTypeOK' /\ CallInv'
  OBVIOUS
<1>1. GTypeOK /\ CallInv
  BY DEF GInv
<1>2. UNCHANGED <<nodeCount, isDirected, adjMatrix, traversal, start>> /\ Nodes' = Nodes
  BY SameGraph
<1>3. SUFFICES /\ gpc' \in {"take", "look", "done"} /\ waiting' \in Seq(Nodes)
               /\ visited' \subseteq Nodes /\ found' \in Seq(Nodes) /\ next' \in Int
               /\ gpc' = "look" => found' # <<>>
               /\ gpc' = "done" => waiting' = <<>>
               /\ traversal # "none"
  BY <1>1, <1>2 DEF GTypeOK, CallInv
<1>4. traversal # "none" /\ Nodes \subseteq Int
  BY <1>1 DEF TraversalStep, Take, Look, CallInv, Nodes
<1>5. CASE Take
  <2>1. CASE waiting = <<>>
    BY <1>1, <1>4, <1>5, <2>1 DEF Take, GTypeOK
  <2>2. CASE waiting # <<>>
    <3>1. Head(waiting) \in Nodes /\ Tail(waiting) \in Seq(Nodes)
      BY <1>1, <2>2, HeadFacts DEF GTypeOK
    <3>2. Append(found, Head(waiting)) \in Seq(Nodes) /\ Append(found, Head(waiting)) # <<>>
      BY <1>1, <3>1, AppendFacts DEF GTypeOK
    <3>3. waiting' = Tail(waiting) /\ gpc' \in {"take", "look"} /\ gpc = "take"
      BY <1>5, <2>2 DEF Take
    <3>4. \/ UNCHANGED <<gpc, visited, found, next>>
          \/ /\ found' = Append(found, Head(waiting)) /\ gpc' = "look"
             /\ visited' = visited \union {Head(waiting)}
             /\ next' = IF traversal = "BFS" THEN 0 ELSE nodeCount - 1
      BY <1>5, <2>2 DEF Take
    <3>5. next' \in Int /\ visited' \subseteq Nodes
      BY <1>1, <3>1, <3>4 DEF GTypeOK
    <3>6. found' \in Seq(Nodes) /\ (gpc' = "look" => found' # <<>>)
      BY <1>1, <3>2, <3>3, <3>4 DEF GTypeOK
    <3> QED BY <1>4, <3>1, <3>3, <3>5, <3>6
  <2> QED BY <2>1, <2>2
<1>6. CASE Look
  <2>1. CASE next \notin Nodes
    BY <1>1, <1>4, <1>6, <2>1 DEF Look, GTypeOK
  <2>2. CASE next \in Nodes
    <3>1. Append(waiting, next) \in Seq(Nodes) /\ <<next>> \o waiting \in Seq(Nodes)
      BY <1>1, <2>2, AppendFacts, PushFacts DEF GTypeOK
    <3>2. /\ gpc = "look" /\ gpc' = "look" /\ found' = found
          /\ next' = IF traversal = "BFS" THEN next + 1 ELSE next - 1
          /\ waiting' \in {waiting, Append(waiting, next), <<next>> \o waiting}
          /\ visited' \in {visited, visited \union {next}}
      BY <1>6, <2>2 DEF Look, Marked
    <3>3. next' \in Int
      BY <1>1, <3>2 DEF GTypeOK
    <3>4. waiting' \in Seq(Nodes) /\ visited' \subseteq Nodes
      BY <1>1, <2>2, <3>1, <3>2 DEF GTypeOK
    <3>5. found # <<>> /\ found \in Seq(Nodes)
      BY <1>1, <3>2 DEF CallInv, GTypeOK
    <3> QED BY <1>4, <3>2, <3>3, <3>4, <3>5
  <2> QED BY <2>1, <2>2
<1> QED BY <1>5, <1>6 DEF TraversalStep
-----------------------------------------------------------------------------
(* Breadth-first search                                                    *)

LEMMA BFSStep ==
  ASSUME GInv, TraversalStep, traversal = "BFS"
  PROVE  BFSInv'
<1> DEFINE line == found \o waiting
<1>1. /\ waiting \in Seq(Nodes) /\ found \in Seq(Nodes) /\ visited \subseteq Nodes
      /\ visited = Visited(line) /\ line # <<>> /\ line[1] = start /\ Follows(line)
      /\ \A p \in DOMAIN found : \A v \in Adjacent(found[p]) \ visited :
           gpc = "look" /\ p = Len(found) /\ v >= next
      /\ (gpc = "look" => found # <<>> /\ next \in Nat)
  BY DEF GInv, GTypeOK, CallInv, BFSInv
<1>2. /\ UNCHANGED <<traversal, start>>
      /\ \A u : Adjacent(u)' = Adjacent(u)
      /\ \A s : Follows(s)' <=> Follows(s)
  BY SameGraph
<1>3. /\ line \in Seq(Nodes) /\ Len(line) = Len(found) + Len(waiting)
      /\ Len(found) \in Nat /\ Len(waiting) \in Nat /\ DOMAIN found = 1..Len(found)
      /\ DOMAIN line = 1..Len(line)
      /\ \A p \in 1..Len(found) : line[p] = found[p]
  BY <1>1, LineFacts
<1>4. CASE Take
  <2>1. CASE waiting = <<>>
    <3>1. UNCHANGED <<found, waiting, visited>> /\ gpc = "take" /\ gpc' = "done"
      BY <1>4, <2>1 DEF Take
    <3> QED BY <1>1, <1>2, <3>1 DEF BFSInv
  <2>2. CASE waiting # <<>>
    <3>1. /\ found' = Append(found, Head(waiting)) /\ waiting' = Tail(waiting)
          /\ visited' = visited \union {Head(waiting)} /\ next' = 0
          /\ gpc = "take" /\ gpc' = "look"
      BY <1>4, <2>2 DEF Take
    <3>2. (found \o waiting)' = line
      BY <1>1, <2>2, <3>1, LineTake
    <3>3. Head(waiting) \in Visited(line)
      <4>1. /\ waiting[1] = Head(waiting) /\ Len(waiting) \in Nat \ {0}
            /\ line[Len(found) + 1] = waiting[1]
        BY <1>1, <2>2
      <4>2. Len(found) + 1 \in DOMAIN line
        BY <1>3, <4>1
      <4> QED BY <4>1, <4>2 DEF Visited
    <3>4. visited' = visited
      BY <1>1, <3>1, <3>3
    <3>5. /\ DOMAIN found' = 1..(Len(found) + 1) /\ Len(found') = Len(found) + 1
          /\ \A p \in 1..Len(found) : found'[p] = found[p]
      BY <1>1, <2>2, <3>1, HeadFacts, AppendFacts
    <3>6. ASSUME NEW p \in DOMAIN found', NEW v \in Adjacent(found[p])' \ visited'
          PROVE  gpc' = "look" /\ p = Len(found') /\ v >= next'
      <4>1. v \in Adjacent(found'[p]) \ visited
        BY <1>2, <3>4, <3>6
      <4>2. p \notin 1..Len(found)
        BY <1>1, <1>3, <3>1, <3>5, <4>1
      <4>3. v \in Nat
        BY <4>1 DEF Adjacent, Nodes
      <4> QED BY <1>3, <3>1, <3>5, <4>2, <4>3
    <3> HIDE DEF line
    <3> QED BY <1>1, <1>2, <3>1, <3>2, <3>4, <3>6 DEF BFSInv
  <2> QED BY <2>1, <2>2
<1>5. CASE Look
  <2>1. /\ found' = found /\ gpc = "look"
        /\ next \notin Nodes => gpc' = "take" /\ UNCHANGED <<waiting, visited>>
        /\ next \in Nodes => gpc' = "look" /\ next' = next + 1
    BY <1>5 DEF Look
  <2> DEFINE curr == found[Len(found)]
  <2>2. Len(found) \in 1..Len(found) /\ curr \in Nodes /\ Len(found) # 0
    BY <1>1, <2>1
  <2>3. CASE next \in Adjacent(curr) \ visited
    <3>1. next \in Nodes
      BY <2>3 DEF Adjacent
    <3>2. /\ waiting' = Append(waiting, next) /\ visited' = visited \union {next}
          /\ gpc' = "look" /\ next' = next + 1
      BY <1>5, <2>3, <3>1 DEF Look, Marked
    <3>3. (found \o waiting)' = Append(line, next)
      BY <1>1, <2>1, <3>1, <3>2, LinePush
    <3>4. ComesFrom(Append(line, next), Len(line) + 1, Len(found))
      <4>1. Len(found) \in 1..Len(line) /\ line[Len(found)] = curr
        BY <1>3, <2>2
      <4>2. \A v \in Adjacent(curr) \ visited : next <= v
        BY <1>1, <1>3, <2>2 DEF Adjacent, Nodes
      <4>3. ASSUME NEW p \in 1..Len(line), p < Len(found)
            PROVE  Adjacent(line[p]) \subseteq visited
        <5>1. p \in 1..Len(found) /\ p # Len(found)
          <6>1. Len(found) \in Nat
            BY <1>3
          <6> QED BY <4>3, <6>1
        <5> QED BY <1>1, <1>3, <5>1
      <4> HIDE DEF line, curr
      <4> QED BY <1>1, <1>3, <2>3, <3>1, <4>1, <4>2, <4>3, NextComes
    <3>5. Follows(Append(line, next))
      <4>1. Len(found) \in 1..Len(line)
        BY <1>3, <2>2
      <4> HIDE DEF line
      <4> QED BY <1>1, <1>3, <3>1, <3>4, <4>1, FollowsAppend
    <3>6. visited' = Visited(Append(line, next))
      <4> HIDE DEF line
      <4> QED BY <1>1, <1>3, <3>1, <3>2, VisitedAppend
    <3>7. Append(line, next) # <<>> /\ Append(line, next)[1] = start
      <4> HIDE DEF line
      <4>1. Len(line) # 0
        BY <1>1, <1>3
      <4>2. Len(line) \in Nat /\ 1 \in 1..Len(line)
        BY <1>3, <4>1
      <4> QED BY <1>1, <1>3, <3>1, <4>2, AppendFacts
    <3>8. ASSUME NEW p \in DOMAIN found', NEW v \in Adjacent(found[p])' \ visited'
          PROVE  gpc' = "look" /\ p = Len(found') /\ v >= next'
      <4>1. v \in Adjacent(found[p]) \ visited /\ v # next /\ p \in DOMAIN found
        BY <1>2, <2>1, <3>2, <3>8
      <4>2. p = Len(found) /\ v >= next /\ v \in Int
        BY <1>1, <4>1 DEF Adjacent, Nodes
      <4> QED BY <1>1, <2>1, <3>2, <4>1, <4>2
    <3> HIDE DEF line
    <3>9. next' \in Nat
      BY <1>1, <2>1, <3>2
    <3> QED BY <1>2, <3>3, <3>5, <3>6, <3>7, <3>8, <3>9 DEF BFSInv
  <2>4. CASE next \notin Adjacent(curr) \ visited
    <3>1. UNCHANGED <<waiting, visited, found>>
      BY <1>5, <2>1, <2>4 DEF Look
    <3>2. ASSUME NEW p \in DOMAIN found, NEW v \in Adjacent(found[p]) \ visited
          PROVE  gpc' = "look" /\ p = Len(found) /\ v >= next'
      <4>1. p = Len(found) /\ v >= next /\ v \in Nodes /\ v # next
        BY <1>1, <2>4, <3>2 DEF Adjacent
      <4>2. v \in Int /\ v < nodeCount /\ next \in Nat /\ nodeCount \in Nat
        BY <1>1, <2>1, <4>1 DEF Nodes, GInv, GTypeOK
      <4>3. next \in Nodes
        BY <1>1, <4>1, <4>2 DEF Nodes
      <4> QED BY <1>1, <2>1, <4>1, <4>2, <4>3
    <3>3. gpc' = "look" => next' \in Nat
      BY <1>1, <2>1
    <3> QED BY <1>1, <1>2, <3>1, <3>2, <3>3 DEF BFSInv
  <2> QED BY <2>3, <2>4
<1> QED BY <1>4, <1>5 DEF TraversalStep
-----------------------------------------------------------------------------
(* Depth-first search                                                      *)

(* The node on top follows, if it is not marked: it is the smallest that   *)
(* the latest node with unmarked neighbours has.                           *)
LEMMA TopFollows ==
  ASSUME GInv, traversal = "DFS", gpc = "take", found # <<>>, waiting # <<>>,
         Head(waiting) \notin visited
  PROVE  Follows(Append(found, Head(waiting)))
<1>1. /\ waiting \in Seq(Nodes) /\ found \in Seq(Nodes)
      /\ visited = Visited(found) /\ Follows(found)
  BY DEF GInv, GTypeOK, DFSInv
<1>2. PICK from \in [DOMAIN waiting -> DOMAIN found] : StackedBy(from)
  BY DEF GInv, DFSInv
<1>3. /\ Head(waiting) \in Nodes /\ Head(waiting) = waiting[1]
      /\ Len(waiting) \in Nat \ {0} /\ DOMAIN waiting = 1..Len(waiting)
      /\ Len(found) \in Nat /\ DOMAIN found = 1..Len(found)
  BY <1>1, HeadFacts
<1> DEFINE o == from[1]
<1>4. o \in 1..Len(found) /\ Head(waiting) \in Adjacent(found[o])
  BY <1>2, <1>3 DEF StackedBy
<1>5. ASSUME NEW v \in Adjacent(found[o]) \ visited PROVE Head(waiting) <= v
  <2>1. PICK k \in DOMAIN waiting : from[k] = o /\ waiting[k] = v
    BY <1>2, <1>3, <1>4 DEF StackedBy
  <2>2. k = 1 \/ (1 < k /\ k \in Int)
    BY <1>3, <2>1
  <2>3. k # 1 => waiting[1] < waiting[k]
    BY <1>2, <1>3, <1>4, <2>1, <2>2 DEF StackedBy
  <2>4. v \in Int /\ Head(waiting) \in Int
    BY <1>3 DEF Adjacent, Nodes
  <2>5. Head(waiting) = v \/ Head(waiting) < v
    BY <1>3, <2>1, <2>3
  <2> QED BY <2>4, <2>5
<1>6. ASSUME NEW p \in 1..Len(found), p > o PROVE Adjacent(found[p]) \subseteq visited
  <2> SUFFICES ASSUME NEW v \in Adjacent(found[p]) \ visited PROVE FALSE
    OBVIOUS
  <2>1. PICK k \in DOMAIN waiting : from[k] = p /\ waiting[k] = v
    BY <1>2, <1>3 DEF StackedBy
  <2>2. 1 < k
    BY <1>3, <1>4, <1>6, <2>1
  <2>3. from[1] > from[k] \/ from[1] = from[k]
    BY <1>2, <1>3, <2>1, <2>2 DEF StackedBy
  <2> QED BY <1>3, <1>4, <1>6, <2>1, <2>3
<1> HIDE DEF o
<1>7. ComesFrom(Append(found, Head(waiting)), Len(found) + 1, o)
  BY <1>1, <1>3, <1>4, <1>5, <1>6, NextComes
<1> QED BY <1>1, <1>3, <1>4, <1>7, FollowsAppend

LEMMA DFSTake ==
  ASSUME GInv, TraversalStep, traversal = "DFS", Take
  PROVE  DFSInv'
<1>1. /\ waiting \in Seq(Nodes) /\ found \in Seq(Nodes) /\ nodeCount \in Nat
      /\ visited = Visited(found) /\ Follows(found) /\ gpc = "take" /\ nodeCount' = nodeCount
      /\ IF found = <<>> THEN waiting = <<start>>
         ELSE found[1] = start /\ \E from \in [DOMAIN waiting -> DOMAIN found] : StackedBy(from)
  BY DEF GInv, GTypeOK, DFSInv, Take, TraversalStep, matrix
<1>2. /\ UNCHANGED <<traversal, start>>
      /\ \A u : Adjacent(u)' = Adjacent(u)
      /\ \A s : Follows(s)' <=> Follows(s)
  BY SameGraph
<1>3. CASE waiting = <<>>
  <2>1. UNCHANGED <<found, waiting, visited>> /\ gpc' = "done" /\ found # <<>>
    BY <1>1, <1>3 DEF Take
  <2>2. PICK from \in [DOMAIN waiting -> DOMAIN found] : StackedBy(from)
    BY <1>1, <2>1
  <2>3. from \in [DOMAIN waiting' -> DOMAIN found'] /\ StackedBy(from)'
    BY <1>1, <1>2, <2>1, <2>2 DEF StackedBy
  <2> QED BY <1>1, <1>2, <2>1, <2>3 DEF DFSInv
<1>4. CASE waiting # <<>> /\ found = <<>>
  <2>1. Head(waiting) = start /\ Tail(waiting) = <<>> /\ visited = {}
    <3>1. Visited(<<>>) = {}
      BY DEF Visited
    <3>2. waiting = <<start>>
      BY <1>1, <1>4
    <3>3. Head(<<start>>) = start /\ Tail(<<start>>) = <<>>
      OBVIOUS
    <3> QED BY <1>1, <1>4, <3>1, <3>2, <3>3
  <2>2. /\ found' = <<start>> /\ waiting' = <<>> /\ visited' = {start}
        /\ gpc' = "look" /\ next' = nodeCount - 1
    BY <1>1, <1>4, <2>1 DEF Take
  <2>3. Visited(<<start>>) = {start}
    BY DEF Visited
  <2>4. Follows(<<start>>)
    BY DEF Follows
  <2> DEFINE from == [k \in {} |-> 1]
  <2>5. from \in [DOMAIN waiting' -> DOMAIN found'] /\ DOMAIN waiting' = {}
    BY <2>2
  <2>6. \A p \in DOMAIN found' : p = Len(found')
    BY <2>2
  <2>7. \A u : \A v \in Adjacent(u)' : v <= next'
    BY <1>1, <1>2, <2>2 DEF Adjacent, Nodes
  <2> HIDE DEF from
  <2>8. StackedBy(from)'
    BY <2>2, <2>5, <2>6, <2>7 DEF StackedBy
  <2>9. next' < nodeCount'
    BY <1>1, <2>2
  <2> QED BY <1>2, <2>2, <2>3, <2>4, <2>5, <2>8, <2>9 DEF DFSInv
<1>5. CASE waiting # <<>> /\ found # <<>>
  <2>1. PICK from \in [DOMAIN waiting -> DOMAIN found] : StackedBy(from)
    BY <1>1, <1>5
  <2>2. /\ Head(waiting) \in Nodes /\ Head(waiting) = waiting[1]
        /\ Tail(waiting) \in Seq(Nodes)
        /\ Len(waiting) \in Nat \ {0} /\ DOMAIN waiting = 1..Len(waiting)
        /\ DOMAIN Tail(waiting) = 1..(Len(waiting) - 1)
        /\ \A k \in 1..(Len(waiting) - 1) : Tail(waiting)[k] = waiting[k + 1]
        /\ Len(found) \in Nat /\ DOMAIN found = 1..Len(found)
    BY <1>1, <1>5, HeadFacts
  <2>3. waiting' = Tail(waiting) /\ gpc' \in {"take", "look"}
    BY <1>5 DEF Take
  <2>4. PICK rest \in [DOMAIN waiting' -> DOMAIN found] :
          \A k \in 1..(Len(waiting) - 1) : rest[k] = from[k + 1] /\ rest[k] \in DOMAIN found
    <3> DEFINE r == [k \in 1..(Len(waiting) - 1) |-> from[k + 1]]
    <3>1. /\ r \in [DOMAIN waiting' -> DOMAIN found]
          /\ \A k \in 1..(Len(waiting) - 1) : r[k] = from[k + 1] /\ r[k] \in DOMAIN found
      BY <2>2, <2>3
    <3> HIDE DEF r
    <3> QED BY <3>1
  <2>5. \A k, l \in DOMAIN waiting' : k < l =>
          rest[k] > rest[l] \/ (rest[k] = rest[l] /\ waiting'[k] < waiting'[l])
    <3> SUFFICES ASSUME NEW k \in 1..(Len(waiting) - 1), NEW l \in 1..(Len(waiting) - 1), k < l
                 PROVE  rest[k] > rest[l] \/ (rest[k] = rest[l] /\ waiting'[k] < waiting'[l])
      BY <2>2, <2>3
    <3>1. k + 1 \in DOMAIN waiting /\ l + 1 \in DOMAIN waiting /\ k + 1 < l + 1
      BY <2>2
    <3>2. \/ from[k + 1] > from[l + 1]
          \/ from[k + 1] = from[l + 1] /\ waiting[k + 1] < waiting[l + 1]
      BY <2>1, <3>1 DEF StackedBy
    <3> QED BY <2>2, <2>3, <2>4, <3>2
  <2>6. \A k \in DOMAIN waiting' : waiting'[k] \in Adjacent(found[rest[k]])
    <3> SUFFICES ASSUME NEW k \in 1..(Len(waiting) - 1)
                 PROVE  waiting'[k] \in Adjacent(found[rest[k]])
      BY <2>2, <2>3
    <3>1. k + 1 \in DOMAIN waiting
      BY <2>2
    <3> QED BY <2>1, <2>2, <2>3, <2>4, <3>1 DEF StackedBy
  <2>7. ASSUME NEW p \in DOMAIN found, NEW v \in Adjacent(found[p]) \ visited, v # Head(waiting)
        PROVE  \E k \in DOMAIN waiting' : rest[k] = p /\ waiting'[k] = v
    <3>1. PICK k \in DOMAIN waiting : from[k] = p /\ waiting[k] = v
      BY <1>1, <2>1 DEF StackedBy
    <3>2. k - 1 \in 1..(Len(waiting) - 1) /\ (k - 1) + 1 = k
      BY <2>2, <2>7, <3>1
    <3> QED BY <2>2, <2>3, <2>4, <3>1, <3>2
  <2>8. CASE Head(waiting) \in visited
    <3>1. UNCHANGED <<gpc, found, visited>>
      BY <1>5, <2>8 DEF Take
    <3>2. StackedBy(rest)'
      BY <1>1, <1>2, <2>5, <2>6, <2>7, <2>8, <3>1 DEF StackedBy
    <3>3. rest \in [DOMAIN waiting' -> DOMAIN found']
      BY <2>4, <3>1
    <3> QED BY <1>1, <1>2, <1>5, <3>1, <3>2, <3>3 DEF DFSInv
  <2>9. CASE Head(waiting) \notin visited
    <3>1. /\ found' = Append(found, Head(waiting)) /\ visited' = visited \union {Head(waiting)}
          /\ gpc' = "look" /\ next' = nodeCount - 1
      BY <1>5, <2>9 DEF Take
    <3>2. /\ DOMAIN found' = 1..(Len(found) + 1) /\ found' # <<>>
          /\ Len(found') = Len(found) + 1
          /\ \A p \in 1..Len(found) : found'[p] = found[p]
      BY <1>1, <2>2, <3>1, AppendFacts
    <3>3. rest \in [DOMAIN waiting' -> DOMAIN found']
      BY <2>2, <2>4, <3>2
    <3>4. visited' = Visited(found')
      BY <1>1, <2>2, <3>1, VisitedAppend
    <3>5. Follows(found')
      BY <1>1, <1>5, <2>9, <3>1, TopFollows
    <3>6. found'[1] = start'
      <4>1. 1 \in 1..Len(found)
        BY <1>1, <1>5
      <4> QED BY <1>1, <1>2, <1>5, <3>2, <4>1
    <3>7. StackedBy(rest)'
      <4>1. \A k \in DOMAIN waiting' : rest[k] \in 1..Len(found)
        BY <2>2, <2>3, <2>4
      <4>2. \A k \in DOMAIN waiting' : waiting'[k] \in Adjacent(found'[rest[k]])
        BY <2>6, <3>2, <4>1
      <4>3. \A k \in DOMAIN waiting' : rest[k] # Len(found')
        BY <2>2, <3>2, <4>1
      <4>4. ASSUME NEW p \in DOMAIN found', NEW v \in Adjacent(found'[p]) \ visited'
            PROVE  \/ p = Len(found') /\ v <= next'
                   \/ \E k \in DOMAIN waiting' : rest[k] = p /\ waiting'[k] = v
        <5>1. CASE p = Len(found) + 1
          <6>1. v <= nodeCount - 1
            BY <1>1 DEF Adjacent, Nodes
          <6> QED BY <3>1, <3>2, <5>1, <6>1
        <5>2. CASE p \in 1..Len(found)
          <6>1. v \in Adjacent(found[p]) \ visited /\ v # Head(waiting)
            BY <3>1, <3>2, <5>2
          <6>2. p \in DOMAIN found
            BY <2>2, <5>2
          <6>3. \E k \in DOMAIN waiting' : rest[k] = p /\ waiting'[k] = v
            BY <2>7, <6>1, <6>2
          <6> QED BY <6>3
        <5>3. p = Len(found) + 1 \/ p \in 1..Len(found)
          BY <2>2, <3>2
        <5> QED BY <5>1, <5>2, <5>3
      <4> QED BY <1>2, <2>5, <3>1, <4>2, <4>3, <4>4 DEF StackedBy
    <3>8. next' < nodeCount'
      BY <1>1, <3>1
    <3> QED BY <1>2, <3>2, <3>3, <3>4, <3>5, <3>6, <3>7, <3>8 DEF DFSInv
  <2> QED BY <2>8, <2>9
<1> QED BY <1>3, <1>4, <1>5
LEMMA DFSLook ==
  ASSUME GInv, TraversalStep, traversal = "DFS", Look
  PROVE  DFSInv'
<1>1. /\ waiting \in Seq(Nodes) /\ found \in Seq(Nodes) /\ found # <<>> /\ next \in Int
      /\ visited = Visited(found) /\ Follows(found) /\ gpc = "look" /\ found[1] = start
      /\ found' = found /\ nodeCount' = nodeCount /\ next < nodeCount /\ next' <= next
      /\ nodeCount \in Nat
  BY DEF GInv, GTypeOK, CallInv, DFSInv, Look, TraversalStep, matrix
<1>2. /\ UNCHANGED <<traversal, start>>
      /\ \A u : Adjacent(u)' = Adjacent(u)
      /\ \A s : Follows(s)' <=> Follows(s)
  BY SameGraph
<1>3. PICK from \in [DOMAIN waiting -> DOMAIN found] : StackedBy(from)
  BY <1>1 DEF GInv, DFSInv
<1>4. visited' = visited
  BY DEF Look, Marked
<1>5. SUFFICES \E f \in [DOMAIN waiting' -> DOMAIN found] : StackedBy(f)'
  <2>1. next' \in Int
    BY <1>1 DEF Look
  <2>2. next' < nodeCount'
    BY <1>1, <2>1
  <2> QED BY <1>1, <1>2, <1>4, <2>2 DEF DFSInv
<1> DEFINE last == Len(found)
<1>6. last \in Nat \ {0} /\ DOMAIN found = 1..last
  BY <1>1
<1>7. CASE next \notin Nodes
  <2>1. UNCHANGED waiting /\ gpc' = "take"
    BY <1>7 DEF Look
  <2>2. ASSUME NEW p \in DOMAIN found, NEW v \in Adjacent(found[p]) \ visited
        PROVE  \E k \in DOMAIN waiting : from[k] = p /\ waiting[k] = v
    <3>1. v \in Nodes /\ nodeCount \in Nat /\ v # next
      BY <1>7 DEF Adjacent, GInv, GTypeOK
    <3>2. ~(v <= next)
      BY <1>1, <1>7, <3>1 DEF Nodes
    <3> QED BY <1>1, <1>3, <3>1, <3>2 DEF StackedBy
  <2>3. StackedBy(from)'
    BY <1>1, <1>2, <1>3, <1>4, <2>1, <2>2 DEF StackedBy
  <2> QED BY <1>3, <2>1, <2>3
<1>8. CASE next \in Nodes
  <2>1. gpc' = "look" /\ next' = next - 1 /\ next \in Nat
    BY <1>8 DEF Look, Nodes
  <2>2. CASE next \notin Adjacent(found[last]) \ visited
    <3>1. UNCHANGED waiting
      BY <1>8, <2>2 DEF Look
    <3>2. ASSUME NEW p \in DOMAIN found, NEW v \in Adjacent(found[p]) \ visited,
                 p = last /\ v <= next
          PROVE  v <= next'
      <4>1. v # next /\ v \in Int
        BY <2>2, <3>2 DEF Adjacent, Nodes
      <4> QED BY <2>1, <3>2, <4>1
    <3>3. ASSUME NEW k \in DOMAIN waiting, from[k] = last
          PROVE  waiting[k] > next'
      <4>1. waiting[k] \in Int
        BY <1>1 DEF Nodes
      <4>2. waiting[k] > next
        BY <1>1, <1>3, <3>3 DEF StackedBy
      <4> QED BY <2>1, <4>1, <4>2
    <3>4. StackedBy(from)'
      BY <1>1, <1>2, <1>3, <1>4, <2>1, <3>1, <3>2, <3>3 DEF StackedBy
    <3> QED BY <1>3, <3>1, <3>4
  <2>3. CASE next \in Adjacent(found[last]) \ visited
    <3>1. waiting' = <<next>> \o waiting
      BY <1>8, <2>3 DEF Look, last
    <3> DEFINE n == Len(waiting)
    <3>2. /\ n \in Nat /\ DOMAIN waiting = 1..n /\ DOMAIN waiting' = 1..(n + 1)
          /\ waiting'[1] = next
          /\ \A k \in 2..(n + 1) : waiting'[k] = waiting[k - 1]
      BY <1>1, <1>8, <3>1, PushFacts
    <3>3. PICK f \in [1..(n + 1) -> DOMAIN found] :
            f[1] = last /\ \A k \in 2..(n + 1) : f[k] = from[k - 1]
      <4> DEFINE g == [k \in 1..(n + 1) |-> IF k = 1 THEN last ELSE from[k - 1]]
      <4>1. /\ g[1] = last /\ last \in DOMAIN found
            /\ \A k \in 2..(n + 1) : g[k] = from[k - 1]
        BY <1>6, <3>2
      <4>2. \A k \in 2..(n + 1) : k - 1 \in 1..n
        BY <3>2
      <4>3. g \in [1..(n + 1) -> DOMAIN found]
        BY <1>6, <3>2, <4>2
      <4> HIDE DEF g
      <4> QED BY <4>1, <4>3
    <3> HIDE DEF n, last
    <3>4. ASSUME NEW k \in 2..(n + 1)
          PROVE  /\ k - 1 \in DOMAIN waiting /\ waiting'[k] = waiting[k - 1]
                 /\ f[k] = from[k - 1] /\ f[k] \in 1..last
                 /\ f[k] = last => waiting'[k] > next
                 /\ waiting'[k] \in Adjacent(found[f[k]])
      <4>1. k - 1 \in DOMAIN waiting /\ waiting'[k] = waiting[k - 1] /\ f[k] = from[k - 1]
        BY <3>2, <3>3
      <4>2. f[k] \in 1..last
        BY <1>6, <3>2, <3>3
      <4> QED BY <1>1, <1>3, <4>1, <4>2 DEF StackedBy, last
    <3>5. ASSUME NEW k \in 1..(n + 1)
          PROVE  waiting'[k] \in Adjacent(found[f[k]])
      BY <2>3, <3>2, <3>3, <3>4
    <3>6. ASSUME NEW k \in 1..(n + 1), NEW l \in 1..(n + 1), k < l
          PROVE  f[k] > f[l] \/ (f[k] = f[l] /\ waiting'[k] < waiting'[l])
      <4>1. l \in 2..(n + 1)
        BY <3>2, <3>6
      <4>2. CASE k = 1
        <5>1. f[l] < last \/ f[l] = last
          BY <1>6, <3>4, <4>1
        <5>2. waiting'[l] \in Int
          BY <3>4, <4>1 DEF Adjacent, Nodes
        <5> QED BY <1>1, <1>6, <3>2, <3>3, <3>4, <4>1, <4>2, <5>1, <5>2
      <4>3. CASE k \in 2..(n + 1)
        <5>1. k - 1 \in DOMAIN waiting /\ l - 1 \in DOMAIN waiting /\ k - 1 < l - 1
          BY <3>2, <3>4, <3>6, <4>1, <4>3
        <5>2. \/ from[k - 1] > from[l - 1]
              \/ from[k - 1] = from[l - 1] /\ waiting[k - 1] < waiting[l - 1]
          BY <1>3, <5>1 DEF StackedBy
        <5> QED BY <3>4, <4>1, <4>3, <5>2
      <4> QED BY <3>2, <4>2, <4>3
    <3>7. ASSUME NEW p \in DOMAIN found, NEW v \in Adjacent(found[p]) \ visited
          PROVE  \/ p = last /\ v <= next'
                 \/ \E k \in 1..(n + 1) : f[k] = p /\ waiting'[k] = v
      <4>1. CASE p = last /\ v = next
        <5>1. 1 \in 1..(n + 1)
          BY <3>2
        <5> QED BY <3>2, <3>3, <4>1, <5>1
      <4>2. CASE p = last /\ v <= next /\ v # next
        <5>1. v \in Int
          BY DEF Adjacent, Nodes
        <5> QED BY <2>1, <4>2, <5>1
      <4>3. CASE \E k \in DOMAIN waiting : from[k] = p /\ waiting[k] = v
        <5>1. PICK k \in DOMAIN waiting : from[k] = p /\ waiting[k] = v
          BY <4>3
        <5>2. k + 1 \in 2..(n + 1) /\ (k + 1) - 1 = k /\ k + 1 \in 1..(n + 1)
          BY <3>2
        <5> QED BY <3>2, <3>3, <5>1, <5>2
      <4> QED BY <1>3, <4>1, <4>2, <4>3 DEF StackedBy, last
    <3>8. ASSUME NEW k \in 1..(n + 1), f[k] = last
          PROVE  waiting'[k] > next'
      <4>1. CASE k = 1
        BY <2>1, <3>2, <4>1
      <4>2. CASE k \in 2..(n + 1)
        <5>1. waiting'[k] > next /\ waiting'[k] \in Int
          BY <3>4, <3>8, <4>2 DEF Adjacent, Nodes
        <5> QED BY <2>1, <5>1
      <4> QED BY <3>2, <4>1, <4>2
    <3>9. StackedBy(f)'
      <4>1. \A k \in DOMAIN waiting' : waiting'[k] \in Adjacent(found[f[k]])'
        BY <1>1, <1>2, <3>2, <3>5
      <4>2. \A k, l \in DOMAIN waiting' : k < l =>
              f[k] > f[l] \/ (f[k] = f[l] /\ waiting'[k] < waiting'[l])
        BY <3>2, <3>6
      <4>3. \A p \in DOMAIN found' : \A v \in Adjacent(found[p])' \ visited' :
              \/ p = Len(found') /\ v <= next'
              \/ \E k \in DOMAIN waiting' : f[k] = p /\ waiting'[k] = v
        <5> SUFFICES ASSUME NEW p \in DOMAIN found, NEW v \in Adjacent(found[p]) \ visited
                     PROVE  \/ p = last /\ v <= next'
                            \/ \E k \in DOMAIN waiting' : f[k] = p /\ waiting'[k] = v
          BY <1>1, <1>2, <1>4 DEF last
        <5> QED BY <3>2, <3>7
      <4>4. \A k \in DOMAIN waiting' : f[k] = Len(found') => waiting'[k] > next'
        BY <1>1, <3>2, <3>8 DEF last
      <4> QED BY <2>1, <4>1, <4>2, <4>3, <4>4 DEF StackedBy
    <3> QED BY <3>2, <3>3, <3>9
  <2> QED BY <2>2, <2>3
<1> QED BY <1>7, <1>8

-----------------------------------------------------------------------------
LEMMA GNextInv == GInv /\ [GraphNext]_gvars => GInv'
<1> SUFFICES ASSUME GInv, [GraphNext]_gvars PROVE GInv'
  OBVIOUS
<1>1. CASE AddNode \/ \E u, v \in Nodes : \E weight \in {1, Inf} : SetEdge(u, v, weight)
  BY <1>1, EditInv
<1>2. CASE Traverse
  BY <1>2, TraverseInv
<1>3. CASE TraversalStep
  <2>1. GTypeOK' /\ CallInv'
    BY <1>3, StepTypes
  <2>2. traversal' = traversal /\ (Take \/ Look)
    BY <1>3 DEF TraversalStep
  <2>3. BFSInv'
    BY <1>3, <2>2, BFSStep DEF BFSInv
  <2>4. DFSInv'
    BY <1>3, <2>2, DFSTake, DFSLook DEF DFSInv
  <2> QED BY <2>1, <2>3, <2>4 DEF GInv
<1>4. CASE UNCHANGED gvars
  <2> USE <1>4 DEF gvars
  <2>1. Nodes' = Nodes /\ \A u : Adjacent(u)' = Adjacent(u)
    BY DEF Nodes, Adjacent
  <2>2. GTypeOK' /\ CallInv'
    BY <2>1 DEF GInv, GTypeOK, CallInv
  <2>3. ASSUME NEW s PROVE Follows(s)' <=> Follows(s)
    <3>1. ASSUME NEW q, NEW o PROVE ComesFrom(s, q, o)' <=> ComesFrom(s, q, o)
      BY <2>1 DEF ComesFrom, Before
    <3> QED BY <3>1 DEF Follows
  <2>4. BFSInv'
    BY <2>1, <2>3 DEF GInv, BFSInv
  <2>5. ASSUME NEW from PROVE StackedBy(from)' <=> StackedBy(from)
    BY <2>1 DEF StackedBy
  <2>6. DFSInv'
    BY <2>1, <2>3, <2>5 DEF GInv, DFSInv
  <2> QED BY <2>2, <2>4, <2>6 DEF GInv
<1> QED BY <1>1, <1>2, <1>3, <1>4 DEF GraphNext

LEMMA SoundWhenDone == GInv => TraversalsSound
<1> SUFFICES ASSUME GInv, gpc = "done" PROVE TraversalsSound
  BY DEF TraversalsSound
<1>1. /\ waiting = <<>> /\ found \in Seq(Nodes) /\ traversal \in {"BFS", "DFS"}
  BY DEF GInv, GTypeOK, CallInv
<1>2. CASE traversal = "BFS"
  <2>1. found \o waiting = found
    BY <1>1
  <2>2. /\ visited = Visited(found) /\ found # <<>> /\ found[1] = start /\ Follows(found)
        /\ \A p \in DOMAIN found : Adjacent(found[p]) \subseteq visited
    BY <1>2, <2>1 DEF GInv, BFSInv
  <2> QED BY <2>2 DEF TraversalsSound, Follows, Visited
<1>3. CASE traversal = "DFS"
  <2>1. /\ visited = Visited(found) /\ Follows(found) /\ found # <<>> /\ found[1] = start
        /\ \E from \in [DOMAIN waiting -> DOMAIN found] : StackedBy(from)
    BY <1>3 DEF GInv, DFSInv
  <2>2. DOMAIN waiting = {}
    BY <1>1
  <2>3. \A p \in DOMAIN found : Adjacent(found[p]) \subseteq visited
    BY <2>1, <2>2 DEF StackedBy
  <2> QED BY <2>1, <2>3 DEF TraversalsSound, Follows, Visited
<1> QED BY <1>1, <1>2, <1>3

(* Of any graph, a traversal visits the nodes it should in the order it    *)
(* should: what BFS and DFS in Graph.cpp return.                           *)
THEOREM GraphsTraversed == GraphSpec => []TraversalsSound
<1>1. GInv /\ [GraphNext]_gvars => GInv'
  BY GNextInv
<1> QED BY <1>1, GInitInv, SoundWhenDone, PTL DEF GraphSpec

-----------------------------------------------------------------------------
(* Trees: the shape of a tree, by the places of its nodes.                 *)

(* The nodes 1..n with the children l and r make one tree below top: pos   *)
(* is the place of a node from left to right, and those of its subtree are *)
(* at the places from lo to hi.                                            *)
Apart(pos, lo, hi, u, v) ==
  \/ hi[u] < lo[v] \/ hi[v] < lo[u]
  \/ lo[v] <= lo[u] /\ hi[u] < pos[v]
  \/ pos[v] < lo[u] /\ hi[u] <= hi[v]
  \/ lo[u] <= lo[v] /\ hi[v] < pos[u]
  \/ pos[u] < lo[v] /\ hi[v] <= hi[u]

Ranges(n, pos, lo, hi) ==
  /\ pos \in [1..n -> Int] /\ lo \in [1..n -> Int] /\ hi \in [1..n -> Int]
  /\ \A u, v \in 1..n : u # v => pos[u] # pos[v] /\ Apart(pos, lo, hi, u, v)
  /\ \A u \in 1..n : lo[u] <= pos[u] /\ pos[u] <= hi[u]

Linked(n, l, r, pos, lo, hi) ==
  /\ l \in [1..n -> 0..n] /\ r \in [1..n -> 0..n]
  /\ \A u \in 1..n :
       /\ l[u] = 0 => lo[u] = pos[u]
       /\ l[u] # 0 => lo[l[u]] = lo[u] /\ hi[l[u]] = pos[u] - 1
       /\ r[u] = 0 => hi[u] = pos[u]
       /\ r[u] # 0 => lo[r[u]] = pos[u] + 1 /\ hi[r[u]] = hi[u]

Rooted(n, top, pos, lo, hi) ==
  /\ top \in 0..n
  /\ top = 0 => n = 0
  /\ \A u \in 1..n : lo[top] <= pos[u] /\ pos[u] <= hi[top]

Shape(n, l, r, top, pos, lo, hi) ==
  n \in Nat /\ Ranges(n, pos, lo, hi) /\ Linked(n, l, r, pos, lo, hi) /\ Rooted(n, top, pos, lo, hi)

(* What a shape says of a node, and of two.                                *)
LEMMA NodeFacts ==
  ASSUME NEW n, NEW l, NEW r, NEW top, NEW pos, NEW lo, NEW hi,
         Shape(n, l, r, top, pos, lo, hi), NEW u \in 1..n
  PROVE  /\ pos[u] \in Int /\ lo[u] \in Int /\ hi[u] \in Int /\ l[u] \in 0..n /\ r[u] \in 0..n
         /\ lo[u] <= pos[u] /\ pos[u] <= hi[u]
         /\ lo[top] \in Int /\ hi[top] \in Int /\ lo[top] <= pos[u] /\ pos[u] <= hi[top]
         /\ l[u] = 0 => lo[u] = pos[u]
         /\ l[u] # 0 => l[u] \in 1..n /\ lo[l[u]] = lo[u] /\ hi[l[u]] = pos[u] - 1
         /\ r[u] = 0 => hi[u] = pos[u]
         /\ r[u] # 0 => r[u] \in 1..n /\ lo[r[u]] = pos[u] + 1 /\ hi[r[u]] = hi[u]
<1>1. n \in Nat /\ top \in 1..n
  BY DEF Shape, Rooted
<1>2. pos[u] \in Int /\ lo[u] \in Int /\ hi[u] \in Int /\ lo[top] \in Int /\ hi[top] \in Int
  BY <1>1 DEF Shape, Ranges
<1>3. l[u] \in 0..n /\ r[u] \in 0..n
  BY DEF Shape, Linked
<1>4. lo[u] <= pos[u] /\ pos[u] <= hi[u]
  BY DEF Shape, Ranges
<1>5. lo[top] <= pos[u] /\ pos[u] <= hi[top]
  BY DEF Shape, Rooted
<1>6. /\ l[u] = 0 => lo[u] = pos[u]
      /\ l[u] # 0 => lo[l[u]] = lo[u] /\ hi[l[u]] = pos[u] - 1
      /\ r[u] = 0 => hi[u] = pos[u]
      /\ r[u] # 0 => lo[r[u]] = pos[u] + 1 /\ hi[r[u]] = hi[u]
  BY DEF Shape, Linked
<1> QED BY <1>1, <1>2, <1>3, <1>4, <1>5, <1>6

(* And of two: they have two places, and ranges that do not cross.         *)
LEMMA PairFacts ==
  ASSUME NEW n, NEW l, NEW r, NEW top, NEW pos, NEW lo, NEW hi,
         Shape(n, l, r, top, pos, lo, hi), NEW u \in 1..n, NEW v \in 1..n, u # v
  PROVE  pos[u] # pos[v] /\ Apart(pos, lo, hi, u, v)
BY DEF Shape, Ranges

(* A node is a child once, and the root is nobody's child.                 *)
LEMMA OneParent ==
  ASSUME NEW n, NEW l, NEW r, NEW top, NEW pos, NEW lo, NEW hi,
         Shape(n, l, r, top, pos, lo, hi), NEW u \in 1..n, NEW v \in 1..n
  PROVE  /\ l[u] # 0 /\ l[u] = l[v] => u = v
         /\ r[u] # 0 /\ r[u] = r[v] => u = v
         /\ l[u] # 0 => l[u] # r[v]
         /\ l[u] # top /\ r[u] # top
         /\ top \in 1..n
         /\ l[u] # u /\ r[u] # u
<1>1. n \in Nat /\ top \in 1..n
  BY DEF Shape, Rooted
<1> USE NodeFacts
<1>2. l[u] # 0 /\ l[u] = l[v] => u = v
  BY PairFacts
<1>3. r[u] # 0 /\ r[u] = r[v] => u = v
  BY PairFacts
<1>4. l[u] # u /\ r[u] # u
  OBVIOUS
<1>5. l[u] # 0 => l[u] # r[v]
  <2> SUFFICES ASSUME l[u] # 0, l[u] = r[v] PROVE FALSE
    OBVIOUS
  <2>1. lo[l[u]] = lo[u] /\ hi[l[u]] = pos[u] - 1 /\ lo[l[u]] = pos[v] + 1 /\ hi[l[u]] = hi[v]
    OBVIOUS
  <2>2. u # v
    BY <2>1
  <2>3. pos[u] # pos[v] /\ Apart(pos, lo, hi, u, v)
    BY <2>2, PairFacts
  <2> QED BY <2>1, <2>3 DEF Apart
<1>6. l[u] # top /\ r[u] # top
  <2>1. /\ pos[u] \in Int /\ lo[top] \in Int /\ hi[top] \in Int /\ lo[top] <= pos[u] /\ pos[u] <= hi[top]
        /\ l[u] # 0 => hi[l[u]] = pos[u] - 1
        /\ r[u] # 0 => lo[r[u]] = pos[u] + 1
    BY NodeFacts
  <2> QED BY <1>1, <2>1
<1> QED BY <1>1, <1>2, <1>3, <1>4, <1>5, <1>6

(* The tree and the order seen in a mirror.                                *)
Neg(n, f) == [u \in 1..n |-> 0 - f[u]]

(* Places counted from the right are integers as well.                     *)
LEMMA NegFacts ==
  ASSUME NEW n \in Nat, NEW f \in [1..n -> Int]
  PROVE  Neg(n, f) \in [1..n -> Int] /\ \A u \in 1..n : Neg(n, f)[u] = 0 - f[u]
BY DEF Neg

(* Seen from behind, the tree has the children exchanged and the places    *)
(* counted from the right.                                                 *)
LEMMA Mirrored ==
  ASSUME NEW n, NEW l, NEW r, NEW top, NEW pos, NEW lo, NEW hi,
         Shape(n, l, r, top, pos, lo, hi)
  PROVE  Shape(n, r, l, top, Neg(n, pos), Neg(n, hi), Neg(n, lo))
<1> DEFINE p == Neg(n, pos)  a == Neg(n, hi)  b == Neg(n, lo)
<1>1. /\ n \in Nat /\ pos \in [1..n -> Int] /\ lo \in [1..n -> Int] /\ hi \in [1..n -> Int]
      /\ l \in [1..n -> 0..n] /\ r \in [1..n -> 0..n] /\ top \in 0..n /\ (top = 0 => n = 0)
  BY DEF Shape, Ranges, Linked, Rooted
<1>2. /\ p \in [1..n -> Int] /\ a \in [1..n -> Int] /\ b \in [1..n -> Int]
      /\ \A u \in 1..n : p[u] = 0 - pos[u] /\ a[u] = 0 - hi[u] /\ b[u] = 0 - lo[u]
  BY <1>1, NegFacts
<1> HIDE DEF p, a, b
<1>3. \A u, v \in 1..n : u # v => p[u] # p[v] /\ Apart(p, a, b, u, v)
  <2> SUFFICES ASSUME NEW u \in 1..n, NEW v \in 1..n, u # v
               PROVE  p[u] # p[v] /\ Apart(p, a, b, u, v)
    OBVIOUS
  <2>1. pos[u] # pos[v] /\ Apart(pos, lo, hi, u, v)
    BY PairFacts
  <2>2. /\ pos[u] \in Int /\ lo[u] \in Int /\ hi[u] \in Int /\ pos[v] \in Int /\ lo[v] \in Int /\ hi[v] \in Int
    BY <1>1
  <2>3. /\ p[u] = 0 - pos[u] /\ a[u] = 0 - hi[u] /\ b[u] = 0 - lo[u]
        /\ p[v] = 0 - pos[v] /\ a[v] = 0 - hi[v] /\ b[v] = 0 - lo[v]
    BY <1>2
  <2> QED BY <2>1, <2>2, <2>3 DEF Apart
<1>4. \A u \in 1..n : a[u] <= p[u] /\ p[u] <= b[u] /\ a[top] <= p[u] /\ p[u] <= b[top]
  <2> SUFFICES ASSUME NEW u \in 1..n
               PROVE  a[u] <= p[u] /\ p[u] <= b[u] /\ a[top] <= p[u] /\ p[u] <= b[top]
    OBVIOUS
  <2>1. top \in 1..n
    BY <1>1
  <2>2. /\ lo[u] <= pos[u] /\ pos[u] <= hi[u] /\ lo[top] <= pos[u] /\ pos[u] <= hi[top]
        /\ pos[u] \in Int /\ lo[u] \in Int /\ hi[u] \in Int /\ lo[top] \in Int /\ hi[top] \in Int
    BY NodeFacts
  <2>3. /\ p[u] = 0 - pos[u] /\ a[u] = 0 - hi[u] /\ b[u] = 0 - lo[u]
        /\ a[top] = 0 - hi[top] /\ b[top] = 0 - lo[top]
    BY <1>2, <2>1
  <2> QED BY <2>2, <2>3
<1>5. Linked(n, r, l, p, a, b)
  <2> SUFFICES ASSUME NEW u \in 1..n
               PROVE  /\ r[u] = 0 => a[u] = p[u]
                      /\ r[u] # 0 => a[r[u]] = a[u] /\ b[r[u]] = p[u] - 1
                      /\ l[u] = 0 => b[u] = p[u]
                      /\ l[u] # 0 => a[l[u]] = p[u] + 1 /\ b[l[u]] = b[u]
    BY <1>1 DEF Linked
  <2>1. /\ pos[u] \in Int /\ lo[u] \in Int /\ hi[u] \in Int
        /\ l[u] = 0 => lo[u] = pos[u]
        /\ l[u] # 0 => l[u] \in 1..n /\ lo[l[u]] = lo[u] /\ hi[l[u]] = pos[u] - 1
        /\ r[u] = 0 => hi[u] = pos[u]
        /\ r[u] # 0 => r[u] \in 1..n /\ lo[r[u]] = pos[u] + 1 /\ hi[r[u]] = hi[u]
    BY NodeFacts
  <2>2. p[u] = 0 - pos[u] /\ a[u] = 0 - hi[u] /\ b[u] = 0 - lo[u]
    BY <1>2
  <2>3. r[u] # 0 => a[r[u]] = 0 - hi[r[u]] /\ b[r[u]] = 0 - lo[r[u]]
    BY <1>2, <2>1
  <2>4. l[u] # 0 => a[l[u]] = 0 - hi[l[u]] /\ b[l[u]] = 0 - lo[l[u]]
    BY <1>2, <2>1
  <2> QED BY <2>1, <2>2, <2>3, <2>4
<1>6. Ranges(n, p, a, b)
  BY <1>2, <1>3, <1>4 DEF Ranges
<1>7. Rooted(n, top, p, a, b)
  BY <1>1, <1>4 DEF Rooted
<1> QED BY <1>1, <1>5, <1>6, <1>7 DEF Shape, p, a, b

(* What was between is between still, when nodes move to make room.        *)
MadeRoom(n, pos, lo, hi, pos2, lo2, hi2) ==
  \A u, v \in 1..n :
    /\ pos[u] < pos[v] <=> pos2[u] < pos2[v]
    /\ hi[u] < pos[v] => hi2[u] < pos2[v]
    /\ pos[v] < lo[u] => pos2[v] < lo2[u]

(* Room for one more place: those from j on move up.                       *)
Up(x, j) == IF x >= j THEN x + 1 ELSE x

Shifted(n, f, j, e) == [u \in 1..(n + 1) |-> IF u = n + 1 THEN e ELSE Up(f[u], j)]

Room(n, f, j, e, g) ==
  /\ g \in [1..(n + 1) -> Int] /\ g[n + 1] = e
  /\ \A u \in 1..n : g[u] = Up(f[u], j)

(* What shifting the places for a new leaf gives.                          *)
LEMMA ShiftedFacts ==
  ASSUME NEW n \in Nat, NEW f \in [1..n -> Int], NEW j \in Int, NEW e \in Int
  PROVE  Room(n, f, j, e, Shifted(n, f, j, e))
<1>1. \A u \in 1..n : f[u] \in Int /\ u # n + 1 /\ u \in 1..(n + 1)
  OBVIOUS
<1>2. n + 1 \in 1..(n + 1) /\ \A u \in 1..(n + 1) : u = n + 1 \/ u \in 1..n
  OBVIOUS
<1>3. \A u \in 1..(n + 1) : (IF u = n + 1 THEN e ELSE Up(f[u], j)) \in Int
  BY <1>1, <1>2 DEF Up
<1>4. Shifted(n, f, j, e) \in [1..(n + 1) -> Int]
  BY <1>3 DEF Shifted
<1>5. Shifted(n, f, j, e)[n + 1] = e /\ \A u \in 1..n : Shifted(n, f, j, e)[u] = Up(f[u], j)
  BY <1>1, <1>2 DEF Shifted
<1> QED BY <1>4, <1>5 DEF Room

(* One old node, its place before and after.                               *)
Moved(u, k, pos, lo, hi, pos2, lo2, hi2) ==
  /\ pos[u] \in Int /\ lo[u] \in Int /\ hi[u] \in Int
  /\ pos2[u] \in Int /\ lo2[u] \in Int /\ hi2[u] \in Int
  /\ lo[u] <= pos[u] /\ pos[u] <= hi[u]
  /\ pos[u] < k => pos2[u] = pos[u]
  /\ pos[u] >= k => pos2[u] = pos[u] + 1
  /\ lo[u] < k + 1 => lo2[u] = lo[u]
  /\ lo[u] >= k + 1 => lo2[u] = lo[u] + 1
  /\ hi[u] < k => hi2[u] = hi[u]
  /\ hi[u] >= k => hi2[u] = hi[u] + 1

(* Two nodes that made room stay as they were to each other.               *)
LEMMA MovedPair ==
  ASSUME NEW k \in Int, NEW pos, NEW lo, NEW hi, NEW pos2, NEW lo2, NEW hi2, NEW u, NEW v,
         Moved(u, k, pos, lo, hi, pos2, lo2, hi2), Moved(v, k, pos, lo, hi, pos2, lo2, hi2)
  PROVE  /\ lo2[u] <= pos2[u] /\ pos2[u] <= hi2[u]
         /\ pos[u] < pos[v] <=> pos2[u] < pos2[v]
         /\ pos[u] # pos[v] => pos2[u] # pos2[v]
         /\ hi[u] < pos[v] => hi2[u] < pos2[v]
         /\ pos[v] < lo[u] => pos2[v] < lo2[u]
         /\ lo[u] <= pos[v] => lo2[u] <= pos2[v]
         /\ pos[v] <= hi[u] => pos2[v] <= hi2[u]
         /\ Apart(pos, lo, hi, u, v) => Apart(pos2, lo2, hi2, u, v)
BY DEF Moved, Apart

NewAt(x, k, pos, lo, hi) == pos[x] = k /\ lo[x] = k /\ hi[x] = k

(* x is the new leaf, at the place of its parent p, which has moved up.    *)
LEMMA MovedLeaf ==
  ASSUME NEW k \in Int, NEW pos, NEW lo, NEW hi, NEW pos2, NEW lo2, NEW hi2, NEW u, NEW p, NEW x,
         Moved(u, k, pos, lo, hi, pos2, lo2, hi2), Moved(p, k, pos, lo, hi, pos2, lo2, hi2),
         pos[p] = k, lo[p] = k, NewAt(x, k, pos2, lo2, hi2),
         u = p \/ (pos[u] # pos[p] /\ Apart(pos, lo, hi, u, p))
  PROVE  /\ pos2[u] # pos2[x] /\ Apart(pos2, lo2, hi2, u, x) /\ Apart(pos2, lo2, hi2, x, u)
         /\ pos2[u] < pos2[x] <=> pos[u] < pos[p]
         /\ lo[u] <= pos[p] => lo2[u] <= pos2[x]
         /\ pos[p] <= hi[u] => pos2[x] <= hi2[u]
<1>1. CASE u = p
  BY <1>1 DEF Moved, Apart, NewAt
<1>2. CASE pos[u] # pos[p] /\ Apart(pos, lo, hi, u, p)
  BY <1>2 DEF Moved, Apart, NewAt
<1> QED BY <1>1, <1>2

(* The links of u and of its child c.                                      *)
LEMMA MovedLink ==
  ASSUME NEW k \in Int, NEW pos, NEW lo, NEW hi, NEW pos2, NEW lo2, NEW hi2, NEW u, NEW c,
         Moved(u, k, pos, lo, hi, pos2, lo2, hi2), Moved(c, k, pos, lo, hi, pos2, lo2, hi2)
  PROVE  /\ lo[c] = lo[u] => lo2[c] = lo2[u]
         /\ hi[c] = hi[u] => hi2[c] = hi2[u]
         /\ lo[c] = pos[u] + 1 => lo2[c] = pos2[u] + 1
         /\ hi[c] = pos[u] - 1 /\ pos[u] # k => hi2[c] = pos2[u] - 1
         /\ lo[u] = pos[u] /\ pos[u] # k => lo2[u] = pos2[u]
         /\ hi[u] = pos[u] => hi2[u] = pos2[u]
BY DEF Moved

(* With a new leaf on the left of p the children are l2 and r2.            *)
Hung(n, l, r, p, l2, r2) ==
  /\ p \in 1..n /\ l[p] = 0
  /\ l2 \in [1..(n + 1) -> 0..(n + 1)] /\ r2 \in [1..(n + 1) -> 0..(n + 1)]
  /\ l2[n + 1] = 0 /\ r2[n + 1] = 0 /\ l2[p] = n + 1
  /\ \A u \in 1..n : r2[u] = r[u] /\ (u # p => l2[u] = l[u])

(* A new leaf on the left of p.                                            *)
LEMMA LeftLeaf ==
  ASSUME NEW n, NEW l, NEW r, NEW top, NEW pos, NEW lo, NEW hi,
         Shape(n, l, r, top, pos, lo, hi), NEW p, NEW l2, NEW r2, Hung(n, l, r, p, l2, r2)
  PROVE  \E pos2, lo2, hi2 :
           /\ Shape(n + 1, l2, r2, top, pos2, lo2, hi2)
           /\ MadeRoom(n, pos, lo, hi, pos2, lo2, hi2)
           /\ \A u \in 1..n : pos2[u] < pos2[n + 1] <=> pos[u] < pos[p]
<1>hung. /\ p \in 1..n /\ l[p] = 0
         /\ l2 \in [1..(n + 1) -> 0..(n + 1)] /\ r2 \in [1..(n + 1) -> 0..(n + 1)]
         /\ l2[n + 1] = 0 /\ r2[n + 1] = 0 /\ l2[p] = n + 1
         /\ \A u \in 1..n : r2[u] = r[u] /\ (u # p => l2[u] = l[u])
  BY DEF Hung
<1> USE <1>hung
<1>1. /\ n \in Nat /\ pos \in [1..n -> Int] /\ lo \in [1..n -> Int] /\ hi \in [1..n -> Int]
      /\ l \in [1..n -> 0..n] /\ r \in [1..n -> 0..n] /\ top \in 0..n /\ (top = 0 => n = 0)
  BY DEF Shape, Ranges, Linked, Rooted
<1>a. n \in Nat /\ top \in 1..n
  BY <1>1
<1>b. pos[p] \in Int /\ lo[p] = pos[p]
  BY NodeFacts
<1> PICK k \in Int : k = pos[p]
  BY <1>b
<1>2. k \in Int /\ k + 1 \in Int /\ lo[p] = k /\ pos[p] = k /\ top \in 1..n
  BY <1>a, <1>b
<1>3. /\ \A u \in 1..n : u \in 1..(n + 1) /\ u # n + 1
      /\ \A u \in 1..(n + 1) : u = n + 1 \/ u \in 1..n
  <2>1. n \in Nat
    BY <1>1
  <2> QED BY <2>1
<1>p. PICK pos2 : Room(n, pos, k, k, pos2)
  <2>1. n \in Nat
    BY <1>1
  <2>2. pos \in [1..n -> Int]
    BY <1>1
  <2> QED BY <2>1, <2>2, <1>2, ShiftedFacts, Zenon
<1>l. PICK lo2 : Room(n, lo, k + 1, k, lo2)
  <2>1. n \in Nat
    BY <1>1
  <2>2. lo \in [1..n -> Int]
    BY <1>1
  <2> QED BY <2>1, <2>2, <1>2, ShiftedFacts, Zenon
<1>h. PICK hi2 : Room(n, hi, k, k, hi2)
  <2>1. n \in Nat
    BY <1>1
  <2>2. hi \in [1..n -> Int]
    BY <1>1
  <2> QED BY <2>1, <2>2, <1>2, ShiftedFacts, Zenon
<1> DEFINE M(u) == Moved(u, k, pos, lo, hi, pos2, lo2, hi2)
<1>4. \A u \in 1..n : M(u)
  <2> SUFFICES ASSUME NEW u \in 1..n PROVE M(u)
    OBVIOUS
  <2>1. /\ pos[u] \in Int /\ lo[u] \in Int /\ hi[u] \in Int
        /\ lo[u] <= pos[u] /\ pos[u] <= hi[u]
    BY NodeFacts
  <2>2. u \in 1..(n + 1)
    BY <1>3
  <2>3. pos2[u] \in Int /\ lo2[u] \in Int /\ hi2[u] \in Int
    BY <2>2, <1>p, <1>l, <1>h DEF Room
  <2>4. pos2[u] = Up(pos[u], k)
    BY <1>p DEF Room
  <2>5. lo2[u] = Up(lo[u], k + 1)
    BY <1>l DEF Room
  <2>6. hi2[u] = Up(hi[u], k)
    BY <1>h DEF Room
  <2> QED BY <2>1, <2>3, <2>4, <2>5, <2>6, <1>2 DEF Moved, Up

<1>x. pos2[n + 1] = k /\ lo2[n + 1] = k /\ hi2[n + 1] = k
  BY <1>p, <1>l, <1>h DEF Room
<1>leaf. ASSUME NEW u \in 1..n
         PROVE  /\ pos2[u] # pos2[n + 1]
                /\ Apart(pos2, lo2, hi2, u, n + 1) /\ Apart(pos2, lo2, hi2, n + 1, u)
                /\ pos2[u] < pos2[n + 1] <=> pos[u] < pos[p]
                /\ lo[u] <= pos[p] => lo2[u] <= pos2[n + 1]
                /\ pos[p] <= hi[u] => pos2[n + 1] <= hi2[u]
  <2>1. M(u) /\ M(p)
    BY <1>4
  <2>2. u = p \/ (pos[u] # pos[p] /\ Apart(pos, lo, hi, u, p))
    BY PairFacts
  <2>3. NewAt(n + 1, k, pos2, lo2, hi2)
    BY <1>x DEF NewAt
  <2>4. CASE u = p
    <3> QED BY <2>1, <2>3, <2>4, <1>2 DEF Moved, Apart, NewAt
  <2>5. CASE u # p
    <3>1. pos[u] # pos[p] /\ Apart(pos, lo, hi, u, p)
      BY <2>5, PairFacts
    <3> QED BY <2>1, <3>1, <2>3, <1>2, MovedLeaf
  <2> QED BY <2>4, <2>5
<1>5. Ranges(n + 1, pos2, lo2, hi2)
  <2>1. ASSUME NEW u \in 1..(n + 1) PROVE lo2[u] <= pos2[u] /\ pos2[u] <= hi2[u]
    <3>1. CASE u = n + 1
      BY <3>1, <1>2, <1>x
    <3>2. CASE u \in 1..n
      <4>1. M(u)
        BY <3>2, <1>4
      <4> QED BY <4>1, <1>2, MovedPair
    <3> QED BY <3>1, <3>2, <1>3
  <2>2. ASSUME NEW u \in 1..n, NEW v \in 1..n, u # v PROVE pos2[u] # pos2[v] /\ Apart(pos2, lo2, hi2, u, v)
    <3>1. pos[u] # pos[v] /\ Apart(pos, lo, hi, u, v)
      BY <2>2, PairFacts
    <3>2. M(u) /\ M(v)
      BY <1>4
    <3> QED BY <1>2, <3>1, <3>2, MovedPair
  <2>3. ASSUME NEW u \in 1..n
        PROVE  /\ pos2[u] # pos2[n + 1]
               /\ Apart(pos2, lo2, hi2, u, n + 1) /\ Apart(pos2, lo2, hi2, n + 1, u)
    BY <1>leaf
  <2>4. ASSUME NEW u \in 1..(n + 1), NEW v \in 1..(n + 1), u # v
        PROVE  pos2[u] # pos2[v] /\ Apart(pos2, lo2, hi2, u, v)
    <3>1. CASE u \in 1..n /\ v \in 1..n
      BY <2>4, <3>1, <2>2
    <3>2. CASE u = n + 1 /\ v \in 1..n
      BY <2>4, <3>2, <2>3
    <3>3. CASE v = n + 1 /\ u \in 1..n
      BY <2>4, <3>3, <2>3
    <3> QED BY <2>4, <3>1, <3>2, <3>3, <1>3
  <2> QED BY <1>p, <1>l, <1>h, <2>1, <2>4 DEF Ranges, Room
<1>6. Linked(n + 1, l2, r2, pos2, lo2, hi2)
  <2> SUFFICES ASSUME NEW u \in 1..(n + 1)
               PROVE  /\ l2[u] = 0 => lo2[u] = pos2[u]
                      /\ l2[u] # 0 => lo2[l2[u]] = lo2[u] /\ hi2[l2[u]] = pos2[u] - 1
                      /\ r2[u] = 0 => hi2[u] = pos2[u]
                      /\ r2[u] # 0 => lo2[r2[u]] = pos2[u] + 1 /\ hi2[r2[u]] = hi2[u]
    BY DEF Linked
  <2>1. CASE u = n + 1
    BY <2>1, <1>x
  <2>2. CASE u \in 1..n
    <3>1. /\ l[u] = 0 => lo[u] = pos[u]
          /\ l[u] # 0 => l[u] \in 1..n /\ lo[l[u]] = lo[u] /\ hi[l[u]] = pos[u] - 1
          /\ r[u] = 0 => hi[u] = pos[u]
          /\ r[u] # 0 => r[u] \in 1..n /\ lo[r[u]] = pos[u] + 1 /\ hi[r[u]] = hi[u]
      BY <2>2, NodeFacts
    <3>2. M(u)
      BY <2>2, <1>4
    <3>3. r2[u] = r[u]
      BY <2>2
    <3>4. r[u] = 0 => hi2[u] = pos2[u]
      BY <3>1, <3>2, <1>2, MovedLink
    <3>5. r[u] # 0 => lo2[r[u]] = pos2[u] + 1 /\ hi2[r[u]] = hi2[u]
      <4> SUFFICES ASSUME r[u] # 0 PROVE lo2[r[u]] = pos2[u] + 1 /\ hi2[r[u]] = hi2[u]
        OBVIOUS
      <4>1. M(r[u])
        BY <3>1, <1>4
      <4> QED BY <3>1, <3>2, <4>1, <1>2, MovedLink
    <3>6. CASE u # p
      <4>1. l2[u] = l[u] /\ pos[u] # k
        BY <2>2, <3>6, <1>2, PairFacts
      <4>2. l[u] = 0 => lo2[u] = pos2[u]
        BY <3>1, <3>2, <4>1, <1>2, MovedLink
      <4>3. l[u] # 0 => lo2[l[u]] = lo2[u] /\ hi2[l[u]] = pos2[u] - 1
        <5> SUFFICES ASSUME l[u] # 0 PROVE lo2[l[u]] = lo2[u] /\ hi2[l[u]] = pos2[u] - 1
          OBVIOUS
        <5>1. M(l[u])
          BY <3>1, <1>4
        <5> QED BY <3>1, <3>2, <4>1, <5>1, <1>2, MovedLink
      <4> QED BY <3>3, <3>4, <3>5, <4>1, <4>2, <4>3
    <3>7. CASE u = p
      <4>1. l2[u] = n + 1 /\ l2[u] # 0
        BY <3>7, <1>a
      <4>2. lo2[u] = k /\ pos2[u] = k + 1
        BY <3>2, <3>7, <1>2 DEF Moved
      <4>3. lo2[n + 1] = lo2[u] /\ hi2[n + 1] = pos2[u] - 1
        BY <4>2, <1>x, <1>2
      <4> QED BY <3>3, <3>4, <3>5, <4>1, <4>3
    <3> QED BY <3>6, <3>7
  <2> QED BY <2>1, <2>2, <1>3
<1>7. Rooted(n + 1, top, pos2, lo2, hi2)
  <2>1. ASSUME NEW u \in 1..(n + 1) PROVE lo2[top] <= pos2[u] /\ pos2[u] <= hi2[top]
    <3>1. CASE u = n + 1
      <4>1. lo[top] <= pos[p] /\ pos[p] <= hi[top]
        BY NodeFacts
      <4> QED BY <3>1, <4>1, <1>2, <1>leaf
    <3>2. CASE u \in 1..n
      <4>1. lo[top] <= pos[u] /\ pos[u] <= hi[top]
        BY <3>2, NodeFacts
      <4>2. M(u) /\ M(top)
        BY <3>2, <1>2, <1>4
      <4> QED BY <4>1, <4>2, <1>2, MovedPair
    <3> QED BY <3>1, <3>2, <1>3
  <2>2. top \in 0..(n + 1) /\ top # 0
    BY <1>a
  <2> QED BY <2>1, <2>2 DEF Rooted
<1>8. MadeRoom(n, pos, lo, hi, pos2, lo2, hi2)
  <2> SUFFICES ASSUME NEW u \in 1..n, NEW v \in 1..n
               PROVE  /\ pos[u] < pos[v] <=> pos2[u] < pos2[v]
                      /\ hi[u] < pos[v] => hi2[u] < pos2[v]
                      /\ pos[v] < lo[u] => pos2[v] < lo2[u]
    BY DEF MadeRoom
  <2>1. M(u) /\ M(v)
    BY <1>4
  <2> QED BY <2>1, <1>2, MovedPair
<1>9. \A u \in 1..n : pos2[u] < pos2[n + 1] <=> pos[u] < pos[p]
  BY <1>leaf
<1>10. n + 1 \in Nat
  BY <1>a
<1> QED BY <1>5, <1>6, <1>7, <1>8, <1>9, <1>10 DEF Shape

(* A new leaf on the right of p.                                           *)
LEMMA RightLeaf ==
  ASSUME NEW n, NEW l, NEW r, NEW top, NEW pos, NEW lo, NEW hi,
         Shape(n, l, r, top, pos, lo, hi), NEW p, NEW l2, NEW r2, Hung(n, r, l, p, r2, l2)
  PROVE  \E pos2, lo2, hi2 :
           /\ Shape(n + 1, l2, r2, top, pos2, lo2, hi2)
           /\ MadeRoom(n, pos, lo, hi, pos2, lo2, hi2)
           /\ \A u \in 1..n : pos2[u] < pos2[n + 1] <=> pos[u] <= pos[p]
<1>1. n \in Nat /\ p \in 1..n
  BY DEF Shape, Hung
<1>2. pos \in [1..n -> Int] /\ lo \in [1..n -> Int] /\ hi \in [1..n -> Int]
  BY DEF Shape, Ranges
<1>3. Shape(n, r, l, top, Neg(n, pos), Neg(n, hi), Neg(n, lo))
  BY Mirrored
<1>4. PICK pos3, lo3, hi3 :
        /\ Shape(n + 1, r2, l2, top, pos3, lo3, hi3)
        /\ MadeRoom(n, Neg(n, pos), Neg(n, hi), Neg(n, lo), pos3, lo3, hi3)
        /\ \A u \in 1..n : pos3[u] < pos3[n + 1] <=> Neg(n, pos)[u] < Neg(n, pos)[p]
  BY <1>3, LeftLeaf
<1>5. Shape(n + 1, l2, r2, top, Neg(n + 1, pos3), Neg(n + 1, hi3), Neg(n + 1, lo3))
  BY <1>4, Mirrored
<1>6. n + 1 \in Nat /\ n + 1 \in 1..(n + 1) /\ \A u \in 1..n : u \in 1..(n + 1) /\ u # n + 1
  BY <1>1
<1>7. /\ pos3 \in [1..(n + 1) -> Int] /\ lo3 \in [1..(n + 1) -> Int] /\ hi3 \in [1..(n + 1) -> Int]
      /\ \A u, v \in 1..(n + 1) : u # v => pos3[u] # pos3[v]
  BY <1>4 DEF Shape, Ranges
<1>8. \A u \in 1..n : /\ Neg(n, pos)[u] = 0 - pos[u] /\ Neg(n, lo)[u] = 0 - lo[u] /\ Neg(n, hi)[u] = 0 - hi[u]
                      /\ pos[u] \in Int /\ lo[u] \in Int /\ hi[u] \in Int
  <2>1. \A u \in 1..n : Neg(n, pos)[u] = 0 - pos[u] /\ pos[u] \in Int
    BY <1>1, <1>2, NegFacts
  <2>2. \A u \in 1..n : Neg(n, lo)[u] = 0 - lo[u] /\ lo[u] \in Int
    BY <1>1, <1>2, NegFacts
  <2>3. \A u \in 1..n : Neg(n, hi)[u] = 0 - hi[u] /\ hi[u] \in Int
    BY <1>1, <1>2, NegFacts
  <2> QED BY <2>1, <2>2, <2>3
<1>9. \A u \in 1..(n + 1) : /\ Neg(n + 1, pos3)[u] = 0 - pos3[u] /\ Neg(n + 1, lo3)[u] = 0 - lo3[u]
                            /\ Neg(n + 1, hi3)[u] = 0 - hi3[u]
                            /\ pos3[u] \in Int /\ lo3[u] \in Int /\ hi3[u] \in Int
  <2>1. \A u \in 1..(n + 1) : Neg(n + 1, pos3)[u] = 0 - pos3[u] /\ pos3[u] \in Int
    BY <1>6, <1>7, NegFacts
  <2>2. \A u \in 1..(n + 1) : Neg(n + 1, lo3)[u] = 0 - lo3[u] /\ lo3[u] \in Int
    BY <1>6, <1>7, NegFacts
  <2>3. \A u \in 1..(n + 1) : Neg(n + 1, hi3)[u] = 0 - hi3[u] /\ hi3[u] \in Int
    BY <1>6, <1>7, NegFacts
  <2> QED BY <2>1, <2>2, <2>3
<1>10. MadeRoom(n, pos, lo, hi, Neg(n + 1, pos3), Neg(n + 1, hi3), Neg(n + 1, lo3))
  <2> SUFFICES ASSUME NEW u \in 1..n, NEW v \in 1..n
               PROVE  /\ pos[u] < pos[v] <=> Neg(n + 1, pos3)[u] < Neg(n + 1, pos3)[v]
                      /\ hi[u] < pos[v] => Neg(n + 1, lo3)[u] < Neg(n + 1, pos3)[v]
                      /\ pos[v] < lo[u] => Neg(n + 1, pos3)[v] < Neg(n + 1, hi3)[u]
    BY DEF MadeRoom
  <2>1. /\ Neg(n, pos)[v] < Neg(n, pos)[u] <=> pos3[v] < pos3[u]
        /\ Neg(n, lo)[u] < Neg(n, pos)[v] => hi3[u] < pos3[v]
        /\ Neg(n, pos)[v] < Neg(n, hi)[u] => pos3[v] < lo3[u]
    BY <1>4 DEF MadeRoom
  <2>2. u \in 1..(n + 1) /\ v \in 1..(n + 1)
    BY <1>6
  <2> QED BY <2>1, <2>2, <1>8, <1>9
<1>11. \A u \in 1..n : Neg(n + 1, pos3)[u] < Neg(n + 1, pos3)[n + 1] <=> pos[u] <= pos[p]
  <2> SUFFICES ASSUME NEW u \in 1..n
               PROVE  Neg(n + 1, pos3)[u] < Neg(n + 1, pos3)[n + 1] <=> pos[u] <= pos[p]
    OBVIOUS
  <2>1. pos3[u] < pos3[n + 1] <=> Neg(n, pos)[u] < Neg(n, pos)[p]
    BY <1>4
  <2>2. u \in 1..(n + 1) /\ pos3[u] # pos3[n + 1]
    BY <1>6, <1>7
  <2>3. Neg(n, pos)[u] = 0 - pos[u] /\ Neg(n, pos)[p] = 0 - pos[p] /\ pos[u] \in Int /\ pos[p] \in Int
    BY <1>1, <1>8
  <2>4. /\ Neg(n + 1, pos3)[u] = 0 - pos3[u] /\ pos3[u] \in Int
        /\ Neg(n + 1, pos3)[n + 1] = 0 - pos3[n + 1] /\ pos3[n + 1] \in Int
    BY <2>2, <1>6, <1>9
  <2> QED BY <2>1, <2>2, <2>3, <2>4
<1> QED BY <1>5, <1>10, <1>11

-----------------------------------------------------------------------------
(* A tree that is turned.                                                  *)

(* The tree turned at t: its near child c goes up in its place.            *)
Turned(n, near, far, top, t, c, near2, far2, top2) ==
  /\ t \in 1..n /\ c \in 1..n /\ near[t] = c
  /\ near2 \in [1..n -> 0..n] /\ far2 \in [1..n -> 0..n]
  /\ near2[t] = far[c] /\ far2[c] = t
  /\ \A u \in 1..n : u # t => near2[u] = IF near[u] = t THEN c ELSE near[u]
  /\ \A u \in 1..n : u # c => far2[u] = IF far[u] = t THEN c ELSE far[u]
  /\ top2 = IF top = t THEN c ELSE top

(* Only the ends where the ranges of t and c meet are others.              *)
Widened(n, t, c, pos, lo, hi, lo2, hi2) ==
  /\ lo2 \in [1..n -> Int] /\ hi2 \in [1..n -> Int]
  /\ lo2[t] = pos[c] + 1 /\ hi2[c] = hi[t]
  /\ \A u \in 1..n : (u # t => lo2[u] = lo[u]) /\ (u # c => hi2[u] = hi[u])

(* The same of t, of c and of another node u.                              *)
Widening(t, c, u, pos, lo, hi, lo2, hi2) ==
  /\ pos[t] \in Int /\ lo[t] \in Int /\ hi[t] \in Int /\ pos[c] \in Int /\ lo[c] \in Int /\ hi[c] \in Int
  /\ pos[u] \in Int /\ lo[u] \in Int /\ hi[u] \in Int
  /\ lo[c] <= pos[c] /\ pos[c] <= hi[c] /\ lo[c] = lo[t] /\ hi[c] = pos[t] - 1 /\ pos[t] <= hi[t]
  /\ lo2[t] = pos[c] + 1 /\ hi2[t] = hi[t] /\ lo2[c] = lo[t] /\ hi2[c] = hi[t]
  /\ lo2[u] = lo[u] /\ hi2[u] = hi[u] /\ lo[u] <= pos[u] /\ pos[u] <= hi[u] /\ pos[u] # pos[c]
  /\ Apart(pos, lo, hi, u, t) /\ Apart(pos, lo, hi, u, c)

(* A range apart from the two that the turn changes stays apart from them. *)
LEMMA TurnedPair ==
  ASSUME NEW pos, NEW lo, NEW hi, NEW lo2, NEW hi2, NEW t, NEW c, NEW u,
         Widening(t, c, u, pos, lo, hi, lo2, hi2)
  PROVE  Apart(pos, lo2, hi2, u, t) /\ Apart(pos, lo2, hi2, u, c)
<1>1. Apart(pos, lo2, hi2, u, t)
  BY DEF Apart, Widening
<1>2. Apart(pos, lo2, hi2, u, c)
  BY DEF Apart, Widening
<1> QED BY <1>1, <1>2

(* No two ranges cross after a turn.                                       *)
LEMMA TurnedApart ==
  ASSUME NEW n, NEW l, NEW r, NEW top, NEW pos, NEW lo, NEW hi,
         Shape(n, l, r, top, pos, lo, hi), NEW t \in 1..n, NEW c \in 1..n, l[t] = c,
         NEW lo2, NEW hi2, Widened(n, t, c, pos, lo, hi, lo2, hi2)
  PROVE  Ranges(n, pos, lo2, hi2)
<1> USE DEF Widened
<1>1. c # 0 /\ c # t
  <2>1. n \in Nat
    BY DEF Shape
  <2>2. l[t] # t
    BY OneParent
  <2> QED BY <2>1, <2>2
<1>2. /\ pos[t] \in Int /\ lo[t] \in Int /\ hi[t] \in Int /\ pos[c] \in Int /\ lo[c] \in Int /\ hi[c] \in Int
      /\ lo[t] <= pos[t] /\ pos[t] <= hi[t] /\ lo[c] <= pos[c] /\ pos[c] <= hi[c]
      /\ lo[c] = lo[t] /\ hi[c] = pos[t] - 1
  <2>1. pos[t] \in Int /\ lo[t] \in Int /\ hi[t] \in Int /\ lo[t] <= pos[t] /\ pos[t] <= hi[t]
    BY NodeFacts, SMTT(30)
  <2>2. pos[c] \in Int /\ lo[c] \in Int /\ hi[c] \in Int /\ lo[c] <= pos[c] /\ pos[c] <= hi[c]
    BY NodeFacts, SMTT(30)
  <2>3. l[t] # 0 => lo[l[t]] = lo[t] /\ hi[l[t]] = pos[t] - 1
    BY NodeFacts, SMTT(30)
  <2> QED BY <2>1, <2>2, <2>3, <1>1
<1>3. lo2[c] = lo[c] /\ hi2[t] = hi[t]
  BY <1>1
<1>4. ASSUME NEW u \in 1..n, u # t, u # c
      PROVE  /\ Apart(pos, lo2, hi2, u, t) /\ Apart(pos, lo2, hi2, u, c)
             /\ Apart(pos, lo2, hi2, t, u) /\ Apart(pos, lo2, hi2, c, u)
  <2>1. /\ pos[u] \in Int /\ lo[u] \in Int /\ hi[u] \in Int /\ lo[u] <= pos[u] /\ pos[u] <= hi[u]
    BY NodeFacts
  <2>2. lo2[u] = lo[u] /\ hi2[u] = hi[u]
    BY <1>4
  <2>3. Apart(pos, lo, hi, u, t) /\ pos[u] # pos[t]
    BY <1>4, PairFacts
  <2>4. Apart(pos, lo, hi, u, c) /\ pos[u] # pos[c]
    BY <1>4, PairFacts
  <2>5. Apart(pos, lo2, hi2, u, t) /\ Apart(pos, lo2, hi2, u, c)
    <3>1. Widening(t, c, u, pos, lo, hi, lo2, hi2)
      BY <2>1, <2>2, <2>3, <2>4, <1>2, <1>3 DEF Widening
    <3> QED BY <3>1, TurnedPair
  <2> QED BY <2>5 DEF Apart
<1>5. Apart(pos, lo2, hi2, t, c) /\ Apart(pos, lo2, hi2, c, t)
  BY <1>2, <1>3 DEF Apart
<1>6. ASSUME NEW u \in 1..n, NEW v \in 1..n, u # v PROVE pos[u] # pos[v] /\ Apart(pos, lo2, hi2, u, v)
  <2>1. pos[u] # pos[v] /\ Apart(pos, lo, hi, u, v)
    BY <1>6, PairFacts
  <2>2. CASE u \notin {t, c} /\ v \notin {t, c}
    <3>1. lo2[u] = lo[u] /\ hi2[u] = hi[u] /\ lo2[v] = lo[v] /\ hi2[v] = hi[v]
      BY <2>2
    <3> QED BY <2>1, <3>1 DEF Apart
  <2>3. CASE u \in {t, c} \/ v \in {t, c}
    BY <2>1, <2>3, <1>4, <1>5, <1>6
  <2> QED BY <2>2, <2>3
<1>7. ASSUME NEW u \in 1..n PROVE lo2[u] <= pos[u] /\ pos[u] <= hi2[u]
  <2>1. pos[u] \in Int /\ lo[u] <= pos[u] /\ pos[u] <= hi[u]
    BY NodeFacts
  <2>2. CASE u = t
    BY <2>2, <1>2, <1>3
  <2>3. CASE u = c
    BY <2>3, <1>2, <1>3
  <2> QED BY <2>1, <2>2, <2>3
<1>8. pos \in [1..n -> Int]
  BY DEF Shape, Ranges
<1> QED BY <1>6, <1>7, <1>8 DEF Ranges

(* The places stay, and only the ranges of the node and of its left child  *)
(* change.                                                                 *)
LEMMA TurnedLeft ==
  ASSUME NEW n, NEW l, NEW r, NEW top, NEW pos, NEW lo, NEW hi,
         Shape(n, l, r, top, pos, lo, hi), NEW t, NEW c, NEW l2, NEW r2, NEW top2,
         Turned(n, l, r, top, t, c, l2, r2, top2)
  PROVE  \E lo2, hi2 :
           Shape(n, l2, r2, top2, pos, lo2, hi2) /\ Widened(n, t, c, pos, lo, hi, lo2, hi2)
<1>1. /\ t \in 1..n /\ c \in 1..n /\ l[t] = c
      /\ l2 \in [1..n -> 0..n] /\ r2 \in [1..n -> 0..n]
      /\ l2[t] = r[c] /\ r2[c] = t
      /\ \A u \in 1..n : u # t => l2[u] = IF l[u] = t THEN c ELSE l[u]
      /\ \A u \in 1..n : u # c => r2[u] = IF r[u] = t THEN c ELSE r[u]
      /\ top2 = IF top = t THEN c ELSE top
  BY DEF Turned
<1>2. n \in Nat /\ pos \in [1..n -> Int] /\ lo \in [1..n -> Int] /\ hi \in [1..n -> Int]
  BY DEF Shape, Ranges
<1>3. c # 0 /\ t # 0
  <2>1. n \in Nat
    BY <1>2
  <2> QED BY <2>1, <1>1
<1>4. c # t /\ top \in 1..n /\ top # c
  BY <1>1, OneParent
<1>5. /\ pos[t] \in Int /\ lo[t] \in Int /\ hi[t] \in Int /\ pos[c] \in Int /\ lo[c] \in Int /\ hi[c] \in Int
      /\ lo[c] = lo[t] /\ hi[c] = pos[t] - 1
  <2>1. pos[t] \in Int /\ lo[t] \in Int /\ hi[t] \in Int
    BY <1>1, NodeFacts
  <2>2. pos[c] \in Int /\ lo[c] \in Int /\ hi[c] \in Int
    BY <1>1, NodeFacts
  <2>3. l[t] # 0 => lo[l[t]] = lo[t] /\ hi[l[t]] = pos[t] - 1
    BY <1>1, NodeFacts
  <2> QED BY <2>1, <2>2, <2>3, <1>1, <1>3
<1>6. PICK lo2 \in [1..n -> Int] : lo2[t] = pos[c] + 1 /\ \A u \in 1..n : u # t => lo2[u] = lo[u]
  <2>1. [lo EXCEPT ![t] = pos[c] + 1] \in [1..n -> Int]
    <3>1. pos[c] + 1 \in Int
      BY <1>5
    <3> QED BY <3>1, <1>2
  <2>2. \A u \in 1..n : [lo EXCEPT ![t] = pos[c] + 1][u] = IF u = t THEN pos[c] + 1 ELSE lo[u]
    BY <1>2
  <2> QED BY <2>1, <2>2, <1>1
<1>7. PICK hi2 \in [1..n -> Int] : hi2[c] = hi[t] /\ \A u \in 1..n : u # c => hi2[u] = hi[u]
  <2>1. [hi EXCEPT ![c] = hi[t]] \in [1..n -> Int]
    BY <1>2, <1>5
  <2>2. \A u \in 1..n : [hi EXCEPT ![c] = hi[t]][u] = IF u = c THEN hi[t] ELSE hi[u]
    BY <1>2
  <2> QED BY <2>1, <2>2, <1>1
<1>8. Ranges(n, pos, lo2, hi2)
  <2>1. \A u \in 1..n : (u # t => lo2[u] = lo[u]) /\ (u # c => hi2[u] = hi[u])
    BY <1>6, <1>7
  <2>2. Widened(n, t, c, pos, lo, hi, lo2, hi2)
    BY <2>1, <1>6, <1>7 DEF Widened
  <2> QED BY <2>2, <1>1, TurnedApart
<1>9. lo2[c] = lo[t] /\ hi2[t] = hi[t]
  BY <1>1, <1>4, <1>5, <1>6, <1>7
<1>10. Linked(n, l2, r2, pos, lo2, hi2)
  <2> SUFFICES ASSUME NEW u \in 1..n
               PROVE  /\ l2[u] = 0 => lo2[u] = pos[u]
                      /\ l2[u] # 0 => lo2[l2[u]] = lo2[u] /\ hi2[l2[u]] = pos[u] - 1
                      /\ r2[u] = 0 => hi2[u] = pos[u]
                      /\ r2[u] # 0 => lo2[r2[u]] = pos[u] + 1 /\ hi2[r2[u]] = hi2[u]
    BY <1>1 DEF Linked
  <2>1. /\ l[u] = 0 => lo[u] = pos[u]
        /\ l[u] # 0 => l[u] \in 1..n /\ lo[l[u]] = lo[u] /\ hi[l[u]] = pos[u] - 1
        /\ r[u] = 0 => hi[u] = pos[u]
        /\ r[u] # 0 => r[u] \in 1..n /\ lo[r[u]] = pos[u] + 1 /\ hi[r[u]] = hi[u]
    BY NodeFacts
  <2>2. /\ r[c] = 0 => hi[c] = pos[c]
        /\ r[c] # 0 => r[c] \in 1..n /\ lo[r[c]] = pos[c] + 1 /\ hi[r[c]] = hi[c]
    BY <1>1, NodeFacts
  <2>3. CASE u = t
    <3>1. l2[u] = 0 => lo2[u] = pos[u]
      BY <2>2, <2>3, <1>1, <1>5, <1>6
    <3>2. ASSUME l2[u] # 0 PROVE lo2[l2[u]] = lo2[u] /\ hi2[l2[u]] = pos[u] - 1
      <4>1. l2[u] = r[c] /\ r[c] \in 1..n /\ r[c] # c
        BY <2>2, <2>3, <3>2, <1>1, OneParent
      <4>2. r[c] # t
        BY <4>1, <2>2, <1>1, <1>5, NodeFacts
      <4> QED BY <4>1, <4>2, <2>2, <2>3, <1>5, <1>6, <1>7
    <3>3. r[u] # t /\ u # c
      BY <2>3, <1>1, <1>4, OneParent
    <3>4. r2[u] = r[u]
      BY <3>3, <1>1
    <3>5. r[u] # 0 => r[u] # c
      BY <1>1, <1>3, OneParent
    <3>6. r2[u] = 0 => hi2[u] = pos[u]
      BY <3>4, <2>1, <2>3, <1>9
    <3>7. ASSUME r2[u] # 0 PROVE lo2[r2[u]] = pos[u] + 1 /\ hi2[r2[u]] = hi2[u]
      <4>1. r[u] \in 1..n /\ r[u] # t /\ r[u] # c /\ lo[r[u]] = pos[u] + 1 /\ hi[r[u]] = hi[u]
        BY <3>3, <3>4, <3>5, <3>7, <2>1
      <4>2. lo2[r[u]] = lo[r[u]] /\ hi2[r[u]] = hi[r[u]]
        BY <4>1, <1>6, <1>7
      <4> QED BY <4>1, <4>2, <3>4, <2>3, <1>9
    <3> QED BY <3>1, <3>2, <3>6, <3>7
  <2>4. CASE u = c
    <3>1. l[u] # t /\ l[u] # c
      <4>1. l[c] # c
        BY <1>1, OneParent
      <4>2. l[c] # 0 => hi[l[c]] = pos[c] - 1
        BY <2>1, <2>4
      <4>3. pos[t] <= hi[t] /\ pos[c] <= hi[c]
        BY <1>1, NodeFacts
      <4>4. l[c] # t
        BY <4>2, <4>3, <1>3, <1>5
      <4> QED BY <4>1, <4>4, <2>4
    <3>2. l2[u] = l[u] /\ r2[u] = t
      BY <3>1, <2>4, <1>1, <1>4
    <3> QED BY <3>1, <3>2, <2>1, <2>4, <1>1, <1>3, <1>4, <1>5, <1>6, <1>7, <1>9
  <2>5. CASE u # t /\ u # c
    <3>1. lo2[u] = lo[u] /\ hi2[u] = hi[u]
      BY <2>5, <1>6, <1>7
    <3>2. l2[u] = IF l[u] = t THEN c ELSE l[u]
      BY <2>5, <1>1
    <3>3. r2[u] = IF r[u] = t THEN c ELSE r[u]
      BY <2>5, <1>1
    <3>4. l[u] # c /\ r[u] # c
      BY <2>5, <1>1, <1>3, OneParent
    <3>5. /\ l2[u] = 0 => lo2[u] = pos[u]
          /\ l2[u] # 0 => lo2[l2[u]] = lo2[u] /\ hi2[l2[u]] = pos[u] - 1
      <4>1. CASE l[u] = t
        BY <4>1, <3>1, <3>2, <2>1, <1>3, <1>5, <1>7, <1>9
      <4>2. CASE l[u] # t
        BY <4>2, <3>1, <3>2, <3>4, <2>1, <1>6, <1>7
      <4> QED BY <4>1, <4>2
    <3>6. /\ r2[u] = 0 => hi2[u] = pos[u]
          /\ r2[u] # 0 => lo2[r2[u]] = pos[u] + 1 /\ hi2[r2[u]] = hi2[u]
      <4>1. CASE r[u] = t
        BY <4>1, <3>1, <3>3, <2>1, <1>3, <1>5, <1>7, <1>9
      <4>2. CASE r[u] # t
        BY <4>2, <3>1, <3>3, <3>4, <2>1, <1>6, <1>7
      <4> QED BY <4>1, <4>2
    <3> QED BY <3>5, <3>6
  <2> QED BY <2>3, <2>4, <2>5
<1>11. Rooted(n, top2, pos, lo2, hi2)
  <2>1. ASSUME NEW u \in 1..n PROVE lo2[top2] <= pos[u] /\ pos[u] <= hi2[top2]
    <3>1. lo[top] <= pos[u] /\ pos[u] <= hi[top]
      BY NodeFacts
    <3> QED BY <3>1, <1>1, <1>4, <1>6, <1>7, <1>9
  <2>2. top2 \in 1..n
    BY <1>1, <1>4
  <2>3. top2 \in 0..n /\ top2 # 0
    BY <2>2, <1>2
  <2> QED BY <2>1, <2>3 DEF Rooted
<1>12. Shape(n, l2, r2, top2, pos, lo2, hi2)
  BY <1>2, <1>8, <1>10, <1>11 DEF Shape
<1>13. Widened(n, t, c, pos, lo, hi, lo2, hi2)
  BY <1>6, <1>7 DEF Widened
<1> QED BY <1>12, <1>13

(* The same in the mirror.                                                 *)
WidenedBack(n, t, c, pos, lo, hi, lo2, hi2) ==
  /\ lo2 \in [1..n -> Int] /\ hi2 \in [1..n -> Int]
  /\ hi2[t] = pos[c] - 1 /\ lo2[c] = lo[t]
  /\ \A u \in 1..n : (u # t => hi2[u] = hi[u]) /\ (u # c => lo2[u] = lo[u])

(* To count from the right twice is to count from the left.                *)
LEMMA NegNeg ==
  ASSUME NEW n \in Nat, NEW f \in [1..n -> Int]
  PROVE  Neg(n, Neg(n, f)) = f
<1>1. Neg(n, f) \in [1..n -> Int] /\ \A u \in 1..n : Neg(n, f)[u] = 0 - f[u]
  BY NegFacts
<1>2. Neg(n, Neg(n, f)) \in [1..n -> Int] /\ \A u \in 1..n : Neg(n, Neg(n, f))[u] = 0 - Neg(n, f)[u]
  BY <1>1, NegFacts
<1>3. \A u \in 1..n : Neg(n, Neg(n, f))[u] = f[u]
  BY <1>1, <1>2
<1> QED BY <1>2, <1>3

(* The same for a turn towards the right child.                            *)
LEMMA TurnedRight ==
  ASSUME NEW n, NEW l, NEW r, NEW top, NEW pos, NEW lo, NEW hi,
         Shape(n, l, r, top, pos, lo, hi), NEW t, NEW c, NEW l2, NEW r2, NEW top2,
         Turned(n, r, l, top, t, c, r2, l2, top2)
  PROVE  \E lo2, hi2 :
           Shape(n, l2, r2, top2, pos, lo2, hi2) /\ WidenedBack(n, t, c, pos, lo, hi, lo2, hi2)
<1>1. n \in Nat /\ t \in 1..n /\ c \in 1..n
  BY DEF Shape, Turned
<1>2. pos \in [1..n -> Int] /\ lo \in [1..n -> Int] /\ hi \in [1..n -> Int]
  BY DEF Shape, Ranges
<1>3. Shape(n, r, l, top, Neg(n, pos), Neg(n, hi), Neg(n, lo))
  BY Mirrored
<1>4. PICK lo3, hi3 : /\ Shape(n, r2, l2, top2, Neg(n, pos), lo3, hi3)
                      /\ Widened(n, t, c, Neg(n, pos), Neg(n, hi), Neg(n, lo), lo3, hi3)
  BY <1>3, TurnedLeft
<1>5. Shape(n, l2, r2, top2, Neg(n, Neg(n, pos)), Neg(n, hi3), Neg(n, lo3))
  BY <1>4, Mirrored
<1>6. Neg(n, Neg(n, pos)) = pos
  BY <1>1, <1>2, NegNeg
<1>7. lo3 \in [1..n -> Int] /\ hi3 \in [1..n -> Int]
  BY <1>4 DEF Widened
<1>8. \A u \in 1..n : Neg(n, pos)[u] = 0 - pos[u] /\ pos[u] \in Int
  BY <1>1, <1>2, NegFacts
<1>9. \A u \in 1..n : Neg(n, lo)[u] = 0 - lo[u] /\ lo[u] \in Int
  BY <1>1, <1>2, NegFacts
<1>10. \A u \in 1..n : Neg(n, hi)[u] = 0 - hi[u] /\ hi[u] \in Int
  BY <1>1, <1>2, NegFacts
<1>11. Neg(n, lo3) \in [1..n -> Int] /\ \A u \in 1..n : Neg(n, lo3)[u] = 0 - lo3[u] /\ lo3[u] \in Int
  BY <1>1, <1>7, NegFacts
<1>12. Neg(n, hi3) \in [1..n -> Int] /\ \A u \in 1..n : Neg(n, hi3)[u] = 0 - hi3[u] /\ hi3[u] \in Int
  BY <1>1, <1>7, NegFacts
<1>13. Neg(n, lo3)[t] = pos[c] - 1 /\ Neg(n, hi3)[c] = lo[t]
  <2>1. lo3[t] = Neg(n, pos)[c] + 1 /\ hi3[c] = Neg(n, lo)[t]
    BY <1>4 DEF Widened
  <2>2. Neg(n, pos)[c] = 0 - pos[c] /\ pos[c] \in Int /\ Neg(n, lo)[t] = 0 - lo[t] /\ lo[t] \in Int
    BY <1>1, <1>8, <1>9
  <2>3. Neg(n, lo3)[t] = 0 - lo3[t] /\ Neg(n, hi3)[c] = 0 - hi3[c]
    BY <1>1, <1>11, <1>12
  <2>4. Neg(n, lo3)[t] = pos[c] - 1
    BY <2>1, <2>2, <2>3
  <2>5. Neg(n, hi3)[c] = lo[t]
    BY <2>1, <2>2, <2>3
  <2> QED BY <2>4, <2>5
<1>14. ASSUME NEW u \in 1..n
       PROVE  (u # t => Neg(n, lo3)[u] = hi[u]) /\ (u # c => Neg(n, hi3)[u] = lo[u])
  <2>1. (u # t => lo3[u] = Neg(n, hi)[u]) /\ (u # c => hi3[u] = Neg(n, lo)[u])
    BY <1>4 DEF Widened
  <2>2. Neg(n, lo)[u] = 0 - lo[u] /\ lo[u] \in Int /\ Neg(n, hi)[u] = 0 - hi[u] /\ hi[u] \in Int
    BY <1>9, <1>10
  <2>3. /\ Neg(n, lo3)[u] = 0 - lo3[u] /\ lo3[u] \in Int
        /\ Neg(n, hi3)[u] = 0 - hi3[u] /\ hi3[u] \in Int
    BY <1>11, <1>12
  <2>4. u # t => Neg(n, lo3)[u] = hi[u]
    BY <2>1, <2>2, <2>3
  <2>5. u # c => Neg(n, hi3)[u] = lo[u]
    BY <2>1, <2>2, <2>3
  <2> QED BY <2>4, <2>5
<1>15. WidenedBack(n, t, c, pos, lo, hi, Neg(n, hi3), Neg(n, lo3))
  BY <1>11, <1>12, <1>13, <1>14 DEF WidenedBack
<1> QED BY <1>5, <1>6, <1>15

-----------------------------------------------------------------------------
(* Subtrees, depth and order.                                              *)

(* u is in the subtree of t.                                               *)
In(pos, lo, hi, u, t) == lo[t] <= pos[u] /\ pos[u] <= hi[t]

(* A node in the range of t has its own range there, on one side of t.     *)
LEMMA Nested ==
  ASSUME NEW n, NEW l, NEW r, NEW top, NEW pos, NEW lo, NEW hi,
         Shape(n, l, r, top, pos, lo, hi), NEW u \in 1..n, NEW t \in 1..n, In(pos, lo, hi, u, t)
  PROVE  /\ lo[t] <= lo[u] /\ hi[u] <= hi[t]
         /\ u = t \/ hi[u] < pos[t] \/ pos[t] < lo[u]
<1>1. pos[u] \in Int /\ lo[u] \in Int /\ hi[u] \in Int /\ lo[u] <= pos[u] /\ pos[u] <= hi[u]
  BY NodeFacts
<1>2. pos[t] \in Int /\ lo[t] \in Int /\ hi[t] \in Int /\ lo[t] <= pos[t] /\ pos[t] <= hi[t]
  BY NodeFacts
<1>3. CASE u = t
  BY <1>1, <1>3
<1>4. CASE u # t
  <2>1. Apart(pos, lo, hi, u, t)
    BY <1>4, PairFacts
  <2>2. Apart(pos, lo, hi, u, t) /\ In(pos, lo, hi, u, t)
    BY <2>1
  <2> QED BY <2>2, <1>1, <1>2 DEF Apart, In
<1> QED BY <1>3, <1>4

(* Below t, on the left and on the right, are the nodes in the range of t. *)
LEMMA InLeft ==
  ASSUME NEW n, NEW l, NEW r, NEW top, NEW pos, NEW lo, NEW hi,
         Shape(n, l, r, top, pos, lo, hi), NEW u \in 1..n, NEW t \in 1..n
  PROVE  lo[t] <= pos[u] /\ pos[u] < pos[t] <=> l[t] # 0 /\ In(pos, lo, hi, u, l[t])
<1>1. pos[u] \in Int /\ pos[t] \in Int /\ lo[t] \in Int
  BY NodeFacts
<1>2. /\ l[t] = 0 => lo[t] = pos[t]
      /\ l[t] # 0 => lo[l[t]] = lo[t] /\ hi[l[t]] = pos[t] - 1
  BY NodeFacts
<1> QED BY <1>1, <1>2 DEF In

(* And on the right.                                                       *)
LEMMA InRight ==
  ASSUME NEW n, NEW l, NEW r, NEW top, NEW pos, NEW lo, NEW hi,
         Shape(n, l, r, top, pos, lo, hi), NEW u \in 1..n, NEW t \in 1..n
  PROVE  pos[t] < pos[u] /\ pos[u] <= hi[t] <=> r[t] # 0 /\ In(pos, lo, hi, u, r[t])
<1>1. pos[u] \in Int /\ pos[t] \in Int /\ hi[t] \in Int
  BY NodeFacts
<1>2. /\ r[t] = 0 => hi[t] = pos[t]
      /\ r[t] # 0 => lo[r[t]] = pos[t] + 1 /\ hi[r[t]] = hi[t]
  BY NodeFacts
<1> QED BY <1>1, <1>2 DEF In

(* A node below t is t, or below its left or its right child.              *)
LEMMA InParts ==
  ASSUME NEW n, NEW l, NEW r, NEW top, NEW pos, NEW lo, NEW hi,
         Shape(n, l, r, top, pos, lo, hi), NEW u \in 1..n, NEW t \in 1..n
  PROVE  In(pos, lo, hi, u, t) <=>
           \/ u = t
           \/ l[t] # 0 /\ In(pos, lo, hi, u, l[t])
           \/ r[t] # 0 /\ In(pos, lo, hi, u, r[t])
<1>1. pos[u] \in Int
  BY NodeFacts
<1>2. pos[t] \in Int /\ lo[t] \in Int /\ hi[t] \in Int /\ lo[t] <= pos[t] /\ pos[t] <= hi[t]
  BY NodeFacts
<1>3. u # t => pos[u] # pos[t]
  BY PairFacts
<1>4. lo[t] <= pos[u] /\ pos[u] < pos[t] <=> l[t] # 0 /\ In(pos, lo, hi, u, l[t])
  BY InLeft
<1>5. pos[t] < pos[u] /\ pos[u] <= hi[t] <=> r[t] # 0 /\ In(pos, lo, hi, u, r[t])
  BY InRight
<1>6. In(pos, lo, hi, u, t) <=> \/ u = t
                                \/ lo[t] <= pos[u] /\ pos[u] < pos[t]
                                \/ pos[t] < pos[u] /\ pos[u] <= hi[t]
  BY <1>1, <1>2, <1>3 DEF In
<1> QED BY <1>4, <1>5, <1>6

(* A child's range is part of its parent's, and shorter.                   *)
LEMMA ChildFacts ==
  ASSUME NEW n, NEW l, NEW r, NEW top, NEW pos, NEW lo, NEW hi,
         Shape(n, l, r, top, pos, lo, hi), NEW t \in 1..n, NEW c \in {l[t], r[t]}, c # 0
  PROVE  /\ c \in 1..n /\ c # t /\ In(pos, lo, hi, c, t) /\ ~In(pos, lo, hi, t, c)
         /\ lo[t] <= lo[c] /\ hi[c] <= hi[t]
         /\ hi[c] - lo[c] \in Nat /\ hi[t] - lo[t] \in Nat /\ hi[c] - lo[c] < hi[t] - lo[t]
<1>1. pos[t] \in Int /\ lo[t] \in Int /\ hi[t] \in Int /\ lo[t] <= pos[t] /\ pos[t] <= hi[t]
  BY NodeFacts
<1>2. c \in 1..n
  BY NodeFacts
<1>3. pos[c] \in Int /\ lo[c] \in Int /\ hi[c] \in Int /\ lo[c] <= pos[c] /\ pos[c] <= hi[c]
  BY <1>2, NodeFacts
<1>4. \/ lo[c] = lo[t] /\ hi[c] = pos[t] - 1
      \/ lo[c] = pos[t] + 1 /\ hi[c] = hi[t]
  BY NodeFacts
<1>5. In(pos, lo, hi, c, t) /\ ~In(pos, lo, hi, t, c)
  BY <1>1, <1>3, <1>4 DEF In
<1>6. lo[t] <= lo[c] /\ hi[c] <= hi[t]
  BY <1>1, <1>3, <1>4
<1>7. hi[c] - lo[c] \in Nat /\ hi[t] - lo[t] \in Nat /\ hi[c] - lo[c] < hi[t] - lo[t]
  BY <1>1, <1>3, <1>4
<1>8. c # t
  BY <1>1, <1>3, <1>4
<1> QED BY <1>2, <1>5, <1>6, <1>7, <1>8

(* Of some nodes one has a range as short as any.                          *)
LEMMA LeastNode ==
  ASSUME NEW n, NEW l, NEW r, NEW top, NEW pos, NEW lo, NEW hi,
         Shape(n, l, r, top, pos, lo, hi), NEW P, P \subseteq 1..n, P # {}
  PROVE  \E t \in P : \A u \in P : ~(hi[u] - lo[u] < hi[t] - lo[t])
<1> DEFINE T == {hi[u] - lo[u] : u \in P}
<1>1. \A u \in P : hi[u] - lo[u] \in Nat
  <2> SUFFICES ASSUME NEW u \in P PROVE hi[u] - lo[u] \in Nat
    OBVIOUS
  <2>1. u \in 1..n
    OBVIOUS
  <2>2. pos[u] \in Int /\ lo[u] \in Int /\ hi[u] \in Int /\ lo[u] <= pos[u] /\ pos[u] <= hi[u]
    BY <2>1, NodeFacts
  <2> QED BY <2>2
<1>2. T \subseteq Nat /\ T # {}
  BY <1>1
<1>3. PICK k \in T : \A m \in T : k <= m
  <2> HIDE DEF T
  <2> QED BY <1>2, LeastIn
<1>4. PICK t \in P : k = hi[t] - lo[t]
  OBVIOUS
<1>5. \A u \in P : hi[t] - lo[t] <= hi[u] - lo[u]
  BY <1>3, <1>4
<1>6. \A u \in P : ~(hi[u] - lo[u] < hi[t] - lo[t])
  BY <1>1, <1>5
<1> QED BY <1>6

(* The nodes of a subtree.                                                 *)
LEMMA UnderFacts ==
  ASSUME NEW pos, NEW lo, NEW hi, Shape(Len(val), left, right, root, pos, lo, hi)
  PROVE  \A t \in 0..Len(val) :
           Under[t] = IF t = 0 THEN {} ELSE {u \in TreeNodes : In(pos, lo, hi, u, t)}
<1> DEFINE n == Len(val)
           g == [t \in 0..n |-> IF t = 0 THEN {} ELSE {u \in 1..n : In(pos, lo, hi, u, t)}]
           F == [t \in 0..n |-> IF t = Null THEN {} ELSE {t} \union Under[left[t]] \union Under[right[t]]]
           G(f) == [t \in 0..n |-> IF t = Null THEN {} ELSE {t} \union f[left[t]] \union f[right[t]]]
<1>1. n \in Nat /\ left \in [1..n -> 0..n] /\ right \in [1..n -> 0..n]
  BY DEF Shape, Linked
<1>2. ASSUME NEW t \in 1..n
      PROVE  /\ left[t] \in 0..n /\ right[t] \in 0..n /\ t \in 0..n /\ t # 0
             /\ g[t] = {t} \union g[left[t]] \union g[right[t]]
  <2>1. left[t] \in 0..n /\ right[t] \in 0..n /\ t \in 0..n /\ t # 0
    BY <1>1
  <2>2. \A u \in 1..n : In(pos, lo, hi, u, t) <=>
                          \/ u = t
                          \/ left[t] # 0 /\ In(pos, lo, hi, u, left[t])
                          \/ right[t] # 0 /\ In(pos, lo, hi, u, right[t])
    BY InParts
  <2>3. g[t] = {u \in 1..n : In(pos, lo, hi, u, t)}
    BY <2>1
  <2>4. g[left[t]] = {u \in 1..n : left[t] # 0 /\ In(pos, lo, hi, u, left[t])}
    BY <2>1
  <2>5. g[right[t]] = {u \in 1..n : right[t] # 0 /\ In(pos, lo, hi, u, right[t])}
    BY <2>1
  <2> QED BY <2>1, <2>2, <2>3, <2>4, <2>5
<1>3. g = G(g)
  <2>1. \A t \in 0..n : g[t] = IF t = Null THEN {} ELSE {t} \union g[left[t]] \union g[right[t]]
    <3> SUFFICES ASSUME NEW t \in 0..n
                 PROVE  g[t] = IF t = Null THEN {} ELSE {t} \union g[left[t]] \union g[right[t]]
      OBVIOUS
    <3>1. CASE t = 0
      BY <3>1 DEF Null
    <3>2. CASE t # 0
      <4>1. t \in 1..n
        BY <3>2, <1>1
      <4>2. g[t] = {t} \union g[left[t]] \union g[right[t]]
        BY <4>1, <1>2
      <4> HIDE DEF g
      <4> QED BY <3>2, <4>2 DEF Null
    <3> QED BY <3>1, <3>2
  <2>2. g = [t \in 0..n |-> g[t]]
    OBVIOUS
  <2> HIDE DEF g
  <2> QED BY <2>1, <2>2
<1> HIDE DEF g
<1>4. Under = CHOOSE f : f = G(f)
  BY DEF Under
<1>5. Under = G(Under)
  <2> HIDE DEF G
  <2> QED BY <1>3, <1>4
<1>6. \A t \in 0..n : Under[t] = IF t = Null THEN {} ELSE {t} \union Under[left[t]] \union Under[right[t]]
  <2> DEFINE U == Under
  <2>1. U = G(U)
    BY <1>5
  <2> HIDE DEF U
  <2>2. \A t \in 0..n : U[t] = IF t = Null THEN {} ELSE {t} \union U[left[t]] \union U[right[t]]
    BY <2>1
  <2> QED BY <2>2 DEF U
<1>7. \A t \in 0..n : Under[t] = g[t]
  <2> DEFINE P == {t \in 1..n : Under[t] # g[t]}
  <2>1. Under[0] = {} /\ g[0] = {}
    <3>1. 0 \in 0..n
      BY <1>1
    <3> QED BY <3>1, <1>6 DEF Null, g
  <2>2. CASE P = {}
    <3>1. \A t \in 0..n : t = 0 \/ t \in 1..n
      BY <1>1
    <3>2. \A t \in 1..n : Under[t] = g[t]
      BY <2>2
    <3> QED BY <2>1, <3>1, <3>2
  <2>3. CASE P # {}
    <3>1. PICK t \in P : \A u \in P : ~(hi[u] - lo[u] < hi[t] - lo[t])
      BY <2>3, LeastNode
    <3>2. t \in 1..n /\ Under[t] # g[t]
      OBVIOUS
    <3>3. \A c \in {left[t], right[t]} : Under[c] = g[c]
      <4> SUFFICES ASSUME NEW c \in {left[t], right[t]}, Under[c] # g[c] PROVE FALSE
        OBVIOUS
      <4>1. c # 0
        BY <2>1
      <4>2. c \in 1..n /\ hi[c] - lo[c] < hi[t] - lo[t]
        BY <3>2, <4>1, ChildFacts
      <4>3. c \in P
        BY <4>2
      <4> QED BY <3>1, <4>2, <4>3
    <3>4. Under[t] = {t} \union Under[left[t]] \union Under[right[t]]
      BY <3>2, <1>2, <1>6 DEF Null
    <3>5. g[t] = {t} \union g[left[t]] \union g[right[t]]
      BY <3>2, <1>2
    <3> QED BY <3>2, <3>3, <3>4, <3>5
  <2> QED BY <2>2, <2>3
<1> QED BY <1>7 DEF g, TreeNodes

(* Its height, once every node of the tree knows it.                       *)
LEMMA TrueHeightFacts ==
  ASSUME NEW pos, NEW lo, NEW hi, Shape(Len(val), left, right, root, pos, lo, hi),
         \A t \in TreeNodes : height[t] = Measured(left[t], right[t])
  PROVE  \A t \in TreeNodes : TrueHeight[t] = height[t]
<1> DEFINE n == Len(val)
           g == [t \in 0..n |-> GetHeight(t)]
           G(f) == [t \in 0..n |-> IF t = Null THEN 0 ELSE Larger(f[left[t]], f[right[t]]) + 1]
<1>1. n \in Nat /\ left \in [1..n -> 0..n] /\ right \in [1..n -> 0..n]
  BY DEF Shape, Linked
<1>2. ASSUME NEW t \in 1..n
      PROVE  /\ left[t] \in 0..n /\ right[t] \in 0..n /\ t \in 0..n /\ t # 0
             /\ g[t] = Larger(g[left[t]], g[right[t]]) + 1
  <2>1. left[t] \in 0..n /\ right[t] \in 0..n /\ t \in 0..n /\ t # 0
    BY <1>1
  <2>2. g[t] = height[t] /\ g[left[t]] = GetHeight(left[t]) /\ g[right[t]] = GetHeight(right[t])
    BY <2>1 DEF GetHeight, Null
  <2> QED BY <2>1, <2>2 DEF Measured, TreeNodes
<1>3. g = G(g)
  <2>1. \A t \in 0..n : g[t] = IF t = Null THEN 0 ELSE Larger(g[left[t]], g[right[t]]) + 1
    <3> SUFFICES ASSUME NEW t \in 0..n
                 PROVE  g[t] = IF t = Null THEN 0 ELSE Larger(g[left[t]], g[right[t]]) + 1
      OBVIOUS
    <3>1. CASE t = 0
      BY <3>1 DEF Null, GetHeight
    <3>2. CASE t # 0
      <4>1. t \in 1..n
        BY <3>2, <1>1
      <4>2. g[t] = Larger(g[left[t]], g[right[t]]) + 1
        BY <4>1, <1>2
      <4> HIDE DEF g
      <4> QED BY <3>2, <4>2 DEF Null
    <3> QED BY <3>1, <3>2
  <2>2. g = [t \in 0..n |-> g[t]]
    OBVIOUS
  <2> HIDE DEF g
  <2> QED BY <2>1, <2>2
<1>0. g[0] = 0
  BY <1>1 DEF GetHeight, Null
<1>g. \A t \in 1..n : g[t] = height[t]
  BY <1>2 DEF GetHeight, Null
<1> HIDE DEF g
<1>4. TrueHeight = CHOOSE f : f = G(f)
  BY DEF TrueHeight
<1>5. TrueHeight = G(TrueHeight)
  <2> HIDE DEF G
  <2> QED BY <1>3, <1>4
<1>6. \A t \in 0..n : TrueHeight[t] =
        IF t = Null THEN 0 ELSE Larger(TrueHeight[left[t]], TrueHeight[right[t]]) + 1
  <2> DEFINE U == TrueHeight
  <2>1. U = G(U)
    BY <1>5
  <2> HIDE DEF U
  <2>2. \A t \in 0..n : U[t] = IF t = Null THEN 0 ELSE Larger(U[left[t]], U[right[t]]) + 1
    BY <2>1
  <2> QED BY <2>2 DEF U
<1>7. \A t \in 1..n : TrueHeight[t] = g[t]
  <2> DEFINE P == {t \in 1..n : TrueHeight[t] # g[t]}
  <2>1. TrueHeight[0] = g[0]
    <3>1. 0 \in 0..n
      BY <1>1
    <3> QED BY <3>1, <1>0, <1>6 DEF Null
  <2>2. SUFFICES ASSUME P # {} PROVE FALSE
    OBVIOUS
  <2>3. PICK t \in P : \A u \in P : ~(hi[u] - lo[u] < hi[t] - lo[t])
    BY <2>2, LeastNode
  <2>4. t \in 1..n /\ TrueHeight[t] # g[t]
    OBVIOUS
  <2>5. \A c \in {left[t], right[t]} : TrueHeight[c] = g[c]
    <3> SUFFICES ASSUME NEW c \in {left[t], right[t]}, TrueHeight[c] # g[c] PROVE FALSE
      OBVIOUS
    <3>1. c # 0
      BY <2>1
    <3>2. c \in 1..n /\ hi[c] - lo[c] < hi[t] - lo[t]
      BY <2>4, <3>1, ChildFacts
    <3>3. c \in P
      BY <3>2
    <3> QED BY <2>3, <3>2, <3>3
  <2>6. TrueHeight[t] = Larger(TrueHeight[left[t]], TrueHeight[right[t]]) + 1
    BY <2>4, <1>2, <1>6 DEF Null
  <2>7. g[t] = Larger(g[left[t]], g[right[t]]) + 1
    BY <2>4, <1>2
  <2> QED BY <2>4, <2>5, <2>6, <2>7
<1> QED BY <1>7, <1>g DEF TreeNodes

(* Of two nodes the one with the lower place is left of the other.         *)
LEMMA LeftOfFacts ==
  ASSUME NEW pos, NEW lo, NEW hi, Shape(Len(val), left, right, root, pos, lo, hi),
         NEW u \in TreeNodes, NEW v \in TreeNodes, pos[u] < pos[v]
  PROVE  LeftOf(u, v)
<1> DEFINE n == Len(val)
           P == {t \in 1..n : In(pos, lo, hi, u, t) /\ In(pos, lo, hi, v, t)}
<1>0. u \in 1..n /\ v \in 1..n
  BY DEF TreeNodes
<1>1. root \in P
  <2>1. root \in 1..n
    BY <1>0, OneParent
  <2>2. lo[root] <= pos[u] /\ pos[u] <= hi[root] /\ lo[root] <= pos[v] /\ pos[v] <= hi[root]
    BY <1>0, NodeFacts
  <2> QED BY <2>1, <2>2 DEF In
<1>2. PICK t \in P : \A w \in P : ~(hi[w] - lo[w] < hi[t] - lo[t])
  BY <1>1, LeastNode, ZenonT(60)
<1>3. t \in 1..n /\ In(pos, lo, hi, u, t) /\ In(pos, lo, hi, v, t)
  OBVIOUS
<1>4. \A c \in {left[t], right[t]} : c # 0 => ~(In(pos, lo, hi, u, c) /\ In(pos, lo, hi, v, c))
  BY <1>2, <1>3, ChildFacts, SMTT(30)
<1>5. /\ pos[u] \in Int /\ pos[v] \in Int /\ pos[t] \in Int /\ lo[t] \in Int /\ hi[t] \in Int
      /\ u # t => pos[u] # pos[t]
      /\ v # t => pos[v] # pos[t]
  BY <1>0, <1>3, NodeFacts, PairFacts
<1>6. lo[t] <= pos[u] /\ pos[u] <= hi[t] /\ lo[t] <= pos[v] /\ pos[v] <= hi[t]
  BY <1>3 DEF In
<1>7. /\ lo[t] <= pos[u] /\ pos[u] < pos[t] <=> left[t] # 0 /\ In(pos, lo, hi, u, left[t])
      /\ lo[t] <= pos[v] /\ pos[v] < pos[t] <=> left[t] # 0 /\ In(pos, lo, hi, v, left[t])
  BY <1>0, <1>3, InLeft
<1>8. /\ pos[t] < pos[u] /\ pos[u] <= hi[t] <=> right[t] # 0 /\ In(pos, lo, hi, u, right[t])
      /\ pos[t] < pos[v] /\ pos[v] <= hi[t] <=> right[t] # 0 /\ In(pos, lo, hi, v, right[t])
  BY <1>0, <1>3, InRight
<1>9. ~(pos[u] < pos[t] /\ pos[v] < pos[t]) /\ ~(pos[t] < pos[u] /\ pos[t] < pos[v])
  BY <1>4, <1>6, <1>7, <1>8
<1>a. (u = t \/ pos[u] < pos[t]) /\ (v = t \/ pos[t] < pos[v])
  BY <1>5, <1>9
<1>10. u = t \/ (left[t] # 0 /\ In(pos, lo, hi, u, left[t]))
  <2>1. CASE u = t
    BY <2>1
  <2>2. CASE pos[u] < pos[t]
    BY <2>2, <1>6, <1>7
  <2> QED BY <2>1, <2>2, <1>a
<1>11. v = t \/ (right[t] # 0 /\ In(pos, lo, hi, v, right[t]))
  <2>1. CASE v = t
    BY <2>1
  <2>2. CASE pos[t] < pos[v]
    BY <2>2, <1>6, <1>8
  <2> QED BY <2>1, <2>2, <1>a
<1>12. left[t] \in 0..n /\ right[t] \in 0..n
  BY <1>3, NodeFacts
<1>13. /\ left[t] # 0 => Under[left[t]] = {w \in TreeNodes : In(pos, lo, hi, w, left[t])}
       /\ right[t] # 0 => Under[right[t]] = {w \in TreeNodes : In(pos, lo, hi, w, right[t])}
  <2>1. \A c \in 0..Len(val) :
          Under[c] = IF c = 0 THEN {} ELSE {w \in TreeNodes : In(pos, lo, hi, w, c)}
    BY UnderFacts
  <2> QED BY <1>12, <2>1
<1>14. u \in {t} \union Under[left[t]] /\ v \in {t} \union Under[right[t]]
  BY <1>10, <1>11, <1>13
<1> QED BY <1>3, <1>14 DEF LeftOf, TreeNodes

(* The nodes from the root to u, and how many they are.                    *)
Branch(n, pos, lo, hi, u) == {t \in 1..n : In(pos, lo, hi, u, t)}
Depth(n, pos, lo, hi, u) == Cardinality(Branch(n, pos, lo, hi, u))

(* The branch is a finite set, so its depth is a number.                   *)
LEMMA BranchFacts ==
  ASSUME NEW n \in Nat, NEW pos, NEW lo, NEW hi, NEW u
  PROVE  /\ IsFiniteSet(Branch(n, pos, lo, hi, u))
         /\ Depth(n, pos, lo, hi, u) \in Nat
<1>1. IsFiniteSet(1..n)
  BY FS_Interval
<1>2. Branch(n, pos, lo, hi, u) \subseteq 1..n
  BY DEF Branch
<1>3. IsFiniteSet(Branch(n, pos, lo, hi, u))
  BY <1>1, <1>2, FS_Subset
<1> QED BY <1>3, FS_CardinalityType DEF Depth

(* A node below another is at least as deep, and deeper when it is another *)
(* one.                                                                    *)
LEMMA BelowIsDeeper ==
  ASSUME NEW n, NEW l, NEW r, NEW top, NEW pos, NEW lo, NEW hi,
         Shape(n, l, r, top, pos, lo, hi), NEW u \in 1..n, NEW t \in 1..n, In(pos, lo, hi, u, t)
  PROVE  /\ Depth(n, pos, lo, hi, t) <= Depth(n, pos, lo, hi, u)
         /\ u # t => Depth(n, pos, lo, hi, t) < Depth(n, pos, lo, hi, u)
<1>1. n \in Nat
  BY DEF Shape
<1>2. Branch(n, pos, lo, hi, t) \subseteq Branch(n, pos, lo, hi, u)
  <2> SUFFICES ASSUME NEW v \in 1..n, In(pos, lo, hi, t, v) PROVE In(pos, lo, hi, u, v)
    BY DEF Branch
  <2>1. lo[v] <= lo[t] /\ hi[t] <= hi[v]
    BY Nested
  <2>2. /\ pos[u] \in Int /\ lo[t] \in Int /\ hi[t] \in Int /\ lo[v] \in Int /\ hi[v] \in Int
    BY NodeFacts
  <2> QED BY <2>1, <2>2 DEF In
<1>3. u # t => Branch(n, pos, lo, hi, t) # Branch(n, pos, lo, hi, u)
  <2> SUFFICES ASSUME u # t, Branch(n, pos, lo, hi, t) = Branch(n, pos, lo, hi, u) PROVE FALSE
    OBVIOUS
  <2>1. lo[u] <= pos[u] /\ pos[u] <= hi[u]
    BY NodeFacts
  <2>2. u \in Branch(n, pos, lo, hi, u)
    BY <2>1 DEF Branch, In
  <2>3. In(pos, lo, hi, t, u)
    BY <2>2 DEF Branch
  <2>4. t = u \/ hi[t] < pos[u] \/ pos[u] < lo[t]
    BY <2>3, Nested
  <2>5. pos[u] \in Int /\ lo[t] \in Int /\ hi[t] \in Int
    BY NodeFacts
  <2> QED BY <2>4, <2>5 DEF In
<1>4. /\ IsFiniteSet(Branch(n, pos, lo, hi, u))
      /\ Depth(n, pos, lo, hi, t) \in Nat /\ Depth(n, pos, lo, hi, u) \in Nat
  BY <1>1, BranchFacts
<1>5. /\ Depth(n, pos, lo, hi, t) <= Depth(n, pos, lo, hi, u)
      /\ Depth(n, pos, lo, hi, u) = Depth(n, pos, lo, hi, t) =>
           Branch(n, pos, lo, hi, u) = Branch(n, pos, lo, hi, t)
  BY <1>2, <1>4, FS_Subset DEF Depth
<1> QED BY <1>3, <1>4, <1>5

(* A child is one deeper than its parent.                                  *)
LEMMA ChildIsNext ==
  ASSUME NEW n, NEW l, NEW r, NEW top, NEW pos, NEW lo, NEW hi,
         Shape(n, l, r, top, pos, lo, hi), NEW t \in 1..n, NEW c \in {l[t], r[t]}, c # 0
  PROVE  Depth(n, pos, lo, hi, c) = Depth(n, pos, lo, hi, t) + 1
<1>1. /\ c \in 1..n /\ c # t /\ In(pos, lo, hi, c, t) /\ ~In(pos, lo, hi, t, c)
      /\ lo[t] <= lo[c] /\ hi[c] <= hi[t]
  BY ChildFacts
<1>2. n \in Nat
  BY DEF Shape
<1>3. ASSUME NEW v \in 1..n, v # c, In(pos, lo, hi, c, v) PROVE In(pos, lo, hi, t, v)
  <2>1. lo[v] <= lo[c] /\ hi[c] <= hi[v] /\ (hi[c] < pos[v] \/ pos[v] < lo[c])
    BY <1>1, <1>3, Nested
  <2>2. /\ pos[v] \in Int /\ lo[v] \in Int /\ hi[v] \in Int /\ lo[v] <= pos[v] /\ pos[v] <= hi[v]
    BY NodeFacts
  <2>3. /\ pos[t] \in Int /\ lo[t] \in Int /\ hi[t] \in Int /\ lo[t] <= pos[t] /\ pos[t] <= hi[t]
    BY NodeFacts
  <2>4. /\ pos[c] \in Int /\ lo[c] \in Int /\ hi[c] \in Int /\ lo[c] <= pos[c] /\ pos[c] <= hi[c]
    BY <1>1, NodeFacts
  <2>5. \/ lo[c] = lo[t] /\ hi[c] = pos[t] - 1
        \/ lo[c] = pos[t] + 1 /\ hi[c] = hi[t]
    BY NodeFacts
  <2>6. CASE v = t
    BY <2>3, <2>6 DEF In
  <2>7. CASE v # t
    <3>1. Apart(pos, lo, hi, t, v) /\ pos[t] # pos[v]
      BY <2>7, PairFacts
    <3> QED BY <3>1, <2>1, <2>2, <2>3, <2>4, <2>5 DEF Apart, In
  <2> QED BY <2>6, <2>7
<1>4. ASSUME NEW v \in 1..n, In(pos, lo, hi, t, v) PROVE In(pos, lo, hi, c, v)
  <2>1. lo[v] <= lo[t] /\ hi[t] <= hi[v]
    BY <1>4, Nested
  <2>2. /\ pos[c] \in Int /\ lo[t] \in Int /\ hi[t] \in Int /\ lo[v] \in Int /\ hi[v] \in Int
    BY <1>1, NodeFacts
  <2> QED BY <1>1, <2>1, <2>2 DEF In
<1>5. In(pos, lo, hi, c, c)
  <2>1. lo[c] <= pos[c] /\ pos[c] <= hi[c]
    BY <1>1, NodeFacts
  <2> QED BY <2>1 DEF In
<1>6. Branch(n, pos, lo, hi, c) = Branch(n, pos, lo, hi, t) \union {c}
  BY <1>1, <1>3, <1>4, <1>5 DEF Branch
<1>7. c \notin Branch(n, pos, lo, hi, t)
  BY <1>1 DEF Branch
<1>8. IsFiniteSet(Branch(n, pos, lo, hi, t))
  BY <1>2, BranchFacts
<1> QED BY <1>6, <1>7, <1>8, FS_AddElement DEF Depth

(* Ancestors is what a branch is.                                          *)
LEMMA AncestorsFacts ==
  ASSUME NEW pos, NEW lo, NEW hi, Shape(Len(val), left, right, root, pos, lo, hi), NEW u \in TreeNodes
  PROVE  Ancestors(u) = Branch(Len(val), pos, lo, hi, u)
<1>1. \A t \in 0..Len(val) :
        Under[t] = IF t = 0 THEN {} ELSE {w \in TreeNodes : In(pos, lo, hi, w, t)}
  BY UnderFacts
<1>2. \A t \in TreeNodes : t \in 0..Len(val) /\ t # 0
  <2>1. Len(val) \in Nat
    BY DEF Shape
  <2> QED BY <2>1 DEF TreeNodes
<1>3. \A t \in TreeNodes : u \in Under[t] <=> In(pos, lo, hi, u, t)
  BY <1>1, <1>2
<1> QED BY <1>3 DEF Ancestors, Branch, TreeNodes

(* Of two nodes the deeper is not the first by level.                      *)
LEMMA AboveFacts ==
  ASSUME NEW pos, NEW lo, NEW hi, Shape(Len(val), left, right, root, pos, lo, hi),
         NEW u \in TreeNodes, NEW v \in TreeNodes,
         LET m == Depth(Len(val), pos, lo, hi, u)
             k == Depth(Len(val), pos, lo, hi, v)
         IN  m < k \/ (m = k /\ pos[u] < pos[v])
  PROVE  Above(u, v)
<1>1. Cardinality(Ancestors(u)) = Depth(Len(val), pos, lo, hi, u)
  BY AncestorsFacts DEF Depth
<1>2. Cardinality(Ancestors(v)) = Depth(Len(val), pos, lo, hi, v)
  BY AncestorsFacts DEF Depth
<1>3. pos[u] < pos[v] => LeftOf(u, v)
  BY LeftOfFacts
<1> QED BY <1>1, <1>2, <1>3 DEF Above

-----------------------------------------------------------------------------
(* The inductive invariant of the trees, first part: types, order and the  *)
(* calls of insertAVL under way.                                           *)

Rotations == {"leftRotate", "rightRotate", "leftRightRotate", "rightLeftRotate"}
Inserting == {"enter", "leave"} \union Rotations

TreeTypeOK ==
  /\ val \in Seq(Int)
  /\ left \in [TreeNodes -> 0..Len(val)] /\ right \in [TreeNodes -> 0..Len(val)]
  /\ height \in [TreeNodes -> Nat]
  /\ root \in 0..Len(val) /\ at \in 0..Len(val) /\ arg \in Int
  /\ path \in Seq(TreeNodes) /\ queue \in Seq(TreeNodes)
  /\ tpc \in {"idle", "look", "done", "crashed"} \union Inserting
  /\ tpc = "look" => call \in Searches
  /\ tpc = "idle" => path = <<>>

(* The order of the keys is that of the places.                            *)
InOrder(pos) == \A u, v \in TreeNodes : pos[u] < pos[v] => val[u] <= val[v]

(* The child insertAVL goes to, and the other one.                         *)
Side(t) == IF arg < val[t] THEN left[t] ELSE right[t]
OtherSide(t) == IF arg < val[t] THEN right[t] ELSE left[t]

(* The key belongs below t.                                                *)
Belongs(t, pos, lo, hi) ==
  \A u \in TreeNodes : /\ pos[u] < lo[t] => val[u] <= arg
                       /\ hi[t] < pos[u] => arg <= val[u]

(* The calls of insertAVL under way are on one branch, where the key       *)
(* belongs.                                                                *)
OnBranch(pos, lo, hi) ==
  /\ path # <<>> => path[1] = root
  /\ \A i \in 1..Len(path) : i < Len(path) => Side(path[i]) = path[i + 1]
  /\ \A i, j \in 1..Len(path) : i < j =>
       IF arg < val[path[i]] THEN hi[path[j]] < pos[path[i]] ELSE pos[path[i]] < lo[path[j]]

Entering(pos, lo, hi) ==
  /\ at = IF path = <<>> THEN root ELSE Side(Innermost)
  /\ \A t \in {at, Innermost} : t # Null => Belongs(t, pos, lo, hi)

(* The calls that wait were made for the node allocated last.              *)
Leaving ==
  /\ path # <<>> /\ Len(val) > 0 /\ arg = val[Len(val)]
  /\ \A i \in 1..Len(path) : path[i] # Len(val)

PathInv(pos, lo, hi) ==
  tpc \in Inserting =>
    /\ OnBranch(pos, lo, hi)
    /\ tpc = "enter" => Entering(pos, lo, hi)
    /\ tpc # "enter" => Leaving

RotateInv ==
  /\ tpc \in {"leftRotate", "leftRightRotate"} => left[Innermost] # Null
  /\ tpc \in {"rightRotate", "rightLeftRotate"} => right[Innermost] # Null

(* The nodes whose height is yet to be brought up to date.                 *)
Behind ==
  IF tpc = "leave" THEN {Innermost}
  ELSE IF tpc \in Rotations \union {"crashed"} THEN {Innermost, Caller}
  ELSE {}

IsMeasured(t) == height[t] = Measured(left[t], right[t])

HeightInv == \A t \in TreeNodes : t \notin Behind => IsMeasured(t)

-----------------------------------------------------------------------------
(* The last two calls under way.                                           *)
LEMMA LastTwo ==
  ASSUME NEW pos, NEW lo, NEW hi, Shape(Len(val), left, right, root, pos, lo, hi),
         TreeTypeOK, path # <<>>, OnBranch(pos, lo, hi)
  PROVE  /\ Len(path) \in Nat /\ Len(path) >= 1
         /\ Innermost = path[Len(path)] /\ Innermost \in TreeNodes /\ Innermost # 0
         /\ Caller \in 0..Len(val)
         /\ Caller = 0 => Len(path) = 1 /\ root = Innermost
         /\ Caller # 0 => /\ Len(path) >= 2 /\ Caller = path[Len(path) - 1] /\ Caller \in TreeNodes
                          /\ Side(Caller) = Innermost /\ Caller # Innermost
                          /\ root # Innermost
                          /\ OtherSide(Caller) # Innermost
<1>1. path \in Seq(TreeNodes) /\ Len(path) \in Nat /\ Len(path) >= 1
  BY DEF TreeTypeOK
<1>n. Len(val) \in Nat
  BY DEF Shape
<1>2. Innermost = path[Len(path)] /\ Innermost \in TreeNodes /\ Innermost # 0
  BY <1>1, <1>n DEF Innermost, Null, TreeNodes
<1>3. CASE Len(path) = 1
  <2>1. Caller = 0
    BY <1>3 DEF Caller, Null
  <2>2. root = Innermost
    BY <1>2, <1>3 DEF OnBranch
  <2> QED BY <1>1, <1>2, <1>3, <1>n, <2>1, <2>2
<1>4. CASE Len(path) >= 2
  <2>1. Caller = path[Len(path) - 1] /\ Len(path) - 1 \in 1..Len(path)
    BY <1>1, <1>4 DEF Caller
  <2>2. Caller \in TreeNodes
    BY <1>1, <2>1
  <2>3. Side(Caller) = Innermost
    <3>1. Side(path[Len(path) - 1]) = path[(Len(path) - 1) + 1]
      BY <1>1, <2>1 DEF OnBranch
    <3> QED BY <1>1, <1>2, <2>1, <3>1
  <2>4. /\ left[Caller] # Caller /\ right[Caller] # Caller
        /\ left[Caller] # root /\ right[Caller] # root
        /\ left[Caller] # 0 => left[Caller] # right[Caller]
    BY <2>2, OneParent DEF TreeNodes
  <2>5. Caller # 0 /\ Caller \in 0..Len(val)
    BY <2>2, <1>n DEF TreeNodes
  <2>6. Caller # Innermost /\ root # Innermost
    BY <2>3, <2>4 DEF Side
  <2>7. OtherSide(Caller) # Innermost
    <3>1. CASE arg < val[Caller]
      BY <3>1, <2>3, <2>4, <1>2 DEF Side, OtherSide
    <3>2. CASE ~(arg < val[Caller])
      BY <3>2, <2>3, <2>4, <1>2 DEF Side, OtherSide
    <3> QED BY <3>1, <3>2
  <2> QED BY <1>1, <1>2, <1>4, <2>1, <2>2, <2>3, <2>5, <2>6, <2>7
<1>5. Len(path) = 1 \/ Len(path) >= 2
  <2>1. \A k \in Nat : k >= 1 => k = 1 \/ k >= 2
    OBVIOUS
  <2> QED BY <1>1, <2>1
<1> QED BY <1>3, <1>4, <1>5

(* The other calls under way are of nodes outside the subtree of the last. *)
LEMMA OthersOutside ==
  ASSUME NEW pos, NEW lo, NEW hi, Shape(Len(val), left, right, root, pos, lo, hi),
         TreeTypeOK, path # <<>>, OnBranch(pos, lo, hi), NEW i \in 1..Len(path), i < Len(path)
  PROVE  path[i] \in TreeNodes /\ ~In(pos, lo, hi, path[i], Innermost)
<1>1. path \in Seq(TreeNodes) /\ Len(path) \in Nat /\ Len(path) >= 1
  BY DEF TreeTypeOK
<1>2. Innermost = path[Len(path)] /\ Innermost \in TreeNodes
  BY LastTwo
<1>3. path[i] \in TreeNodes /\ Len(path) \in 1..Len(path)
  BY <1>1
<1>4. IF arg < val[path[i]] THEN hi[Innermost] < pos[path[i]] ELSE pos[path[i]] < lo[Innermost]
  BY <1>1, <1>2, <1>3 DEF OnBranch
<1>5. pos[path[i]] \in Int /\ lo[Innermost] \in Int /\ hi[Innermost] \in Int
  BY <1>2, <1>3, NodeFacts DEF TreeNodes
<1>6. ~In(pos, lo, hi, path[i], Innermost)
  BY <1>4, <1>5 DEF In
<1> QED BY <1>3, <1>6

-----------------------------------------------------------------------------
(* Heights and balance, when the tree is turned.                           *)

(* Heights, when the tree is turned.                                       *)
Hgt(h, t) == IF t = 0 THEN 0 ELSE h[t]
Fits(h, near, far, u) == h[u] = Larger(Hgt(h, near[u]), Hgt(h, far[u])) + 1

Relevelled(near, far, h, t, c, h2) ==
  LET lowered == Larger(Hgt(h, far[c]), Hgt(h, far[t])) + 1 IN
  h2 = [h EXCEPT ![t] = lowered, ![c] = Larger(Hgt(h, near[c]), lowered) + 1]

(* Heights are natural numbers.                                            *)
LEMMA HgtFacts ==
  ASSUME NEW n \in Nat, NEW h \in [1..n -> Nat], NEW t \in 0..n
  PROVE  Hgt(h, t) \in Nat
<1>1. t = 0 \/ t \in 1..n
  OBVIOUS
<1> QED BY <1>1 DEF Hgt

(* The larger of two heights is one of them and not below the other.       *)
LEMMA LargerFacts ==
  ASSUME NEW a \in Nat, NEW b \in Nat
  PROVE  /\ Larger(a, b) \in Nat /\ a <= Larger(a, b) /\ b <= Larger(a, b)
         /\ Larger(a, b) \in {a, b} /\ Larger(a, b) = Larger(b, a)
BY DEF Larger

(* What a turn at t leaves of another node u.                              *)
LeftAlone(near, far, h, t, c, near2, far2, h2, u) ==
  /\ h2[u] = h[u]
  /\ near[u] # t => near2[u] = near[u] /\ Hgt(h2, near2[u]) = Hgt(h, near[u])
  /\ far[u] # t => far2[u] = far[u] /\ Hgt(h2, far2[u]) = Hgt(h, far[u])
  /\ near[u] = t => near2[u] = c /\ far[u] # t
  /\ far[u] = t => far2[u] = c /\ near[u] # t

(* What a turn measures, and the heights of the others, which it leaves    *)
(* alone.                                                                  *)
LEMMA TurnedHeights ==
  ASSUME NEW n, NEW near, NEW far, NEW top, NEW pos, NEW lo, NEW hi,
         Shape(n, near, far, top, pos, lo, hi), NEW t, NEW c, NEW near2, NEW far2, NEW top2,
         Turned(n, near, far, top, t, c, near2, far2, top2),
         NEW h \in [1..n -> Nat], NEW h2, Relevelled(near, far, h, t, c, h2)
  PROVE  /\ h2 \in [1..n -> Nat]
         /\ h2[t] = Larger(Hgt(h, far[c]), Hgt(h, far[t])) + 1
         /\ h2[c] = Larger(Hgt(h, near[c]), h2[t]) + 1
         /\ Hgt(h2, near2[t]) = Hgt(h, far[c]) /\ Hgt(h2, far2[t]) = Hgt(h, far[t])
         /\ Hgt(h2, near2[c]) = Hgt(h, near[c]) /\ Hgt(h2, far2[c]) = h2[t]
         /\ Fits(h2, near2, far2, t) /\ Fits(h2, near2, far2, c)
         /\ \A u \in 1..n : u # t /\ u # c => LeftAlone(near, far, h, t, c, near2, far2, h2, u)
<1>1. /\ t \in 1..n /\ c \in 1..n /\ near[t] = c
      /\ near2[t] = far[c] /\ far2[c] = t
      /\ \A u \in 1..n : u # t => near2[u] = IF near[u] = t THEN c ELSE near[u]
      /\ \A u \in 1..n : u # c => far2[u] = IF far[u] = t THEN c ELSE far[u]
  BY DEF Turned
<1>2. n \in Nat /\ near \in [1..n -> 0..n] /\ far \in [1..n -> 0..n]
  BY DEF Shape, Linked
<1>3. c # 0 /\ t # 0 /\ t \in 0..n /\ c \in 0..n
  BY <1>1, <1>2
<1>4. /\ c # t /\ far[t] # t /\ far[t] # c /\ near[c] # c /\ far[c] # c
      /\ \A u \in 1..n : /\ near[u] = c => u = t
                         /\ far[u] # c
                         /\ near[u] = t => far[u] # t
                         /\ far[u] = t => near[u] # t
  BY <1>1, <1>3, OneParent
<1>5. near[c] # t /\ far[c] # t
  <2>1. ~In(pos, lo, hi, t, c) /\ c \in {near[t], far[t]}
    BY <1>1, <1>3, ChildFacts
  <2>2. ASSUME t \in {near[c], far[c]} PROVE FALSE
    <3>1. hi[t] - lo[t] \in Nat /\ hi[c] - lo[c] \in Nat /\ hi[t] - lo[t] < hi[c] - lo[c]
      BY <2>2, <1>1, <1>3, ChildFacts
    <3>2. hi[c] - lo[c] < hi[t] - lo[t]
      BY <2>1, <1>1, <1>3, ChildFacts
    <3> QED BY <3>1, <3>2
  <2> QED BY <2>2
<1> DEFINE low == Larger(Hgt(h, far[c]), Hgt(h, far[t])) + 1
           high == Larger(Hgt(h, near[c]), low) + 1
<1>6. near[c] \in 0..n /\ far[c] \in 0..n /\ far[t] \in 0..n
  BY <1>1, <1>2
<1>7. Hgt(h, near[c]) \in Nat /\ Hgt(h, far[c]) \in Nat /\ Hgt(h, far[t]) \in Nat
  BY <1>2, <1>6, HgtFacts
<1>8. low \in Nat
  <2>1. Larger(Hgt(h, far[c]), Hgt(h, far[t])) \in Nat
    BY <1>7, LargerFacts
  <2> QED BY <2>1
<1> HIDE DEF low
<1>9. high \in Nat
  <2>1. Larger(Hgt(h, near[c]), low) \in Nat
    BY <1>7, <1>8, LargerFacts
  <2> QED BY <2>1
<1>10. h2 = [h EXCEPT ![t] = low, ![c] = high]
  BY DEF Relevelled, low
<1> HIDE DEF high
<1>11. /\ h2 \in [1..n -> Nat] /\ h2[t] = low /\ h2[c] = high
       /\ \A u \in 1..n : u # t /\ u # c => h2[u] = h[u]
  BY <1>1, <1>2, <1>4, <1>8, <1>9, <1>10
<1>12. \A u \in 0..n : u # t /\ u # c => Hgt(h2, u) = Hgt(h, u)
  <2> SUFFICES ASSUME NEW u \in 0..n, u # t, u # c PROVE Hgt(h2, u) = Hgt(h, u)
    OBVIOUS
  <2>1. u = 0 \/ u \in 1..n
    BY <1>2
  <2> QED BY <2>1, <1>11 DEF Hgt
<1>13. far2[t] = far[t] /\ near2[c] = near[c]
  BY <1>1, <1>4, <1>5
<1>14. Hgt(h2, near2[t]) = Hgt(h, far[c])
  BY <1>1, <1>4, <1>5, <1>6, <1>12
<1>15. Hgt(h2, far2[t]) = Hgt(h, far[t])
  BY <1>4, <1>6, <1>12, <1>13
<1>16. Hgt(h2, near2[c]) = Hgt(h, near[c])
  BY <1>4, <1>5, <1>6, <1>12, <1>13
<1>17. Hgt(h2, far2[c]) = h2[t]
  BY <1>1, <1>3 DEF Hgt
<1>18. Fits(h2, near2, far2, t)
  BY <1>11, <1>14, <1>15 DEF Fits, low
<1>19. Fits(h2, near2, far2, c)
  BY <1>11, <1>16, <1>17 DEF Fits, high
<1>20. ASSUME NEW u \in 1..n, u # t, u # c
       PROVE  LeftAlone(near, far, h, t, c, near2, far2, h2, u)
  <2>1. near[u] \in 0..n /\ far[u] \in 0..n /\ near[u] # c /\ far[u] # c
    BY <1>2, <1>4, <1>20
  <2>2. near[u] # t => near2[u] = near[u] /\ Hgt(h2, near2[u]) = Hgt(h, near[u])
    BY <2>1, <1>1, <1>12, <1>20
  <2>3. far[u] # t => far2[u] = far[u] /\ Hgt(h2, far2[u]) = Hgt(h, far[u])
    BY <2>1, <1>1, <1>12, <1>20
  <2>4. (near[u] = t => near2[u] = c /\ far[u] # t) /\ (far[u] = t => far2[u] = c /\ near[u] # t)
    BY <1>1, <1>4, <1>20
  <2>5. h2[u] = h[u]
    BY <1>11, <1>20
  <2> QED BY <2>2, <2>3, <2>4, <2>5 DEF LeftAlone
<1>21. h2[t] = Larger(Hgt(h, far[c]), Hgt(h, far[t])) + 1 /\ h2[c] = Larger(Hgt(h, near[c]), h2[t]) + 1
  BY <1>11 DEF low, high
<1> QED BY <1>11, <1>14, <1>15, <1>16, <1>17, <1>18, <1>19, <1>20, <1>21

(* Every node below keeps its height but those behind.                     *)
LEMMA TurnedFits ==
  ASSUME NEW n, NEW near, NEW far, NEW top, NEW pos, NEW lo, NEW hi,
         Shape(n, near, far, top, pos, lo, hi), NEW t, NEW c, NEW near2, NEW far2, NEW top2,
         Turned(n, near, far, top, t, c, near2, far2, top2),
         NEW h \in [1..n -> Nat], NEW h2, Relevelled(near, far, h, t, c, h2),
         NEW u \in 1..n, u \in {t, c} \/ (near[u] # t /\ far[u] # t /\ Fits(h, near, far, u))
  PROVE  Fits(h2, near2, far2, u)
<1>1. Fits(h2, near2, far2, t) /\ Fits(h2, near2, far2, c)
  BY TurnedHeights
<1>2. ASSUME u # t, u # c PROVE Fits(h2, near2, far2, u)
  <2>1. LeftAlone(near, far, h, t, c, near2, far2, h2, u)
    BY <1>2, TurnedHeights
  <2> QED BY <2>1, <1>2 DEF Fits, LeftAlone
<1> QED BY <1>1, <1>2

(* The pointers are redirected, and p keeps the new root.                  *)
Redirected(near, far, top, t, c, p, near2, far2, top2) ==
  LET near1 == [near EXCEPT ![t] = far[c]]
      far1 == [far EXCEPT ![c] = t]
  IN  /\ near2 = IF p # 0 /\ near[p] = t THEN [near1 EXCEPT ![p] = c] ELSE near1
      /\ far2 = IF p # 0 /\ far[p] = t THEN [far1 EXCEPT ![p] = c] ELSE far1
      /\ top2 = IF p = 0 THEN c ELSE top
      /\ p = 0 => top = t
      /\ p # 0 => near[p] = t \/ far[p] = t

(* Together with the pointer to the node, which now leads to the child,    *)
(* what a rotation changes is a turn.                                      *)
LEMMA RedirectedTurns ==
  ASSUME NEW n, NEW near, NEW far, NEW top, NEW pos, NEW lo, NEW hi,
         Shape(n, near, far, top, pos, lo, hi), NEW t \in 1..n, NEW c, c # 0, near[t] = c, NEW p \in 0..n,
         NEW near2, NEW far2, NEW top2, Redirected(near, far, top, t, c, p, near2, far2, top2)
  PROVE  Turned(n, near, far, top, t, c, near2, far2, top2)
<1>1. n \in Nat /\ near \in [1..n -> 0..n] /\ far \in [1..n -> 0..n]
  BY DEF Shape, Linked
<1>2. c \in 1..n /\ t \in 0..n /\ c \in 0..n
  BY <1>1
<1>3. /\ c # t /\ far[t] # t /\ near[t] # t
      /\ \A u \in 1..n : /\ near[u] = t => u # t /\ u # c
                         /\ far[u] = t => u # t /\ u # c
                         /\ near[u] # top /\ far[u] # top
  <2>1. ~In(pos, lo, hi, t, c) /\ c \in {near[t], far[t]}
    BY <1>2, ChildFacts
  <2>2. ASSUME t \in {near[c], far[c]} PROVE FALSE
    <3>1. t # 0
      BY <1>1
    <3>2. hi[t] - lo[t] \in Nat /\ hi[c] - lo[c] \in Nat /\ hi[t] - lo[t] < hi[c] - lo[c]
      BY <2>2, <3>1, <1>2, ChildFacts
    <3>3. hi[c] - lo[c] < hi[t] - lo[t]
      BY <2>1, <1>2, ChildFacts
    <3> QED BY <3>2, <3>3
  <2>3. c # t /\ far[t] # t /\ near[t] # t
    BY OneParent
  <2>4. \A u \in 1..n : near[u] # top /\ far[u] # top
    BY OneParent
  <2> QED BY <2>2, <2>3, <2>4
<1>4. \A u, v \in 1..n : /\ near[u] = t /\ near[v] = t => u = v
                         /\ far[u] = t /\ far[v] = t => u = v
                         /\ near[u] = t => far[v] # t
  <2>1. t # 0
    BY <1>1
  <2> QED BY <2>1, OneParent
<1> DEFINE near1 == [near EXCEPT ![t] = far[c]]
           far1 == [far EXCEPT ![c] = t]
<1>5. near1 \in [1..n -> 0..n] /\ \A u \in 1..n : near1[u] = IF u = t THEN far[c] ELSE near[u]
  <2>1. far[c] \in 0..n
    BY <1>1, <1>2
  <2> QED BY <2>1, <1>1
<1>6. far1 \in [1..n -> 0..n] /\ \A u \in 1..n : far1[u] = IF u = c THEN t ELSE far[u]
  BY <1>1, <1>2
<1>7. /\ near2 = IF p # 0 /\ near[p] = t THEN [near1 EXCEPT ![p] = c] ELSE near1
      /\ far2 = IF p # 0 /\ far[p] = t THEN [far1 EXCEPT ![p] = c] ELSE far1
      /\ top2 = IF p = 0 THEN c ELSE top
      /\ p = 0 => top = t
      /\ p # 0 => near[p] = t \/ far[p] = t
  BY DEF Redirected
<1> HIDE DEF near1, far1
<1>8. p = 0 \/ p \in 1..n
  BY <1>1
<1>9. near2 \in [1..n -> 0..n] /\ near2[t] = far[c]
      /\ \A u \in 1..n : u # t => near2[u] = IF near[u] = t THEN c ELSE near[u]
  <2>1. CASE p # 0 /\ near[p] = t
    BY <2>1, <1>2, <1>3, <1>4, <1>5, <1>7, <1>8
  <2>2. CASE ~(p # 0 /\ near[p] = t)
    <3>1. near2 = near1
      BY <2>2, <1>7
    <3>2. \A u \in 1..n : near[u] # t
      BY <2>2, <1>3, <1>4, <1>7, <1>8
    <3> QED BY <3>1, <3>2, <1>5
  <2> QED BY <2>1, <2>2
<1>10. far2 \in [1..n -> 0..n] /\ far2[c] = t
       /\ \A u \in 1..n : u # c => far2[u] = IF far[u] = t THEN c ELSE far[u]
  <2>1. CASE p # 0 /\ far[p] = t
    <3>1. p \in 1..n /\ p # c
      BY <2>1, <1>3, <1>8
    <3>2. far2 = [far1 EXCEPT ![p] = c]
      BY <2>1, <1>7
    <3>3. far2 \in [1..n -> 0..n] /\ \A u \in 1..n : far2[u] = IF u = p THEN c ELSE far1[u]
      BY <3>1, <3>2, <1>2, <1>6
    <3>4. far2[c] = t
      BY <3>1, <3>3, <1>2, <1>6
    <3>5. \A u \in 1..n : u # c => far2[u] = IF far[u] = t THEN c ELSE far[u]
      BY <2>1, <3>1, <3>3, <1>4, <1>6
    <3> QED BY <3>3, <3>4, <3>5
  <2>2. CASE ~(p # 0 /\ far[p] = t)
    <3>1. far2 = far1
      BY <2>2, <1>7
    <3>2. \A u \in 1..n : far[u] # t
      <4>1. CASE p = 0
        BY <4>1, <1>3, <1>7
      <4>2. CASE p \in 1..n /\ near[p] = t
        BY <4>2, <1>4
      <4>3. p = 0 \/ (p \in 1..n /\ near[p] = t)
        BY <2>2, <1>1, <1>7, <1>8
      <4> QED BY <4>1, <4>2, <4>3
    <3>3. \A u \in 1..n : far2[u] = IF u = c THEN t ELSE far[u]
      BY <3>1, <1>6
    <3>4. far2 \in [1..n -> 0..n]
      BY <3>1, <1>6
    <3> QED BY <3>2, <3>3, <3>4, <1>2
  <2> QED BY <2>1, <2>2
<1>11. top2 = IF top = t THEN c ELSE top
  BY <1>3, <1>7, <1>8
<1> QED BY <1>2, <1>9, <1>10, <1>11 DEF Turned

(* What Rotated computes, and where ReturnNode leaves it.                  *)
LEMMA RotatedFacts ==
  ASSUME NEW near, NEW far, NEW t, NEW c, near[t] = c
  PROVE  LET s == Rotated(near, far, t) IN
         /\ s.near = [near EXCEPT ![t] = far[c]]
         /\ s.far = [far EXCEPT ![c] = t]
         /\ s.root = c
         /\ Relevelled(near, far, height, t, c, s.height)
BY DEF Rotated, Relevelled, Measured, GetHeight, Hgt, Null

(* A call is about to return; its caller keeps what it returns.            *)
Returning(pos, lo, hi) ==
  /\ Shape(Len(val), left, right, root, pos, lo, hi)
  /\ TreeTypeOK /\ path # <<>> /\ OnBranch(pos, lo, hi)

(* LeftRotate turns the innermost node towards its left child, and         *)
(* measures the two.                                                       *)
LEMMA LeftTurns ==
  ASSUME NEW pos, NEW lo, NEW hi, Returning(pos, lo, hi), left[Innermost] # Null, LeftRotate
  PROVE  /\ Turned(Len(val), left, right, root, Innermost, left[Innermost], left', right', root')
         /\ Relevelled(left, right, height, Innermost, left[Innermost], height')
<1> DEFINE t == Innermost  c == left[Innermost]  p == Caller
           s == Rotated(left, right, Innermost)
<1>1. /\ s.near = [left EXCEPT ![t] = right[c]]
      /\ s.far = [right EXCEPT ![c] = t]
      /\ s.root = c
      /\ Relevelled(left, right, height, t, c, s.height)
  BY RotatedFacts
<1>2. height' = s.height /\ Store(p, s.root, s.near, s.far)
  BY DEF LeftRotate, ReturnNode
<1> HIDE DEF s
<1>3. /\ left' = IF p # Null /\ arg < val[p] THEN [s.near EXCEPT ![p] = c] ELSE s.near
      /\ right' = IF p # Null /\ ~(arg < val[p]) THEN [s.far EXCEPT ![p] = c] ELSE s.far
      /\ root' = IF p = Null THEN c ELSE root
  BY <1>1, <1>2 DEF Store
<1>4. /\ t \in 1..Len(val) /\ p \in 0..Len(val) /\ c # 0
      /\ p = 0 => root = t
      /\ p # 0 => Side(p) = t /\ OtherSide(p) # t
  BY LastTwo DEF Returning, TreeNodes, Null
<1>5. p # 0 => (arg < val[p] <=> left[p] = t) /\ (~(arg < val[p]) <=> right[p] = t)
  BY <1>4 DEF Side, OtherSide
<1>6. Redirected(left, right, root, t, c, p, left', right', root')
  BY <1>1, <1>3, <1>4, <1>5 DEF Redirected, Null
<1>7. Shape(Len(val), left, right, root, pos, lo, hi)
  BY DEF Returning
<1>8. Turned(Len(val), left, right, root, t, c, left', right', root')
  <2> HIDE DEF t, p
  <2>1. left[t] = c
    BY DEF t
  <2> HIDE DEF c
  <2> QED BY <2>1, <1>4, <1>6, <1>7, RedirectedTurns
<1> QED BY <1>1, <1>2, <1>8

(* RightRotate does so on the other side.                                  *)
LEMMA RightTurns ==
  ASSUME NEW pos, NEW lo, NEW hi, Returning(pos, lo, hi), right[Innermost] # Null, RightRotate
  PROVE  /\ Turned(Len(val), right, left, root, Innermost, right[Innermost], right', left', root')
         /\ Relevelled(right, left, height, Innermost, right[Innermost], height')
<1> DEFINE t == Innermost  c == right[Innermost]  p == Caller
           s == Rotated(right, left, Innermost)
<1>1. /\ s.near = [right EXCEPT ![t] = left[c]]
      /\ s.far = [left EXCEPT ![c] = t]
      /\ s.root = c
      /\ Relevelled(right, left, height, t, c, s.height)
  BY RotatedFacts
<1>2. height' = s.height /\ Store(p, s.root, s.far, s.near)
  BY DEF RightRotate, ReturnNode
<1> HIDE DEF s
<1>3. /\ left' = IF p # Null /\ arg < val[p] THEN [s.far EXCEPT ![p] = c] ELSE s.far
      /\ right' = IF p # Null /\ ~(arg < val[p]) THEN [s.near EXCEPT ![p] = c] ELSE s.near
      /\ root' = IF p = Null THEN c ELSE root
  BY <1>1, <1>2 DEF Store
<1>4. /\ t \in 1..Len(val) /\ p \in 0..Len(val) /\ c # 0
      /\ p = 0 => root = t
      /\ p # 0 => Side(p) = t /\ OtherSide(p) # t
  BY LastTwo DEF Returning, TreeNodes, Null
<1>5. p # 0 => (arg < val[p] <=> left[p] = t) /\ (~(arg < val[p]) <=> right[p] = t)
  BY <1>4 DEF Side, OtherSide
<1>6. Redirected(right, left, root, t, c, p, right', left', root')
  BY <1>1, <1>3, <1>4, <1>5 DEF Redirected, Null
<1>7. Shape(Len(val), right, left, root, Neg(Len(val), pos), Neg(Len(val), hi), Neg(Len(val), lo))
  BY Mirrored DEF Returning
<1>8. Turned(Len(val), right, left, root, t, c, right', left', root')
  <2> HIDE DEF t, p
  <2>1. right[t] = c
    BY DEF t
  <2> HIDE DEF c
  <2> QED BY <2>1, <1>4, <1>6, <1>7, RedirectedTurns
<1> QED BY <1>1, <1>2, <1>8

(* The first of two rotations turns the child.                             *)
LEMMA LeftRightTurns ==
  ASSUME NEW pos, NEW lo, NEW hi, Returning(pos, lo, hi), left[Innermost] # Null,
         right[left[Innermost]] # Null, LeftRightRotate
  PROVE  LET w == left[Innermost]  c == right[left[Innermost]] IN
         /\ w \in TreeNodes /\ c \in TreeNodes
         /\ Turned(Len(val), right, left, root, w, c, right', left', root')
         /\ Relevelled(right, left, height, w, c, height')
         /\ tpc' = "leftRotate" /\ UNCHANGED <<val, root, path>>
<1> DEFINE t == Innermost  w == left[Innermost]  c == right[w]
           s == Rotated(right, left, w)
<1>1. /\ s.near = [right EXCEPT ![w] = left[c]]
      /\ s.far = [left EXCEPT ![c] = w]
      /\ s.root = c
      /\ Relevelled(right, left, height, w, c, s.height)
  BY RotatedFacts
<1>2. /\ left' = [s.far EXCEPT ![t] = s.root] /\ right' = s.near /\ height' = s.height
      /\ tpc' = "leftRotate" /\ UNCHANGED <<val, root, path>>
  BY DEF LeftRightRotate
<1> HIDE DEF s
<1>3. t \in 1..Len(val) /\ t # 0
  BY LastTwo DEF Returning, TreeNodes
<1>4. Shape(Len(val), left, right, root, pos, lo, hi)
  BY DEF Returning
<1>5. w # 0 /\ w \in 1..Len(val)
  BY <1>3, <1>4, NodeFacts DEF Null
<1>6. c # 0 /\ c \in 1..Len(val)
  BY <1>4, <1>5, NodeFacts DEF Null
<1>7. right[t] # w
  BY <1>3, <1>4, <1>5, OneParent
<1>8. Redirected(right, left, root, w, c, t, right', left', root')
  BY <1>1, <1>2, <1>3, <1>7 DEF Redirected
<1>9. Shape(Len(val), right, left, root, Neg(Len(val), pos), Neg(Len(val), hi), Neg(Len(val), lo))
  BY <1>4, Mirrored
<1>10. Turned(Len(val), right, left, root, w, c, right', left', root')
  <2>1. right[w] = c /\ t \in 0..Len(val)
    BY <1>3
  <2> HIDE DEF t, w, c
  <2> QED BY <2>1, <1>5, <1>6, <1>8, <1>9, RedirectedTurns
<1> QED BY <1>1, <1>2, <1>5, <1>6, <1>10 DEF TreeNodes

(* And the first rotation of rightLeftRotate, in the mirror.               *)
LEMMA RightLeftTurns ==
  ASSUME NEW pos, NEW lo, NEW hi, Returning(pos, lo, hi), right[Innermost] # Null,
         left[right[Innermost]] # Null, RightLeftRotate
  PROVE  LET w == right[Innermost]  c == left[right[Innermost]] IN
         /\ w \in TreeNodes /\ c \in TreeNodes
         /\ Turned(Len(val), left, right, root, w, c, left', right', root')
         /\ Relevelled(left, right, height, w, c, height')
         /\ tpc' = "rightRotate" /\ UNCHANGED <<val, root, path>>
<1> DEFINE t == Innermost  w == right[Innermost]  c == left[w]
           s == Rotated(left, right, w)
<1>1. /\ s.near = [left EXCEPT ![w] = right[c]]
      /\ s.far = [right EXCEPT ![c] = w]
      /\ s.root = c
      /\ Relevelled(left, right, height, w, c, s.height)
  BY RotatedFacts
<1>2. /\ right' = [s.far EXCEPT ![t] = s.root] /\ left' = s.near /\ height' = s.height
      /\ tpc' = "rightRotate" /\ UNCHANGED <<val, root, path>>
  BY DEF RightLeftRotate
<1> HIDE DEF s
<1>3. t \in 1..Len(val) /\ t # 0
  BY LastTwo DEF Returning, TreeNodes
<1>4. Shape(Len(val), left, right, root, pos, lo, hi)
  BY DEF Returning
<1>5. w # 0 /\ w \in 1..Len(val)
  BY <1>3, <1>4, NodeFacts DEF Null
<1>6. c # 0 /\ c \in 1..Len(val)
  BY <1>4, <1>5, NodeFacts DEF Null
<1>7. left[t] # w
  BY <1>3, <1>4, <1>5, OneParent
<1>8. Redirected(left, right, root, w, c, t, left', right', root')
  BY <1>1, <1>2, <1>3, <1>7 DEF Redirected
<1>10. Turned(Len(val), left, right, root, w, c, left', right', root')
  <2>1. left[w] = c /\ t \in 0..Len(val)
    BY <1>3
  <2> HIDE DEF t, w, c
  <2> QED BY <2>1, <1>4, <1>5, <1>6, <1>8, RedirectedTurns
<1> QED BY <1>1, <1>2, <1>5, <1>6, <1>10 DEF TreeNodes

(* Balance, and the two ways in which near is too high for far below t.    *)
Level(h, near, far, t) == Hgt(h, near[t]) - Hgt(h, far[t]) \in -1..1

OneTurn(h, near, far, t) ==
  LET c == near[t]  m == Hgt(h, far[t]) IN
  c # 0 /\ Hgt(h, near[c]) = m + 1 /\ Hgt(h, far[c]) \in {m - 1, m}

TwoTurns(h, near, far, t) ==
  LET c == near[t]  m == Hgt(h, far[t]) IN
  c # 0 /\ Hgt(h, near[c]) = m /\ Hgt(h, far[c]) = m + 1

(* A level node is level in the mirror.                                    *)
LEMMA LevelMirrored ==
  ASSUME NEW n \in Nat, NEW h \in [1..n -> Nat], NEW near \in [1..n -> 0..n], NEW far \in [1..n -> 0..n],
         NEW t \in 1..n
  PROVE  Level(h, near, far, t) <=> Level(h, far, near, t)
<1>1. Hgt(h, near[t]) \in Nat /\ Hgt(h, far[t]) \in Nat
  BY DEF Hgt
<1>2. \A a, b \in Nat : a - b \in -1..1 <=> b - a \in -1..1
  OBVIOUS
<1> QED BY <1>1, <1>2 DEF Level

(* A node that is neither turned nor the parent of what is stays as level  *)
(* as before.                                                              *)
LEMMA TurnedLevels ==
  ASSUME NEW n, NEW near, NEW far, NEW top, NEW pos, NEW lo, NEW hi,
         Shape(n, near, far, top, pos, lo, hi), NEW t, NEW c, NEW near2, NEW far2, NEW top2,
         Turned(n, near, far, top, t, c, near2, far2, top2),
         NEW h \in [1..n -> Nat], NEW h2, Relevelled(near, far, h, t, c, h2),
         NEW u \in 1..n, u # t, u # c, near[u] # t, far[u] # t, Level(h, near, far, u)
  PROVE  Level(h2, near2, far2, u)
<1>1. LeftAlone(near, far, h, t, c, near2, far2, h2, u)
  BY TurnedHeights
<1> QED BY <1>1 DEF LeftAlone, Level

(* After the one turn that is needed t and c are level, and c is as high   *)
(* as t was before the insertion.                                          *)
LEMMA OneTurnLevels ==
  ASSUME NEW n, NEW near, NEW far, NEW top, NEW pos, NEW lo, NEW hi,
         Shape(n, near, far, top, pos, lo, hi), NEW t, NEW c, NEW near2, NEW far2, NEW top2,
         Turned(n, near, far, top, t, c, near2, far2, top2),
         NEW h \in [1..n -> Nat], NEW h2, Relevelled(near, far, h, t, c, h2),
         OneTurn(h, near, far, t)
  PROVE  /\ h2[c] = Hgt(h, far[t]) + 2
         /\ Level(h2, near2, far2, t) /\ Level(h2, near2, far2, c)
<1> DEFINE m == Hgt(h, far[t])
<1>1. n \in Nat /\ near[t] = c /\ far[t] \in 0..n /\ c # 0
  BY DEF Shape, Linked, Turned, OneTurn
<1>2. m \in Nat
  BY <1>1, HgtFacts
<1>3. Hgt(h, near[c]) = m + 1 /\ Hgt(h, far[c]) \in {m - 1, m}
  BY <1>1 DEF OneTurn
<1>4. /\ h2[t] = Larger(Hgt(h, far[c]), m) + 1
      /\ h2[c] = Larger(Hgt(h, near[c]), h2[t]) + 1
  BY TurnedHeights
<1>5. /\ Hgt(h2, near2[t]) = Hgt(h, far[c]) /\ Hgt(h2, far2[t]) = m
      /\ Hgt(h2, near2[c]) = Hgt(h, near[c]) /\ Hgt(h2, far2[c]) = h2[t]
  BY TurnedHeights
<1> HIDE DEF m
<1>6. h2[t] = m + 1
  BY <1>2, <1>3, <1>4 DEF Larger
<1>7. h2[c] = m + 2
  BY <1>2, <1>3, <1>4, <1>6 DEF Larger
<1>8. Level(h2, near2, far2, t)
  BY <1>2, <1>3, <1>5 DEF Level
<1>9. Level(h2, near2, far2, c)
  BY <1>2, <1>3, <1>5, <1>6 DEF Level
<1> QED BY <1>7, <1>8, <1>9 DEF m

(* The first of two turns, at w on the near side of t, leaves one to do.   *)
TurnPrepared(n, near, far, top, t, w, c, near2, far2, top2, h, h2) ==
  /\ t \in 1..n /\ near[t] = w
  /\ Turned(n, far, near, top, w, c, far2, near2, top2)
  /\ h \in [1..n -> Nat] /\ Relevelled(far, near, h, w, c, h2)
  /\ TwoTurns(h, near, far, t) /\ Level(h, near, far, c) /\ Fits(h, near, far, c)

(* The first of two turns prepares the second, and leaves what it turned   *)
(* level.                                                                  *)
LEMMA TwoTurnsLevels ==
  ASSUME NEW n, NEW near, NEW far, NEW top, NEW pos, NEW lo, NEW hi,
         Shape(n, far, near, top, pos, lo, hi), NEW t, NEW w, NEW c,
         NEW near2, NEW far2, NEW top2, NEW h, NEW h2,
         TurnPrepared(n, near, far, top, t, w, c, near2, far2, top2, h, h2)
  PROVE  /\ OneTurn(h2, near2, far2, t) /\ near2[t] = c /\ Hgt(h2, far2[t]) = Hgt(h, far[t])
         /\ Level(h2, near2, far2, w)
<1>p. /\ t \in 1..n /\ near[t] = w
      /\ Turned(n, far, near, top, w, c, far2, near2, top2)
      /\ h \in [1..n -> Nat] /\ Relevelled(far, near, h, w, c, h2)
      /\ TwoTurns(h, near, far, t) /\ Level(h, near, far, c) /\ Fits(h, near, far, c)
  BY DEF TurnPrepared
<1> USE <1>p
<1> DEFINE m == Hgt(h, far[t])
<1>1. n \in Nat /\ far[w] = c /\ w \in 1..n /\ c \in 1..n /\ w # 0 /\ c # 0
  BY DEF Shape, Linked, Turned, TwoTurns
<1>2. far[t] \in 0..n /\ near[c] \in 0..n /\ far[c] \in 0..n /\ near[w] \in 0..n
  BY <1>1 DEF Shape, Linked
<1>3. m \in Nat /\ Hgt(h, near[c]) \in Nat /\ Hgt(h, far[c]) \in Nat
  BY <1>1, <1>2, HgtFacts
<1>4. Hgt(h, near[w]) = m /\ Hgt(h, far[w]) = m + 1
  BY DEF TwoTurns
<1>5. h[c] = m + 1
  BY <1>1, <1>4 DEF Hgt
<1>6. /\ h2[w] = Larger(Hgt(h, near[c]), Hgt(h, near[w])) + 1
      /\ Hgt(h2, far2[w]) = Hgt(h, near[c]) /\ Hgt(h2, near2[w]) = Hgt(h, near[w])
      /\ Hgt(h2, far2[c]) = Hgt(h, far[c]) /\ Hgt(h2, near2[c]) = h2[w]
  BY TurnedHeights
<1>7. t # w /\ t # c
  <2>a. t \in 1..n /\ w \in {far[t], near[t]} /\ w # 0
    BY <1>1
  <2>b. w \in 1..n /\ c \in {far[w], near[w]} /\ c # 0
    BY <1>1
  <2>1. hi[w] - lo[w] < hi[t] - lo[t] /\ hi[w] - lo[w] \in Nat /\ hi[t] - lo[t] \in Nat
    BY <2>a, ChildFacts
  <2>2. hi[c] - lo[c] < hi[w] - lo[w] /\ hi[c] - lo[c] \in Nat
    BY <2>b, ChildFacts
  <2> QED BY <2>1, <2>2
<1>8. LeftAlone(far, near, h, w, c, far2, near2, h2, t)
  BY <1>7, TurnedHeights
<1>9. near2[t] = c /\ Hgt(h2, far2[t]) = m
  BY <1>8 DEF LeftAlone
<1>10. /\ h[c] = Larger(Hgt(h, near[c]), Hgt(h, far[c])) + 1
       /\ Hgt(h, near[c]) - Hgt(h, far[c]) \in -1..1
  BY DEF Fits, Level
<1> HIDE DEF m
<1>11. Hgt(h, near[c]) \in {m - 1, m} /\ Hgt(h, far[c]) \in {m - 1, m}
  BY <1>3, <1>5, <1>10 DEF Larger
<1>12. h2[w] = m + 1
  BY <1>3, <1>4, <1>6, <1>11 DEF Larger
<1>13. OneTurn(h2, near2, far2, t)
  BY <1>1, <1>6, <1>9, <1>11, <1>12 DEF OneTurn
<1>14. Level(h2, near2, far2, w)
  BY <1>3, <1>4, <1>6, <1>11 DEF Level
<1> QED BY <1>9, <1>13, <1>14 DEF m

-----------------------------------------------------------------------------
(* The calls that return.                                                  *)

(* The calls under way are of different nodes.                             *)
LEMMA PathDistinct ==
  ASSUME NEW pos, NEW lo, NEW hi, Returning(pos, lo, hi), NEW i \in 1..Len(path), NEW j \in 1..Len(path), i < j
  PROVE  path[i] \in TreeNodes /\ path[j] \in TreeNodes /\ path[i] # path[j]
<1>1. path \in Seq(TreeNodes) /\ Shape(Len(val), left, right, root, pos, lo, hi) /\ OnBranch(pos, lo, hi)
  BY DEF Returning, TreeTypeOK
<1>2. path[i] \in TreeNodes /\ path[j] \in TreeNodes
  BY <1>1
<1>3. IF arg < val[path[i]] THEN hi[path[j]] < pos[path[i]] ELSE pos[path[i]] < lo[path[j]]
  BY <1>1 DEF OnBranch
<1>4. /\ pos[path[j]] \in Int /\ lo[path[j]] \in Int /\ hi[path[j]] \in Int
      /\ lo[path[j]] <= pos[path[j]] /\ pos[path[j]] <= hi[path[j]]
  BY <1>1, <1>2, NodeFacts DEF TreeNodes
<1>5. path[i] # path[j]
  BY <1>3, <1>4
<1> QED BY <1>2, <1>5

(* All calls but the innermost.                                            *)
LEMMA FrontOfPath ==
  ASSUME path \in Seq(TreeNodes), Len(path) >= 1
  PROVE  /\ SubSeq(path, 1, Len(path) - 1) \in Seq(TreeNodes)
         /\ Len(SubSeq(path, 1, Len(path) - 1)) = Len(path) - 1
         /\ \A i \in 1..(Len(path) - 1) :
              SubSeq(path, 1, Len(path) - 1)[i] = path[i] /\ i \in 1..Len(path) /\ i < Len(path)
<1> DEFINE f == SubSeq(path, 1, Len(path) - 1)
<1>1. Len(path) \in Nat
  OBVIOUS
<1>2. \A i \in 1..(Len(path) - 1) : path[i] \in TreeNodes /\ i \in 1..Len(path) /\ i < Len(path)
  BY <1>1
<1>3. /\ f \in Seq(TreeNodes)
      /\ Len(f) = IF 1 <= Len(path) - 1 THEN (Len(path) - 1) - 1 + 1 ELSE 0
      /\ \A i \in 1..((Len(path) - 1) - 1 + 1) : f[i] = path[1 + i - 1]
  BY <1>1, <1>2, SubSeqProperties
<1> HIDE DEF f
<1>4. (Len(path) - 1) - 1 + 1 = Len(path) - 1 /\ Len(f) = Len(path) - 1
  <2>1. \A k \in Nat : k >= 1 =>
          (k - 1) - 1 + 1 = k - 1 /\ (IF 1 <= k - 1 THEN (k - 1) - 1 + 1 ELSE 0) = k - 1
    OBVIOUS
  <2>2. Len(f) = IF 1 <= Len(path) - 1 THEN (Len(path) - 1) - 1 + 1 ELSE 0
    BY <1>3
  <2> QED BY <1>1, <2>1, <2>2
<1>5. ASSUME NEW i \in 1..(Len(path) - 1) PROVE f[i] = path[i]
  <2>1. 1 + i - 1 = i
    OBVIOUS
  <2>2. f[i] = path[1 + i - 1]
    BY <1>3, <1>4, Zenon
  <2> QED BY <2>1, <2>2
<1>6. /\ f \in Seq(TreeNodes) /\ Len(f) = Len(path) - 1
      /\ \A i \in 1..(Len(path) - 1) : f[i] = path[i] /\ i \in 1..Len(path) /\ i < Len(path)
  BY <1>2, <1>3, <1>4, <1>5
<1> QED BY <1>6, Zenon DEF f

(* The innermost call returns and leaves the calls before it in place.     *)
PathReturns(lo, hi, lo2, hi2) ==
  /\ val' = val /\ arg' = arg /\ path' = SubSeq(path, 1, Len(path) - 1)
  /\ tpc' = IF Len(path) = 1 THEN "idle" ELSE "leave"
  /\ Caller # 0 => root' = root
  /\ \A i \in 1..Len(path) : i < Len(path) - 1 =>
       left'[path[i]] = left[path[i]] /\ right'[path[i]] = right[path[i]]
  /\ \A i \in 1..Len(path) : i < Len(path) => lo2[path[i]] = lo[path[i]] /\ hi2[path[i]] = hi[path[i]]

(* After a return the calls are on one branch still.                       *)
LEMMA ReturnPath ==
  ASSUME NEW pos, NEW lo, NEW hi, Returning(pos, lo, hi), Leaving, NEW lo2, NEW hi2,
         PathReturns(lo, hi, lo2, hi2)
  PROVE  /\ path' \in Seq(TreeNodes)
         /\ tpc' = "idle" => path' = <<>> /\ Caller = 0
         /\ tpc' # "idle" => tpc' = "leave" /\ Caller # 0 /\ Innermost' = Caller
         /\ PathInv(pos, lo2, hi2)'
<1>1. path \in Seq(TreeNodes) /\ OnBranch(pos, lo, hi) /\ path # <<>>
  BY DEF Returning, TreeTypeOK
<1>r. /\ val' = val /\ arg' = arg /\ path' = SubSeq(path, 1, Len(path) - 1)
      /\ tpc' = IF Len(path) = 1 THEN "idle" ELSE "leave"
      /\ Caller # 0 => root' = root
      /\ \A i \in 1..Len(path) : i < Len(path) - 1 =>
           left'[path[i]] = left[path[i]] /\ right'[path[i]] = right[path[i]]
      /\ \A i \in 1..Len(path) : i < Len(path) => lo2[path[i]] = lo[path[i]] /\ hi2[path[i]] = hi[path[i]]
  BY DEF PathReturns
<1> USE <1>r
<1>2. Len(path) \in Nat /\ Len(path) >= 1
  BY <1>1
<1>3. Len(path) - 1 \in 0..Len(path) /\ Len(path) - 1 \in Nat
  BY <1>2
<1>4. /\ path' \in Seq(TreeNodes) /\ Len(path') = Len(path) - 1
      /\ \A i \in 1..(Len(path) - 1) : path'[i] = path[i] /\ i \in 1..Len(path) /\ i < Len(path)
  BY <1>1, <1>2, FrontOfPath
<1>5. tpc' = "idle" => path' = <<>>
  <2>1. ASSUME Len(path) = 1 PROVE path' = <<>>
    <3>1. Len(path) - 1 = 0
      BY <2>1
    <3>2. SubSeq(path, 1, 0) = <<>>
      BY SubSeqEmpty
    <3> QED BY <3>1, <3>2
  <2> QED BY <2>1
<1>6. CASE Len(path) = 1
  <2>1. Caller = 0
    BY <1>6 DEF Caller, Null
  <2> QED BY <1>4, <1>5, <1>6, <2>1 DEF PathInv, Inserting, Rotations
<1>7. CASE Len(path) # 1
  <2>1. tpc' = "leave" /\ Len(path) >= 2 /\ path' # <<>> /\ Len(path) - 1 \in 1..(Len(path) - 1)
    <3>1. Len(path) >= 2 /\ Len(path) - 1 \in 1..(Len(path) - 1) /\ Len(path') >= 1
      BY <1>2, <1>4, <1>7
    <3>2. path' # <<>>
      <4>1. Len(<<>>) = 0
        BY EmptySeq
      <4>2. Len(path') # 0
        <5>1. \A k \in Nat : k >= 1 /\ k # 1 => k - 1 # 0
          OBVIOUS
        <5> QED BY <1>2, <1>4, <1>7, <5>1
      <4> QED BY <4>1, <4>2, Zenon
    <3> QED BY <1>7, <3>1, <3>2
  <2>2. Caller # 0
    BY <1>7, LastTwo DEF Returning
  <2>3. Innermost' = Caller
    BY <1>4, <2>1 DEF Innermost, Caller
  <2>4. path'[1] = root'
    BY <1>1, <1>4, <2>1, <2>2 DEF OnBranch
  <2>5. ASSUME NEW i \in 1..Len(path'), i < Len(path') PROVE Side(path[i])' = path'[i + 1]
    <3>1. i \in 1..(Len(path) - 1) /\ i < Len(path) - 1 /\ i + 1 \in 1..(Len(path) - 1) /\ i \in 1..Len(path) /\ i < Len(path)
      BY <1>2, <1>4, <2>5
    <3>2. path'[i] = path[i] /\ path'[i + 1] = path[i + 1] /\ Side(path[i]) = path[i + 1]
      BY <1>1, <1>4, <3>1 DEF OnBranch
    <3>3. left'[path[i]] = left[path[i]] /\ right'[path[i]] = right[path[i]]
      BY <3>1
    <3>4. Side(path[i])' = IF arg' < val'[path'[i]] THEN left'[path'[i]] ELSE right'[path'[i]]
      BY DEF Side
    <3> QED BY <3>2, <3>3, <3>4 DEF Side
  <2>6. ASSUME NEW i \in 1..Len(path'), NEW j \in 1..Len(path'), i < j
        PROVE  IF arg' < val'[path'[i]] THEN hi2[path'[j]] < pos[path'[i]] ELSE pos[path'[i]] < lo2[path'[j]]
    <3>1. /\ i \in 1..(Len(path) - 1) /\ j \in 1..(Len(path) - 1) /\ i \in 1..Len(path) /\ j \in 1..Len(path)
          /\ j < Len(path)
      BY <1>2, <1>4
    <3>2. path'[i] = path[i] /\ path'[j] = path[j]
      BY <1>4, <3>1
    <3>3. IF arg < val[path[i]] THEN hi[path[j]] < pos[path[i]] ELSE pos[path[i]] < lo[path[j]]
      BY <1>1, <2>6, <3>1 DEF OnBranch
    <3>4. lo2[path[j]] = lo[path[j]] /\ hi2[path[j]] = hi[path[j]]
      BY <3>1
    <3> QED BY <3>2, <3>3, <3>4
  <2>7. \A i \in 1..Len(path') : i < Len(path') => Side(path[i])' = path'[i + 1]
    BY <2>5
  <2>8. OnBranch(pos, lo2, hi2)'
    BY <2>4, <2>6, <2>7 DEF OnBranch, Side
  <2>9. Leaving'
    <3>1. \A i \in 1..Len(path') : path'[i] = path[i] /\ i \in 1..Len(path)
      BY <1>4
    <3> QED BY <2>1, <3>1 DEF Leaving
  <2> QED BY <1>4, <2>1, <2>2, <2>3, <2>8, <2>9 DEF PathInv
<1> QED BY <1>6, <1>7

-----------------------------------------------------------------------------
(* The inductive invariant, second part: balance and searches.             *)

(* The height of t is from the time when its side was k high.              *)
Since(t, k) ==
  LET o == Hgt(height, OtherSide(t)) IN
  height[t] = Larger(k, o) + 1 /\ k - o \in -1..1

(* A subtree that has grown did so on the side of the key.                 *)
Leans(t) ==
  \/ left[t] = 0 /\ right[t] = 0
  \/ arg < val[t] /\ Hgt(height, left[t]) = Hgt(height, right[t]) + 1
  \/ arg > val[t] /\ Hgt(height, right[t]) = Hgt(height, left[t]) + 1

Grown(t) ==
  LET s == Hgt(height, Side(t)) IN
  Since(t, s) \/ (Side(t) # 0 /\ Leans(Side(t)) /\ Since(t, s - 1))

(* The nodes that need not be level.                                       *)
Turning ==
  IF tpc = "leave" THEN {Innermost}
  ELSE IF tpc = "leftRotate" THEN {Innermost, left[Innermost], Caller}
  ELSE IF tpc = "rightRotate" THEN {Innermost, right[Innermost], Caller}
  ELSE IF tpc \in {"leftRightRotate", "rightLeftRotate"} THEN {Innermost, Caller}
  ELSE {}

(* What was inserted last has made one side of a node too high.            *)
Unlevel ==
  /\ tpc = "leave" => Grown(Innermost)
  /\ tpc = "leftRotate" => OneTurn(height, left, right, Innermost)
  /\ tpc = "rightRotate" => OneTurn(height, right, left, Innermost)
  /\ tpc = "leftRightRotate" => TwoTurns(height, left, right, Innermost)
  /\ tpc = "rightLeftRotate" => TwoTurns(height, right, left, Innermost)
  /\ tpc \in {"leftRotate", "leftRightRotate"} /\ Caller # 0 =>
       Since(Caller, Hgt(height, right[Innermost]) + 2)
  /\ tpc \in {"rightRotate", "rightLeftRotate"} /\ Caller # 0 =>
       Since(Caller, Hgt(height, left[Innermost]) + 2)

BalanceInv ==
  DistinctKeys =>
    /\ tpc # "crashed"
    /\ \A t \in TreeNodes : t \notin Turning => Level(height, left, right, t)
    /\ Unlevel

-----------------------------------------------------------------------------
(* Searches under way: what has been found is still ahead.                 *)
BFSOrder(pos, lo, hi) ==
  \A i, j \in 1..Len(queue) : i < j =>
    LET m == Depth(Len(val), pos, lo, hi, queue[i])
        n == Depth(Len(val), pos, lo, hi, queue[j])
    IN  \/ m = n /\ hi[queue[i]] < lo[queue[j]]
        \/ n = m + 1 /\ hi[queue[j]] < lo[queue[i]]

DFSOrder(pos, lo, hi) ==
  /\ \A i, j \in 1..Len(path) : i < j => hi[path[j]] < pos[path[i]] /\ lo[path[i]] <= lo[path[j]]
  /\ at # 0 => \A i \in 1..Len(path) : hi[at] < pos[path[i]] /\ lo[path[i]] <= lo[at]

LookInv(pos, lo, hi) ==
  tpc = "look" =>
    /\ call = "searchAVL" => \A u \in TreeNodes : val[u] = arg => at # 0 /\ In(pos, lo, hi, u, at)
    /\ call = "BFS" =>
         /\ BFSOrder(pos, lo, hi)
         /\ \A u \in TreeNodes : val[u] = arg => \E i \in 1..Len(queue) : In(pos, lo, hi, u, queue[i])
    /\ call = "DFS" =>
         /\ DFSOrder(pos, lo, hi)
         /\ \A u \in TreeNodes : val[u] = arg =>
              \/ at # 0 /\ In(pos, lo, hi, u, at)
              \/ \E i \in 1..Len(path) : pos[path[i]] < pos[u] /\ pos[u] <= hi[path[i]]

TreeInvWith(pos, lo, hi) ==
  /\ Shape(Len(val), left, right, root, pos, lo, hi)
  /\ InOrder(pos) /\ PathInv(pos, lo, hi) /\ LookInv(pos, lo, hi)

TreeInv ==
  /\ TreeTypeOK /\ RotateInv /\ HeightInv /\ BalanceInv
  /\ tpc = "done" => NodeFound
  /\ \E pos, lo, hi : TreeInvWith(pos, lo, hi)

-----------------------------------------------------------------------------
(* The parent of the innermost node is the one before it.                  *)
LEMMA ParentIsCaller ==
  ASSUME NEW pos, NEW lo, NEW hi, Returning(pos, lo, hi), NEW u \in TreeNodes
  PROVE  left[u] = Innermost \/ right[u] = Innermost => Caller # 0 /\ u = Caller
<1>1. Shape(Len(val), left, right, root, pos, lo, hi) /\ Innermost # 0
  BY LastTwo DEF Returning
<1>2. left[u] # root /\ right[u] # root
  BY <1>1, OneParent DEF TreeNodes
<1>3. CASE Caller = 0
  BY <1>2, <1>3, LastTwo DEF Returning
<1>4. CASE Caller # 0
  <2>1. Caller \in TreeNodes /\ (left[Caller] = Innermost \/ right[Caller] = Innermost)
    BY <1>4, LastTwo DEF Returning, Side
  <2> QED BY <2>1, <1>1, <1>4, OneParent DEF TreeNodes
<1> QED BY <1>3, <1>4

(* A turn at t, of which only p is a parent, and the heights that it       *)
(* measures.                                                               *)
TurnMade(n, near, far, top, t, c, p, near2, far2, top2, h, h2) ==
  /\ Turned(n, near, far, top, t, c, near2, far2, top2)
  /\ h \in [1..n -> Nat] /\ Relevelled(near, far, h, t, c, h2)
  /\ \A u \in 1..n : near[u] = t \/ far[u] = t => u = p

(* After it only p may have a height of the past.                          *)
LEMMA TurnedHeightInv ==
  ASSUME NEW n, NEW near, NEW far, NEW top, NEW pos, NEW lo, NEW hi,
         Shape(n, near, far, top, pos, lo, hi), NEW t, NEW c, NEW p, NEW near2, NEW far2, NEW top2,
         NEW h, NEW h2, TurnMade(n, near, far, top, t, c, p, near2, far2, top2, h, h2)
  PROVE  \A u \in 1..n : u # p /\ (u \in {t, c} \/ Fits(h, near, far, u)) => Fits(h2, near2, far2, u)
<1> SUFFICES ASSUME NEW u \in 1..n, u # p, u \in {t, c} \/ Fits(h, near, far, u)
             PROVE  Fits(h2, near2, far2, u)
  OBVIOUS
<1>1. near[u] # t /\ far[u] # t
  BY DEF TurnMade
<1>2. /\ Turned(n, near, far, top, t, c, near2, far2, top2)
      /\ h \in [1..n -> Nat] /\ Relevelled(near, far, h, t, c, h2)
  BY DEF TurnMade
<1> QED BY <1>1, <1>2, TurnedFits

(* What is level stays so.                                                 *)
LEMMA TurnedLevel ==
  ASSUME NEW n, NEW near, NEW far, NEW top, NEW pos, NEW lo, NEW hi,
         Shape(n, near, far, top, pos, lo, hi), NEW t, NEW c, NEW p, NEW near2, NEW far2, NEW top2,
         NEW h, NEW h2, TurnMade(n, near, far, top, t, c, p, near2, far2, top2, h, h2)
  PROVE  \A u \in 1..n : u # p /\ u \notin {t, c} /\ Level(h, near, far, u) => Level(h2, near2, far2, u)
<1> SUFFICES ASSUME NEW u \in 1..n, u # p, u \notin {t, c}, Level(h, near, far, u)
             PROVE  Level(h2, near2, far2, u)
  OBVIOUS
<1>1. near[u] # t /\ far[u] # t
  BY DEF TurnMade
<1>2. /\ Turned(n, near, far, top, t, c, near2, far2, top2)
      /\ h \in [1..n -> Nat] /\ Relevelled(near, far, h, t, c, h2)
  BY DEF TurnMade
<1> QED BY <1>1, <1>2, TurnedLevels

(* After the turn that was needed all are level but p.                     *)
LEMMA TurnedBalance ==
  ASSUME NEW n, NEW near, NEW far, NEW top, NEW pos, NEW lo, NEW hi,
         Shape(n, near, far, top, pos, lo, hi), NEW t, NEW c, NEW p, NEW near2, NEW far2, NEW top2,
         NEW h, NEW h2, TurnMade(n, near, far, top, t, c, p, near2, far2, top2, h, h2),
         OneTurn(h, near, far, t)
  PROVE  \A u \in 1..n : u # p /\ (u \in {t, c} \/ Level(h, near, far, u)) => Level(h2, near2, far2, u)
<1> SUFFICES ASSUME NEW u \in 1..n, u # p, u \in {t, c} \/ Level(h, near, far, u)
             PROVE  Level(h2, near2, far2, u)
  OBVIOUS
<1>1. near[u] # t /\ far[u] # t
  BY DEF TurnMade
<1>t. /\ Turned(n, near, far, top, t, c, near2, far2, top2)
      /\ h \in [1..n -> Nat] /\ Relevelled(near, far, h, t, c, h2)
  BY DEF TurnMade
<1>2. Level(h2, near2, far2, t) /\ Level(h2, near2, far2, c)
  BY <1>t, OneTurnLevels
<1>3. CASE u \in {t, c}
  BY <1>2, <1>3
<1>4. CASE u \notin {t, c}
  BY <1>1, <1>4, <1>t, TurnedLevels
<1> QED BY <1>3, <1>4

(* The caller p of t keeps its height, and that of the other side.         *)
CallerKept(near, far, h, t, c, p, near2, far2, h2) ==
  /\ h2[p] = h[p]
  /\ near[p] = t => /\ near2[p] = c /\ Hgt(h2, near2[p]) = Hgt(h, far[t]) + 2
                    /\ Hgt(h2, far2[p]) = Hgt(h, far[p])
  /\ far[p] = t => /\ far2[p] = c /\ Hgt(h2, far2[p]) = Hgt(h, far[t]) + 2
                   /\ Hgt(h2, near2[p]) = Hgt(h, near[p])

(* The turn that was needed leaves the caller a side of known height.      *)
LEMMA TurnedCaller ==
  ASSUME NEW n, NEW near, NEW far, NEW top, NEW pos, NEW lo, NEW hi,
         Shape(n, near, far, top, pos, lo, hi), NEW t, NEW c, NEW p \in 1..n, NEW near2, NEW far2, NEW top2,
         NEW h, NEW h2, TurnMade(n, near, far, top, t, c, p, near2, far2, top2, h, h2),
         OneTurn(h, near, far, t), near[p] = t \/ far[p] = t
  PROVE  CallerKept(near, far, h, t, c, p, near2, far2, h2)
<1>t. /\ Turned(n, near, far, top, t, c, near2, far2, top2)
      /\ h \in [1..n -> Nat] /\ Relevelled(near, far, h, t, c, h2)
  BY DEF TurnMade
<1>1. n \in Nat /\ t \in 1..n /\ c \in 1..n /\ near[t] = c /\ t # 0 /\ c # 0
  BY <1>t, SMTT(30) DEF Shape, Turned
<1>2. p # t
  BY <1>1, OneParent
<1>3. p # c
  <2> SUFFICES ASSUME p = c PROVE FALSE
    OBVIOUS
  <2>1. ~In(pos, lo, hi, t, c) /\ c \in {near[t], far[t]}
    BY <1>1, ChildFacts
  <2>2. In(pos, lo, hi, t, c)
    BY <1>1, ChildFacts
  <2> QED BY <2>1, <2>2
<1>4. LeftAlone(near, far, h, t, c, near2, far2, h2, p)
  BY <1>2, <1>3, <1>t, TurnedHeights
<1>5. h2[c] = Hgt(h, far[t]) + 2
  BY <1>t, OneTurnLevels
<1>6. Hgt(h2, c) = Hgt(h, far[t]) + 2
  BY <1>1, <1>5 DEF Hgt
<1> QED BY <1>1, <1>4, <1>6 DEF LeftAlone, CallerKept

-----------------------------------------------------------------------------
(* The rotations keep it.                                                  *)

(* What an insertion is to leave in order.                                 *)
Inserted(pos, lo, hi) ==
  /\ Shape(Len(val), left, right, root, pos, lo, hi)
  /\ InOrder(pos) /\ PathInv(pos, lo, hi)
  /\ height \in [TreeNodes -> Nat]
  /\ path \in Seq(TreeNodes) /\ (tpc = "idle" => path = <<>>)
  /\ tpc \in {"idle", "crashed"} \union Inserting
  /\ RotateInv /\ HeightInv /\ BalanceInv

(* A step of an insertion that allocates nothing needs to show no more     *)
(* than Inserted.                                                          *)
LEMMA InsertedKeeps ==
  ASSUME TreeTypeOK, UNCHANGED <<val, arg, at, queue>>, NEW pos, NEW lo, NEW hi,
         Inserted(pos, lo, hi)'
  PROVE  TreeInv'
<1>1. Len(val') = Len(val) /\ TreeNodes' = TreeNodes
  BY DEF TreeNodes
<1>2. /\ Shape(Len(val), left', right', root', pos, lo, hi)
      /\ height' \in [TreeNodes -> Nat]
      /\ path' \in Seq(TreeNodes) /\ (tpc' = "idle" => path' = <<>>)
      /\ tpc' \in {"idle", "crashed"} \union Inserting
  BY <1>1 DEF Inserted
<1>3. left' \in [TreeNodes -> 0..Len(val)] /\ right' \in [TreeNodes -> 0..Len(val)] /\ root' \in 0..Len(val)
  BY <1>2 DEF Shape, Linked, Rooted, TreeNodes
<1>4. /\ val \in Seq(Int) /\ at \in 0..Len(val) /\ arg \in Int /\ queue \in Seq(TreeNodes)
  BY DEF TreeTypeOK
<1>5. tpc' # "look" /\ tpc' # "done" /\ Inserting' = Inserting
  BY <1>2 DEF Inserting, Rotations
<1>6. TreeTypeOK'
  BY <1>1, <1>2, <1>3, <1>4, <1>5 DEF TreeTypeOK
<1>7. TreeInvWith(pos, lo, hi)'
  BY <1>5 DEF TreeInvWith, LookInv, Inserted
<1>8. RotateInv' /\ HeightInv' /\ BalanceInv'
  BY DEF Inserted
<1> QED BY <1>5, <1>6, <1>7, <1>8 DEF TreeInv

(* The two ways to say that a node knows its height agree.                 *)
LEMMA FitsIsMeasured ==
  ASSUME NEW t
  PROVE  IsMeasured(t) <=> Fits(height, left, right, t)
BY DEF IsMeasured, Fits, Measured, GetHeight, Hgt, Null

(* A node that knows its height does so in the mirror.                     *)
LEMMA FitsMirrored ==
  ASSUME NEW n \in Nat, NEW h \in [1..n -> Nat], NEW near \in [1..n -> 0..n], NEW far \in [1..n -> 0..n],
         NEW t \in 1..n
  PROVE  Fits(h, near, far, t) <=> Fits(h, far, near, t)
<1>1. Hgt(h, near[t]) \in Nat /\ Hgt(h, far[t]) \in Nat
  BY DEF Hgt
<1> QED BY <1>1 DEF Fits, Larger

(* When the innermost call has returned, its caller p is all there is to   *)
(* bring up to date.                                                       *)
LEMMA HeightsAfter ==
  ASSUME NEW n, NEW p, TreeNodes' = 1..n, tpc' = "idle" => p = 0,
         tpc' # "idle" => tpc' = "leave" /\ p # 0 /\ Innermost' = p,
         \A u \in 1..n : u # p => Fits(height', left', right', u)
  PROVE  HeightInv'
<1>1. \A u \in 1..n : u \notin Behind' => u # p
  <2>1. CASE tpc' = "idle"
    BY <2>1
  <2>2. CASE tpc' = "leave"
    BY <2>2 DEF Behind
  <2> QED BY <2>1, <2>2
<1>2. ASSUME NEW u \in TreeNodes', u \notin Behind' PROVE IsMeasured(u)'
  <2>1. Fits(height', left', right', u)
    BY <1>1, <1>2
  <2> QED BY <2>1 DEF IsMeasured, Fits, Measured, GetHeight, Hgt, Null
<1> QED BY <1>2 DEF HeightInv

(* Once the tree is turned only the caller may be out of balance.          *)
LEMMA BalanceAfter ==
  ASSUME NEW n, NEW p, TreeNodes' = 1..n, tpc' = "idle" => p = 0,
         tpc' # "idle" => tpc' = "leave" /\ p # 0 /\ Innermost' = p,
         \A u \in 1..n : u # p => Level(height', left', right', u),
         p # 0 => Grown(p)'
  PROVE  BalanceInv'
<1>1. CASE tpc' = "idle"
  BY <1>1 DEF BalanceInv, Unlevel
<1>2. CASE tpc' = "leave" /\ p # 0 /\ Innermost' = p
  <2>1. Grown(Innermost)'
    BY <1>2 DEF Grown, Since, Side, OtherSide, Leans
  <2>2. \A u \in TreeNodes' : u \notin Turning' => u # p
    BY <1>2 DEF Turning
  <2> QED BY <1>2, <2>1, <2>2 DEF BalanceInv, Unlevel
<1> QED BY <1>1, <1>2

(* After leftRotate the caller meets the invariant: its side is as high as *)
(* before, or has grown by one.                                            *)
LEMMA LeftGrown ==
  ASSUME NEW t, NEW c, NEW p, Side(p) = t,
         CallerKept(left, right, height, t, c, p, left', right', height'),
         Since(p, Hgt(height, right[t]) + 2), UNCHANGED <<val, arg>>
  PROVE  Grown(p)'
<1> DEFINE m == Hgt(height, right[t])
<1>1. Since(p, m + 2)
  OBVIOUS
<1>2. /\ height'[p] = height[p]
      /\ left[p] = t => Hgt(height', left'[p]) = m + 2 /\ Hgt(height', right'[p]) = Hgt(height, right[p])
      /\ right[p] = t => Hgt(height', right'[p]) = m + 2 /\ Hgt(height', left'[p]) = Hgt(height, left[p])
  BY DEF CallerKept
<1> HIDE DEF m
<1>3. CASE arg < val[p]
  <2>1. left[p] = t /\ OtherSide(p) = right[p]
    BY <1>3 DEF Side, OtherSide
  <2>2. height'[p] = Larger(m + 2, Hgt(height, right[p])) + 1 /\ (m + 2) - Hgt(height, right[p]) \in -1..1
    BY <1>1, <1>2, <2>1 DEF Since
  <2> QED BY <1>2, <1>3, <2>1, <2>2 DEF Grown, Since, Side, OtherSide
<1>4. CASE ~(arg < val[p])
  <2>1. right[p] = t /\ OtherSide(p) = left[p]
    BY <1>4 DEF Side, OtherSide
  <2>2. height'[p] = Larger(m + 2, Hgt(height, left[p])) + 1 /\ (m + 2) - Hgt(height, left[p]) \in -1..1
    BY <1>1, <1>2, <2>1 DEF Since
  <2> QED BY <1>2, <1>4, <2>1, <2>2 DEF Grown, Since, Side, OtherSide
<1> QED BY <1>3, <1>4

(* LeftRotate, and the return that follows it, keep the invariant.         *)
LEMMA LeftRotateKeeps ==
  ASSUME TreeInv, LeftRotate, UNCHANGED <<call, arg, at, queue>>
  PROVE  TreeInv'
<1>1. PICK pos, lo, hi : TreeInvWith(pos, lo, hi)
  BY DEF TreeInv
<1>2. TreeTypeOK /\ RotateInv /\ HeightInv /\ BalanceInv /\ tpc = "leftRotate" /\ UNCHANGED val
  BY DEF TreeInv, LeftRotate
<1>3. OnBranch(pos, lo, hi) /\ Leaving /\ InOrder(pos) /\ Shape(Len(val), left, right, root, pos, lo, hi)
  BY <1>1, <1>2 DEF TreeInvWith, PathInv, Inserting, Rotations
<1>4. Returning(pos, lo, hi) /\ left[Innermost] # 0
  BY <1>2, <1>3 DEF Returning, Leaving, RotateInv, Null
<1>d. PICK n, t, c, p : n = Len(val) /\ t = Innermost /\ c = left[t] /\ p = Caller
  OBVIOUS
<1>5. /\ Turned(n, left, right, root, t, c, left', right', root')
      /\ Relevelled(left, right, height, t, c, height')
  BY <1>4, <1>d, LeftTurns DEF Null
<1>6. /\ n \in Nat /\ t \in 1..n /\ c \in 1..n /\ t # 0 /\ c # 0 /\ p \in 0..n
      /\ height \in [1..n -> Nat] /\ left \in [1..n -> 0..n] /\ right \in [1..n -> 0..n]
      /\ Len(val') = n /\ TreeNodes = 1..n /\ TreeNodes' = 1..n
  BY <1>2, <1>3, <1>4, <1>5, <1>d, LastTwo DEF Shape, Turned, TreeTypeOK, TreeNodes, Returning
<1>7. \A u \in 1..n : left[u] = t \/ right[u] = t => p # 0 /\ u = p
  BY <1>4, <1>6, <1>d, ParentIsCaller
<1>s. Shape(n, left, right, root, pos, lo, hi)
  BY <1>3, <1>d
<1>8. PICK lo2, hi2 : /\ Shape(n, left', right', root', pos, lo2, hi2)
                      /\ Widened(n, t, c, pos, lo, hi, lo2, hi2)
  BY <1>s, <1>5, TurnedLeft
<1>9. height' \in [1..n -> Nat]
  BY <1>s, <1>5, <1>6, TurnedHeights
<1>e. p # 0 => Side(p) = t
  BY <1>4, <1>d, LastTwo DEF Returning
<1>10. ReturnNode(Rotated(left, right, t).root, Rotated(left, right, t).near, Rotated(left, right, t).far)
  BY <1>d DEF LeftRotate
<1>11. /\ path' = SubSeq(path, 1, Len(path) - 1)
       /\ tpc' = IF Len(path) = 1 THEN "idle" ELSE "leave"
       /\ p # 0 => root' = root
  BY <1>10, <1>d DEF ReturnNode, Store, Null
<1>12. \A i \in 1..Len(path) : i < Len(path) => path[i] \in 1..n /\ path[i] # t /\ path[i] # c
  <2> SUFFICES ASSUME NEW i \in 1..Len(path), i < Len(path) PROVE path[i] \in 1..n /\ path[i] # t /\ path[i] # c
    OBVIOUS
  <2>1. path[i] \in TreeNodes /\ ~In(pos, lo, hi, path[i], t)
    BY <1>3, <1>4, <1>d, OthersOutside DEF Returning
  <2>2. In(pos, lo, hi, c, t) /\ In(pos, lo, hi, t, t)
    <3>1. In(pos, lo, hi, c, t)
      BY <1>s, <1>d, <1>6, ChildFacts
    <3>2. lo[t] <= pos[t] /\ pos[t] <= hi[t]
      BY <1>s, <1>6, NodeFacts
    <3> QED BY <3>1, <3>2 DEF In
  <2> QED BY <2>1, <2>2, <1>6
<1>13. \A i \in 1..Len(path) : i < Len(path) => lo2[path[i]] = lo[path[i]] /\ hi2[path[i]] = hi[path[i]]
  BY <1>8, <1>12 DEF Widened
<1>14. \A i \in 1..Len(path) : i < Len(path) - 1 =>
         left'[path[i]] = left[path[i]] /\ right'[path[i]] = right[path[i]]
  <2> SUFFICES ASSUME NEW i \in 1..Len(path), i < Len(path) - 1
               PROVE  left'[path[i]] = left[path[i]] /\ right'[path[i]] = right[path[i]]
    OBVIOUS
  <2>1. Len(path) \in Nat /\ path \in Seq(TreeNodes)
    BY <1>2 DEF TreeTypeOK
  <2>2. i < Len(path) /\ Len(path) - 1 \in 1..Len(path) /\ ~(Len(path) < 2)
    BY <2>1
  <2>3. path[i] \in 1..n /\ path[i] # t /\ path[i] # c
    BY <1>12, <2>2
  <2>4. path[i] # p
    <3>1. p = path[Len(path) - 1]
      BY <1>d, <2>2 DEF Caller
    <3>2. path[i] # path[Len(path) - 1]
      BY <1>4, <2>2, PathDistinct
    <3> QED BY <3>1, <3>2
  <2>5. left[path[i]] # t /\ right[path[i]] # t
    BY <1>7, <2>3, <2>4
  <2> QED BY <1>5, <2>3, <2>5 DEF Turned
<1>15. /\ path' \in Seq(TreeNodes)
       /\ tpc' = "idle" => path' = <<>> /\ p = 0
       /\ tpc' # "idle" => tpc' = "leave" /\ p # 0 /\ Innermost' = p
       /\ PathInv(pos, lo2, hi2)'
  <2>1. PathReturns(lo, hi, lo2, hi2)
    BY <1>2, <1>d, <1>11, <1>13, <1>14 DEF PathReturns
  <2> QED BY <1>3, <1>4, <1>d, <2>1, ReturnPath
<1>t. TurnMade(n, left, right, root, t, c, p, left', right', root', height, height')
  BY <1>5, <1>6, <1>7 DEF TurnMade
<1>16. \A u \in 1..n : u # p => Fits(height', left', right', u)
  <2>1. \A u \in 1..n : u # p => u \in {t, c} \/ Fits(height, left, right, u)
    BY <1>2, <1>6, <1>d, FitsIsMeasured DEF HeightInv, Behind, Rotations
  <2>2. \A u \in 1..n : u # p /\ (u \in {t, c} \/ Fits(height, left, right, u)) => Fits(height', left', right', u)
    BY <1>s, <1>t, TurnedHeightInv
  <2> QED BY <2>1, <2>2
<1>17. HeightInv'
  BY <1>6, <1>15, <1>16, HeightsAfter
<1>18. BalanceInv'
  <2> SUFFICES ASSUME DistinctKeys PROVE BalanceInv'
    BY <1>2, <1>6 DEF BalanceInv, DistinctKeys
  <2>1. OneTurn(height, left, right, t) /\ (p # 0 => Since(p, Hgt(height, right[t]) + 2))
    BY <1>2, <1>d DEF BalanceInv, Unlevel
  <2>2. \A u \in 1..n : u # p => Level(height', left', right', u)
    <3>1. \A u \in 1..n : u # p => u \in {t, c} \/ Level(height, left, right, u)
      BY <1>2, <1>6, <1>d DEF BalanceInv, Turning
    <3>2. \A u \in 1..n : u # p /\ (u \in {t, c} \/ Level(height, left, right, u)) => Level(height', left', right', u)
      BY <1>s, <1>t, <2>1, TurnedBalance
    <3> QED BY <3>1, <3>2
  <2>3. ASSUME p # 0 PROVE Grown(p)'
    <3>1. p \in 1..n /\ Side(p) = t /\ (left[p] = t \/ right[p] = t)
      BY <2>3, <1>6, <1>e DEF Side
    <3>2. CallerKept(left, right, height, t, c, p, left', right', height')
      BY <1>s, <1>t, <2>1, <3>1, TurnedCaller
    <3>3. Since(p, Hgt(height, right[t]) + 2) /\ UNCHANGED <<val, arg>>
      BY <1>2, <2>1, <2>3
    <3> QED BY <3>1, <3>2, <3>3, LeftGrown
  <2> QED BY <1>6, <1>15, <2>2, <2>3, BalanceAfter
<1>19. Inserted(pos, lo2, hi2)'
  <2>1. tpc' \in {"idle", "leave"}
    BY <1>11
  <2>2. RotateInv' /\ tpc' \in {"idle", "crashed"} \union Inserting
    BY <2>1 DEF RotateInv, Inserting
  <2>3. InOrder(pos)'
    BY <1>2, <1>3 DEF InOrder, TreeNodes
  <2>4. Shape(Len(val), left, right, root, pos, lo2, hi2)'
    BY <1>6, <1>8
  <2> QED BY <1>2, <1>6, <1>9, <1>15, <1>17, <1>18, <2>1, <2>2, <2>3, <2>4 DEF Inserted
<1> QED BY <1>2, <1>19, InsertedKeeps

(* And so after rightRotate.                                               *)
LEMMA RightGrown ==
  ASSUME NEW t, NEW c, NEW p, Side(p) = t,
         CallerKept(right, left, height, t, c, p, right', left', height'),
         Since(p, Hgt(height, left[t]) + 2), UNCHANGED <<val, arg>>
  PROVE  Grown(p)'
<1> DEFINE m == Hgt(height, left[t])
<1>1. Since(p, m + 2)
  OBVIOUS
<1>2. /\ height'[p] = height[p]
      /\ left[p] = t => Hgt(height', left'[p]) = m + 2 /\ Hgt(height', right'[p]) = Hgt(height, right[p])
      /\ right[p] = t => Hgt(height', right'[p]) = m + 2 /\ Hgt(height', left'[p]) = Hgt(height, left[p])
  BY DEF CallerKept
<1> HIDE DEF m
<1>3. CASE arg < val[p]
  <2>1. left[p] = t /\ OtherSide(p) = right[p]
    BY <1>3 DEF Side, OtherSide
  <2>2. height'[p] = Larger(m + 2, Hgt(height, right[p])) + 1 /\ (m + 2) - Hgt(height, right[p]) \in -1..1
    BY <1>1, <1>2, <2>1 DEF Since
  <2> QED BY <1>2, <1>3, <2>1, <2>2 DEF Grown, Since, Side, OtherSide
<1>4. CASE ~(arg < val[p])
  <2>1. right[p] = t /\ OtherSide(p) = left[p]
    BY <1>4 DEF Side, OtherSide
  <2>2. height'[p] = Larger(m + 2, Hgt(height, left[p])) + 1 /\ (m + 2) - Hgt(height, left[p]) \in -1..1
    BY <1>1, <1>2, <2>1 DEF Since
  <2> QED BY <1>2, <1>4, <2>1, <2>2 DEF Grown, Since, Side, OtherSide
<1> QED BY <1>3, <1>4

(* RightRotate, and the return that follows it, keep the invariant.        *)
LEMMA RightRotateKeeps ==
  ASSUME TreeInv, RightRotate, UNCHANGED <<call, arg, at, queue>>
  PROVE  TreeInv'
<1>1. PICK pos, lo, hi : TreeInvWith(pos, lo, hi)
  BY DEF TreeInv
<1>2. TreeTypeOK /\ RotateInv /\ HeightInv /\ BalanceInv /\ tpc = "rightRotate" /\ UNCHANGED val
  BY DEF TreeInv, RightRotate
<1>3. OnBranch(pos, lo, hi) /\ Leaving /\ InOrder(pos) /\ Shape(Len(val), left, right, root, pos, lo, hi)
  BY <1>1, <1>2 DEF TreeInvWith, PathInv, Inserting, Rotations
<1>4. Returning(pos, lo, hi) /\ right[Innermost] # 0
  BY <1>2, <1>3 DEF Returning, Leaving, RotateInv, Null
<1>d. PICK n, t, c, p : n = Len(val) /\ t = Innermost /\ c = right[t] /\ p = Caller
  OBVIOUS
<1>5. /\ Turned(n, right, left, root, t, c, right', left', root')
      /\ Relevelled(right, left, height, t, c, height')
  BY <1>4, <1>d, RightTurns DEF Null
<1>6. /\ n \in Nat /\ t \in 1..n /\ c \in 1..n /\ t # 0 /\ c # 0 /\ p \in 0..n
      /\ height \in [1..n -> Nat] /\ right \in [1..n -> 0..n] /\ left \in [1..n -> 0..n]
      /\ Len(val') = n /\ TreeNodes = 1..n /\ TreeNodes' = 1..n
  BY <1>2, <1>3, <1>4, <1>5, <1>d, LastTwo DEF Shape, Turned, TreeTypeOK, TreeNodes, Returning
<1>7. \A u \in 1..n : left[u] = t \/ right[u] = t => p # 0 /\ u = p
  BY <1>4, <1>6, <1>d, ParentIsCaller
<1>s. Shape(n, left, right, root, pos, lo, hi)
  BY <1>3, <1>d
<1>m. Shape(n, right, left, root, Neg(n, pos), Neg(n, hi), Neg(n, lo))
  BY <1>s, Mirrored
<1>8. PICK lo2, hi2 : /\ Shape(n, left', right', root', pos, lo2, hi2)
                      /\ WidenedBack(n, t, c, pos, lo, hi, lo2, hi2)
  BY <1>s, <1>5, TurnedRight
<1>9. height' \in [1..n -> Nat]
  BY <1>m, <1>5, <1>6, TurnedHeights
<1>e. p # 0 => Side(p) = t
  BY <1>4, <1>d, LastTwo DEF Returning
<1>10. ReturnNode(Rotated(right, left, t).root, Rotated(right, left, t).far, Rotated(right, left, t).near)
  BY <1>d DEF RightRotate
<1>11. /\ path' = SubSeq(path, 1, Len(path) - 1)
       /\ tpc' = IF Len(path) = 1 THEN "idle" ELSE "leave"
       /\ p # 0 => root' = root
  BY <1>10, <1>d DEF ReturnNode, Store, Null
<1>12. \A i \in 1..Len(path) : i < Len(path) => path[i] \in 1..n /\ path[i] # t /\ path[i] # c
  <2> SUFFICES ASSUME NEW i \in 1..Len(path), i < Len(path) PROVE path[i] \in 1..n /\ path[i] # t /\ path[i] # c
    OBVIOUS
  <2>1. path[i] \in TreeNodes /\ ~In(pos, lo, hi, path[i], t)
    BY <1>3, <1>4, <1>d, OthersOutside DEF Returning
  <2>2. In(pos, lo, hi, c, t) /\ In(pos, lo, hi, t, t)
    <3>1. In(pos, lo, hi, c, t)
      BY <1>s, <1>d, <1>6, ChildFacts
    <3>2. lo[t] <= pos[t] /\ pos[t] <= hi[t]
      BY <1>s, <1>6, NodeFacts
    <3> QED BY <3>1, <3>2 DEF In
  <2> QED BY <2>1, <2>2, <1>6
<1>13. \A i \in 1..Len(path) : i < Len(path) => lo2[path[i]] = lo[path[i]] /\ hi2[path[i]] = hi[path[i]]
  BY <1>8, <1>12 DEF WidenedBack
<1>14. \A i \in 1..Len(path) : i < Len(path) - 1 =>
         left'[path[i]] = left[path[i]] /\ right'[path[i]] = right[path[i]]
  <2> SUFFICES ASSUME NEW i \in 1..Len(path), i < Len(path) - 1
               PROVE  left'[path[i]] = left[path[i]] /\ right'[path[i]] = right[path[i]]
    OBVIOUS
  <2>1. Len(path) \in Nat /\ path \in Seq(TreeNodes)
    BY <1>2 DEF TreeTypeOK
  <2>2. i < Len(path) /\ Len(path) - 1 \in 1..Len(path) /\ ~(Len(path) < 2)
    BY <2>1
  <2>3. path[i] \in 1..n /\ path[i] # t /\ path[i] # c
    BY <1>12, <2>2
  <2>4. path[i] # p
    <3>1. p = path[Len(path) - 1]
      BY <1>d, <2>2 DEF Caller
    <3>2. path[i] # path[Len(path) - 1]
      BY <1>4, <2>2, PathDistinct
    <3> QED BY <3>1, <3>2
  <2>5. right[path[i]] # t /\ left[path[i]] # t
    BY <1>7, <2>3, <2>4
  <2> QED BY <1>5, <2>3, <2>5 DEF Turned
<1>15. /\ path' \in Seq(TreeNodes)
       /\ tpc' = "idle" => path' = <<>> /\ p = 0
       /\ tpc' # "idle" => tpc' = "leave" /\ p # 0 /\ Innermost' = p
       /\ PathInv(pos, lo2, hi2)'
  <2>1. PathReturns(lo, hi, lo2, hi2)
    BY <1>2, <1>d, <1>11, <1>13, <1>14 DEF PathReturns
  <2> QED BY <1>3, <1>4, <1>d, <2>1, ReturnPath
<1>t. TurnMade(n, right, left, root, t, c, p, right', left', root', height, height')
  BY <1>5, <1>6, <1>7 DEF TurnMade
<1>16. \A u \in 1..n : u # p => Fits(height', left', right', u)
  <2>1. \A u \in 1..n : u # p => u \in {t, c} \/ Fits(height, right, left, u)
    <3>1. \A u \in 1..n : u # p => u = t \/ Fits(height, left, right, u)
      BY <1>2, <1>6, <1>d, FitsIsMeasured DEF HeightInv, Behind, Rotations
    <3> QED BY <3>1, <1>6, FitsMirrored
  <2>2. \A u \in 1..n : u # p /\ (u \in {t, c} \/ Fits(height, right, left, u)) => Fits(height', right', left', u)
    BY <1>m, <1>t, TurnedHeightInv
  <2>3. \A u \in 1..n : u # p => Fits(height', right', left', u)
    BY <2>1, <2>2
  <2>4. left' \in [1..n -> 0..n] /\ right' \in [1..n -> 0..n]
    BY <1>8 DEF Shape, Linked
  <2> QED BY <2>3, <2>4, <1>6, <1>9, FitsMirrored
<1>17. HeightInv'
  BY <1>6, <1>15, <1>16, HeightsAfter
<1>18. BalanceInv'
  <2> SUFFICES ASSUME DistinctKeys PROVE BalanceInv'
    BY <1>2, <1>6 DEF BalanceInv, DistinctKeys
  <2>1. OneTurn(height, right, left, t) /\ (p # 0 => Since(p, Hgt(height, left[t]) + 2))
    BY <1>2, <1>d DEF BalanceInv, Unlevel
  <2>2. \A u \in 1..n : u # p => Level(height', left', right', u)
    <3>1. \A u \in 1..n : u # p => u \in {t, c} \/ Level(height, right, left, u)
      <4>1. \A u \in 1..n : u # p => u \in {t, c} \/ Level(height, left, right, u)
        BY <1>2, <1>6, <1>d DEF BalanceInv, Turning
      <4> QED BY <4>1, <1>6, LevelMirrored
    <3>2. \A u \in 1..n : u # p /\ (u \in {t, c} \/ Level(height, right, left, u)) => Level(height', right', left', u)
      BY <1>m, <1>t, <2>1, TurnedBalance
    <3>3. \A u \in 1..n : u # p => Level(height', right', left', u)
      BY <3>1, <3>2
    <3>4. left' \in [1..n -> 0..n] /\ right' \in [1..n -> 0..n]
      BY <1>8 DEF Shape, Linked
    <3> QED BY <3>3, <3>4, <1>6, <1>9, LevelMirrored
  <2>3. ASSUME p # 0 PROVE Grown(p)'
    <3>1. p \in 1..n /\ Side(p) = t /\ (right[p] = t \/ left[p] = t)
      BY <2>3, <1>6, <1>e DEF Side
    <3>2. CallerKept(right, left, height, t, c, p, right', left', height')
      BY <1>m, <1>t, <2>1, <3>1, TurnedCaller
    <3>3. Since(p, Hgt(height, left[t]) + 2) /\ UNCHANGED <<val, arg>>
      BY <1>2, <2>1, <2>3
    <3> QED BY <3>1, <3>2, <3>3, RightGrown
  <2> QED BY <1>6, <1>15, <2>2, <2>3, BalanceAfter
<1>19. Inserted(pos, lo2, hi2)'
  <2>1. tpc' \in {"idle", "leave"}
    BY <1>11
  <2>2. RotateInv' /\ tpc' \in {"idle", "crashed"} \union Inserting
    BY <2>1 DEF RotateInv, Inserting
  <2>3. InOrder(pos)'
    BY <1>2, <1>3 DEF InOrder, TreeNodes
  <2>4. Shape(Len(val), left, right, root, pos, lo2, hi2)'
    BY <1>6, <1>8
  <2> QED BY <1>2, <1>6, <1>9, <1>15, <1>17, <1>18, <2>1, <2>2, <2>3, <2>4 DEF Inserted
<1> QED BY <1>2, <1>19, InsertedKeeps

(* The calls under way stay while a turn of w below the last of them keeps *)
(* its pointers and its ranges.                                            *)
PathStays(lo, hi, lo2, hi2) ==
  /\ UNCHANGED <<val, arg, root, path>>
  /\ \A i \in 1..Len(path) : /\ i < Len(path) => left'[path[i]] = left[path[i]] /\ right'[path[i]] = right[path[i]]
                             /\ lo2[path[i]] = lo[path[i]] /\ hi2[path[i]] = hi[path[i]]

(* A turn below the innermost node leaves the calls on one branch.         *)
LEMMA PathStaysOnBranch ==
  ASSUME NEW pos, NEW lo, NEW hi, Returning(pos, lo, hi), Leaving, NEW lo2, NEW hi2,
         PathStays(lo, hi, lo2, hi2), tpc' \in Rotations \union {"crashed"}
  PROVE  PathInv(pos, lo2, hi2)' /\ Innermost' = Innermost /\ Caller' = Caller
<1>1. OnBranch(pos, lo, hi) /\ path \in Seq(TreeNodes) /\ Len(path) \in Nat
  BY DEF Returning, TreeTypeOK
<1>2. Innermost' = Innermost /\ Caller' = Caller
  BY DEF Innermost, Caller, PathStays
<1>3. Leaving'
  BY DEF Leaving, PathStays
<1>4. path' # <<>> => path'[1] = root'
  BY <1>1 DEF OnBranch, PathStays
<1>5. \A i \in 1..Len(path) : i < Len(path) => Side(path[i])' = path[i + 1]
  <2> SUFFICES ASSUME NEW i \in 1..Len(path), i < Len(path) PROVE Side(path[i])' = path[i + 1]
    OBVIOUS
  <2>1. Side(path[i]) = path[i + 1]
    BY <1>1 DEF OnBranch
  <2>2. left'[path[i]] = left[path[i]] /\ right'[path[i]] = right[path[i]] /\ path'[i] = path[i] /\ UNCHANGED <<val, arg>>
    BY DEF PathStays
  <2>3. Side(path[i])' = IF arg' < val'[path'[i]] THEN left'[path'[i]] ELSE right'[path'[i]]
    BY DEF Side
  <2> QED BY <2>1, <2>2, <2>3 DEF Side
<1>6. ASSUME NEW i \in 1..Len(path), NEW j \in 1..Len(path), i < j
      PROVE  IF arg' < val'[path'[i]] THEN hi2[path'[j]] < pos[path'[i]] ELSE pos[path'[i]] < lo2[path'[j]]
  <2>1. IF arg < val[path[i]] THEN hi[path[j]] < pos[path[i]] ELSE pos[path[i]] < lo[path[j]]
    BY <1>1, <1>6 DEF OnBranch
  <2>2. lo2[path[j]] = lo[path[j]] /\ hi2[path[j]] = hi[path[j]] /\ UNCHANGED <<val, arg, path>>
    BY DEF PathStays
  <2> QED BY <2>1, <2>2
<1>7. OnBranch(pos, lo2, hi2)'
  <2>1. path' = path
    BY DEF PathStays
  <2> QED BY <1>4, <1>5, <1>6, <2>1 DEF OnBranch
<1>8. PathInv(pos, lo2, hi2)'
  BY <1>3, <1>7 DEF PathInv, Rotations, Inserting
<1> QED BY <1>2, <1>8

(* The program crashes only where no turn was needed.                      *)
LEMMA CrashKeeps ==
  ASSUME TreeInv, tpc \in Rotations, DistinctKeys => FALSE, Crash, UNCHANGED <<call, arg, at, queue>>
  PROVE  TreeInv'
<1>1. PICK pos, lo, hi : TreeInvWith(pos, lo, hi)
  BY DEF TreeInv
<1>2. /\ TreeTypeOK /\ HeightInv /\ tpc' = "crashed"
      /\ UNCHANGED <<val, left, right, height, root, path>>
  BY DEF TreeInv, Crash, fields
<1>3. InOrder(pos) /\ Shape(Len(val), left, right, root, pos, lo, hi)
  BY <1>1 DEF TreeInvWith
<1>4. InOrder(pos)' /\ Shape(Len(val), left, right, root, pos, lo, hi)' /\ TreeNodes' = TreeNodes
  BY <1>2, <1>3 DEF InOrder, TreeNodes
<1>5. HeightInv'
  <2>1. Behind' = Behind
    <3>1. PICK t, p : t = Innermost /\ p = Caller
      OBVIOUS
    <3>2. Innermost' = t /\ Caller' = p
      BY <1>2, <3>1 DEF Innermost, Caller
    <3>3. tpc # "leave"
      BY DEF Rotations
    <3>4. Behind = {t, p}
      BY <3>1, <3>3 DEF Behind
    <3>5. Behind' = {t, p}
      BY <1>2, <3>2 DEF Behind, Rotations
    <3> QED BY <3>4, <3>5
  <2> QED BY <1>2, <1>4, <2>1 DEF HeightInv, IsMeasured, Measured, GetHeight
<1>6. BalanceInv'
  BY <1>2 DEF BalanceInv, DistinctKeys, TreeNodes
<1>7. PathInv(pos, lo, hi)' /\ RotateInv'
  BY <1>2 DEF PathInv, RotateInv, Inserting, Rotations
<1>8. height' \in [TreeNodes' -> Nat] /\ path' \in Seq(TreeNodes') /\ tpc' # "idle"
  BY <1>2, <1>4 DEF TreeTypeOK
<1>9. Inserted(pos, lo, hi)'
  BY <1>2, <1>4, <1>5, <1>6, <1>7, <1>8 DEF Inserted
<1> QED BY <1>2, <1>9, InsertedKeeps

(* The first of the rotations of leftRightRotate, or the crash, keeps the  *)
(* invariant.                                                              *)
LEMMA LeftRightRotateKeeps ==
  ASSUME TreeInv, LeftRightRotate, UNCHANGED <<call, arg, at, queue>>
  PROVE  TreeInv'
<1>1. PICK pos, lo, hi : TreeInvWith(pos, lo, hi)
  BY DEF TreeInv
<1>2. TreeTypeOK /\ RotateInv /\ HeightInv /\ BalanceInv /\ tpc = "leftRightRotate"
  BY DEF TreeInv, LeftRightRotate
<1>3. OnBranch(pos, lo, hi) /\ Leaving /\ InOrder(pos) /\ Shape(Len(val), left, right, root, pos, lo, hi)
  BY <1>1, <1>2 DEF TreeInvWith, PathInv, Inserting, Rotations
<1>4. Returning(pos, lo, hi) /\ left[Innermost] # 0
  BY <1>2, <1>3 DEF Returning, Leaving, RotateInv, Null
<1>d. PICK n, t, w, c, p : n = Len(val) /\ t = Innermost /\ w = left[t] /\ c = right[w] /\ p = Caller
  OBVIOUS
<1>5. /\ n \in Nat /\ t \in 1..n /\ w \in 1..n /\ t # 0 /\ w # 0 /\ c \in 0..n /\ p \in 0..n
      /\ height \in [1..n -> Nat] /\ left \in [1..n -> 0..n] /\ right \in [1..n -> 0..n]
      /\ TreeNodes = 1..n
  <2>1. n \in Nat /\ left \in [1..n -> 0..n] /\ right \in [1..n -> 0..n] /\ height \in [1..n -> Nat] /\ TreeNodes = 1..n
    BY <1>2, <1>3, <1>d DEF Shape, Linked, TreeTypeOK, TreeNodes
  <2>2. t \in 1..n /\ t # 0 /\ p \in 0..n
    BY <1>4, <1>d, LastTwo DEF TreeNodes, Returning
  <2>3. w \in 1..n /\ w # 0
    BY <1>4, <1>d, <2>1, <2>2
  <2> QED BY <2>1, <2>2, <2>3, <1>d
<1>6. DistinctKeys => TwoTurns(height, left, right, t) /\ (p # 0 => Since(p, Hgt(height, right[t]) + 2))
  BY <1>2, <1>d DEF BalanceInv, Unlevel
<1>7. CASE c = 0
  <2>1. ASSUME DistinctKeys PROVE FALSE
    <3>1. Hgt(height, c) = Hgt(height, right[t]) + 1
      BY <1>d, <1>6, <2>1 DEF TwoTurns
    <3>2. Hgt(height, right[t]) \in Nat
      BY <1>5, HgtFacts
    <3> QED BY <3>1, <3>2, <1>7 DEF Hgt
  <2>2. Crash
    BY <1>7, <1>d DEF LeftRightRotate, Null
  <2>3. tpc \in Rotations
    BY <1>2 DEF Rotations
  <2> QED BY <2>1, <2>2, <2>3, CrashKeeps
<1>8. CASE c # 0
  <2>1. /\ Turned(n, right, left, root, w, c, right', left', root')
        /\ Relevelled(right, left, height, w, c, height')
        /\ tpc' = "leftRotate" /\ UNCHANGED <<val, root, path>>
    BY <1>4, <1>8, <1>d, LeftRightTurns DEF Null
  <2>2. c \in 1..n /\ Len(val') = n /\ TreeNodes' = 1..n
    BY <1>5, <1>8, <1>d, <2>1 DEF TreeNodes
  <2>3. Shape(n, left, right, root, pos, lo, hi)
    BY <1>3, <1>d
  <2>4. Shape(n, right, left, root, Neg(n, pos), Neg(n, hi), Neg(n, lo))
    BY <2>3, Mirrored
  <2>5. PICK lo2, hi2 : /\ Shape(n, left', right', root', pos, lo2, hi2)
                        /\ WidenedBack(n, w, c, pos, lo, hi, lo2, hi2)
    BY <2>3, <2>1, TurnedRight
  <2>6. height' \in [1..n -> Nat]
    BY <2>4, <2>1, <1>5, TurnedHeights
  <2>7. \A u \in 1..n : left[u] = w \/ right[u] = w => u = t
    <3> SUFFICES ASSUME NEW u \in 1..n, left[u] = w \/ right[u] = w PROVE u = t
      OBVIOUS
    <3>0. t \in 1..n
      BY <1>5
    <3>1. (left[t] # 0 /\ left[t] = left[u] => t = u) /\ (left[t] # 0 => left[t] # right[u])
      BY <2>3, <3>0, OneParent
    <3> QED BY <3>1, <1>5, <1>d
  <2>8. t # w /\ t # c /\ In(pos, lo, hi, w, t) /\ In(pos, lo, hi, c, t)
    <3>1. In(pos, lo, hi, w, t) /\ ~In(pos, lo, hi, t, w) /\ lo[t] <= lo[w] /\ hi[w] <= hi[t]
      BY <2>3, <1>5, <1>d, ChildFacts
    <3>2. In(pos, lo, hi, c, w)
      BY <2>3, <1>5, <1>8, <1>d, ChildFacts
    <3>3. /\ pos[c] \in Int /\ pos[w] \in Int /\ lo[w] \in Int /\ hi[w] \in Int /\ lo[t] \in Int /\ hi[t] \in Int
          /\ lo[w] <= pos[w] /\ pos[w] <= hi[w]
      BY <2>3, <2>2, <1>5, NodeFacts
    <3>4. In(pos, lo, hi, c, t)
      BY <3>1, <3>2, <3>3 DEF In
    <3>5. t # w
      BY <3>1, <3>3 DEF In
    <3> QED BY <3>1, <3>2, <3>4, <3>5
  <2>9. \A i \in 1..Len(path) : /\ path[i] \in 1..n /\ path[i] # w /\ path[i] # c
                                /\ i < Len(path) => path[i] # t
    <3> SUFFICES ASSUME NEW i \in 1..Len(path)
                 PROVE  path[i] \in 1..n /\ path[i] # w /\ path[i] # c /\ (i < Len(path) => path[i] # t)
      OBVIOUS
    <3>1. CASE i < Len(path)
      <4>1. path[i] \in TreeNodes /\ ~In(pos, lo, hi, path[i], t)
        BY <1>3, <1>4, <1>d, <3>1, OthersOutside DEF Returning
      <4>2. In(pos, lo, hi, t, t)
        <5>1. lo[t] <= pos[t] /\ pos[t] <= hi[t]
          BY <2>3, <1>5, NodeFacts
        <5> QED BY <5>1 DEF In
      <4> QED BY <4>1, <4>2, <2>8, <1>5
    <3>2. CASE ~(i < Len(path))
      <4>1. path[i] = t
        <5>1. Len(path) \in Nat /\ Innermost = path[Len(path)]
          BY <1>4, LastTwo DEF Returning
        <5> QED BY <5>1, <3>2, <1>d
      <4> QED BY <4>1, <3>2, <2>8, <1>5
    <3> QED BY <3>1, <3>2
  <2>10. PathStays(lo, hi, lo2, hi2)
    <3>1. \A i \in 1..Len(path) : lo2[path[i]] = lo[path[i]] /\ hi2[path[i]] = hi[path[i]]
      BY <2>5, <2>9 DEF WidenedBack
    <3>2. \A i \in 1..Len(path) : i < Len(path) => left'[path[i]] = left[path[i]] /\ right'[path[i]] = right[path[i]]
      <4> SUFFICES ASSUME NEW i \in 1..Len(path), i < Len(path)
                   PROVE  left'[path[i]] = left[path[i]] /\ right'[path[i]] = right[path[i]]
        OBVIOUS
      <4>1. path[i] \in 1..n /\ path[i] # w /\ path[i] # c /\ path[i] # t
        BY <2>9
      <4>2. left[path[i]] # w /\ right[path[i]] # w
        BY <4>1, <2>7
      <4> QED BY <4>1, <4>2, <2>1 DEF Turned
    <3> QED BY <2>1, <3>1, <3>2 DEF PathStays
  <2>11. PathInv(pos, lo2, hi2)' /\ Innermost' = t /\ Caller' = p
    BY <1>3, <1>4, <1>d, <2>1, <2>10, PathStaysOnBranch DEF Rotations
  <2>12. left'[t] = c
    BY <2>1, <2>8, <1>5, <1>d DEF Turned
  <2>t. TurnMade(n, right, left, root, w, c, t, right', left', root', height, height')
    BY <1>5, <2>1, <2>7 DEF TurnMade
  <2>13. left' \in [1..n -> 0..n] /\ right' \in [1..n -> 0..n]
    BY <2>5 DEF Shape, Linked
  <2>14. HeightInv'
    <3>1. \A u \in 1..n : u # t /\ u # p => Fits(height, right, left, u)
      <4>1. \A u \in 1..n : u # t /\ u # p => Fits(height, left, right, u)
        BY <1>2, <1>5, <1>d, FitsIsMeasured DEF HeightInv, Behind, Rotations
      <4> QED BY <4>1, <1>5, FitsMirrored
    <3>2. \A u \in 1..n : u # t /\ (u \in {w, c} \/ Fits(height, right, left, u)) => Fits(height', right', left', u)
      BY <2>4, <2>t, TurnedHeightInv
    <3>3. \A u \in 1..n : u # t /\ u # p => Fits(height', right', left', u)
      BY <3>1, <3>2
    <3>4. \A u \in 1..n : u # t /\ u # p => Fits(height', left', right', u)
      BY <3>3, <2>6, <2>13, <1>5, FitsMirrored
    <3>5. Behind' = {t, p}
      BY <2>1, <2>11 DEF Behind, Rotations
    <3>6. ASSUME NEW u \in TreeNodes', u \notin Behind' PROVE IsMeasured(u)'
      <4>1. Fits(height', left', right', u)
        BY <3>4, <3>5, <3>6, <2>2
      <4> QED BY <4>1 DEF IsMeasured, Fits, Measured, GetHeight, Hgt, Null
    <3> QED BY <3>6 DEF HeightInv
  <2>15. BalanceInv'
    <3> SUFFICES ASSUME DistinctKeys PROVE BalanceInv'
      BY <2>1 DEF BalanceInv, DistinctKeys, TreeNodes
    <3>1. \A u \in 1..n : u # t /\ u # p => Level(height, left, right, u)
      BY <1>2, <1>5, <1>d DEF BalanceInv, Turning
    <3>2. p # w /\ p # c
      <4>1. CASE p = 0
        BY <4>1, <1>5, <1>8
      <4>2. CASE p # 0
        <5>1. Len(path) \in Nat /\ Len(path) >= 2 /\ p = path[Len(path) - 1]
          BY <4>2, <1>4, <1>d, LastTwo DEF Returning
        <5>2. Len(path) - 1 \in 1..Len(path)
          BY <5>1
        <5> QED BY <5>1, <5>2, <2>9
      <4> QED BY <4>1, <4>2
    <3>3. Level(height, left, right, c) /\ Fits(height, left, right, c)
      <4>1. c # t /\ c # p /\ c \in 1..n
        BY <2>2, <2>8, <3>2
      <4>2. Fits(height, left, right, c)
        BY <4>1, <1>2, <1>5, <1>d, FitsIsMeasured DEF HeightInv, Behind, Rotations
      <4> QED BY <4>1, <4>2, <3>1
    <3>4. TwoTurns(height, left, right, t) /\ (p # 0 => Since(p, Hgt(height, right[t]) + 2))
      BY <1>6
    <3>5. /\ OneTurn(height', left', right', t) /\ Hgt(height', right'[t]) = Hgt(height, right[t])
          /\ Level(height', left', right', w)
      <4>1. TurnPrepared(n, left, right, root, t, w, c, left', right', root', height, height')
        BY <1>5, <1>d, <2>1, <3>3, <3>4 DEF TurnPrepared
      <4> QED BY <2>4, <4>1, TwoTurnsLevels
    <3>6. \A u \in 1..n : u # t /\ u # p /\ u # c => Level(height', left', right', u)
      <4> SUFFICES ASSUME NEW u \in 1..n, u # t, u # p, u # c PROVE Level(height', left', right', u)
        OBVIOUS
      <4>1. CASE u = w
        BY <4>1, <3>5
      <4>2. CASE u # w
        <5>1. right[u] # w /\ left[u] # w
          BY <2>7
        <5>2. Level(height, right, left, u)
          BY <3>1, <1>5, LevelMirrored
        <5>3. Level(height', right', left', u)
          <6>1. \A v \in 1..n : v # t /\ v \notin {w, c} /\ Level(height, right, left, v) => Level(height', right', left', v)
            BY <2>4, <2>t, TurnedLevel
          <6> QED BY <4>2, <5>2, <6>1
        <5> QED BY <5>3, <2>6, <2>13, <1>5, LevelMirrored
      <4> QED BY <4>1, <4>2
    <3>7. ASSUME p # 0 PROVE Since(p, Hgt(height, right[t]) + 2)'
      <4>1. p \in 1..n /\ p # t /\ p # w /\ p # c /\ left[p] # w /\ right[p] # w
        <5>1. p \in 1..n /\ p # t
          BY <3>7, <1>4, <1>5, <1>d, LastTwo DEF Returning
        <5> QED BY <5>1, <3>2, <2>7
      <4>2. LeftAlone(right, left, height, w, c, right', left', height', p)
        BY <4>1, <2>4, <2>1, <1>5, TurnedHeights
      <4>3. height'[p] = height[p] /\ Hgt(height', left'[p]) = Hgt(height, left[p]) /\ Hgt(height', right'[p]) = Hgt(height, right[p])
        BY <4>1, <4>2 DEF LeftAlone
      <4> DEFINE k == Hgt(height, right[t]) + 2
      <4>4. Since(p, k)
        BY <3>4, <3>7
      <4> HIDE DEF k
      <4>5. height[p] = Larger(k, Hgt(height, OtherSide(p))) + 1 /\ k - Hgt(height, OtherSide(p)) \in -1..1
        BY <4>4 DEF Since
      <4>6. Hgt(height', IF arg' < val'[p] THEN right'[p] ELSE left'[p]) = Hgt(height, OtherSide(p))
        BY <4>3, <2>1 DEF OtherSide
      <4>7. Hgt(height', right'[t]) + 2 = k
        BY <3>5 DEF k
      <4> QED BY <4>3, <4>5, <4>6, <4>7 DEF Since, OtherSide
    <3>8. Unlevel'
      BY <2>1, <2>11, <3>5, <3>7 DEF Unlevel, Since, OtherSide
    <3>9. Turning' = {t, c, p}
      BY <2>1, <2>11, <2>12 DEF Turning
    <3> QED BY <2>1, <2>2, <3>6, <3>8, <3>9 DEF BalanceInv
  <2>16. Inserted(pos, lo2, hi2)'
    <3>1. RotateInv' /\ tpc' \in {"idle", "crashed"} \union Inserting
      BY <2>1, <2>11, <2>12, <1>8 DEF RotateInv, Inserting, Rotations, Null
    <3>2. InOrder(pos)'
      BY <1>3, <2>1 DEF InOrder, TreeNodes
    <3>3. path' \in Seq(TreeNodes') /\ tpc' # "idle"
      BY <1>2, <1>5, <2>1, <2>2 DEF TreeTypeOK
    <3>4. Shape(Len(val), left, right, root, pos, lo2, hi2)'
      BY <2>2, <2>5
    <3> QED BY <2>2, <2>6, <2>11, <2>14, <2>15, <3>1, <3>2, <3>3, <3>4 DEF Inserted
  <2> QED BY <1>2, <2>1, <2>16, InsertedKeeps
<1> QED BY <1>7, <1>8

(* The first of the rotations of rightLeftRotate, or the crash, keeps the  *)
(* invariant.                                                              *)
LEMMA RightLeftRotateKeeps ==
  ASSUME TreeInv, RightLeftRotate, UNCHANGED <<call, arg, at, queue>>
  PROVE  TreeInv'
<1>1. PICK pos, lo, hi : TreeInvWith(pos, lo, hi)
  BY DEF TreeInv
<1>2. TreeTypeOK /\ RotateInv /\ HeightInv /\ BalanceInv /\ tpc = "rightLeftRotate"
  BY DEF TreeInv, RightLeftRotate
<1>3. OnBranch(pos, lo, hi) /\ Leaving /\ InOrder(pos) /\ Shape(Len(val), left, right, root, pos, lo, hi)
  BY <1>1, <1>2 DEF TreeInvWith, PathInv, Inserting, Rotations
<1>4. Returning(pos, lo, hi) /\ right[Innermost] # 0
  BY <1>2, <1>3 DEF Returning, Leaving, RotateInv, Null
<1>d. PICK n, t, w, c, p : n = Len(val) /\ t = Innermost /\ w = right[t] /\ c = left[w] /\ p = Caller
  OBVIOUS
<1>5. /\ n \in Nat /\ t \in 1..n /\ w \in 1..n /\ t # 0 /\ w # 0 /\ c \in 0..n /\ p \in 0..n
      /\ height \in [1..n -> Nat] /\ right \in [1..n -> 0..n] /\ left \in [1..n -> 0..n]
      /\ TreeNodes = 1..n
  <2>1. n \in Nat /\ right \in [1..n -> 0..n] /\ left \in [1..n -> 0..n] /\ height \in [1..n -> Nat] /\ TreeNodes = 1..n
    BY <1>2, <1>3, <1>d DEF Shape, Linked, TreeTypeOK, TreeNodes
  <2>2. t \in 1..n /\ t # 0 /\ p \in 0..n
    BY <1>4, <1>d, LastTwo DEF TreeNodes, Returning
  <2>3. w \in 1..n /\ w # 0
    BY <1>4, <1>d, <2>1, <2>2
  <2> QED BY <2>1, <2>2, <2>3, <1>d
<1>6. DistinctKeys => TwoTurns(height, right, left, t) /\ (p # 0 => Since(p, Hgt(height, left[t]) + 2))
  BY <1>2, <1>d DEF BalanceInv, Unlevel
<1>7. CASE c = 0
  <2>1. ASSUME DistinctKeys PROVE FALSE
    <3>1. Hgt(height, c) = Hgt(height, left[t]) + 1
      BY <1>d, <1>6, <2>1 DEF TwoTurns
    <3>2. Hgt(height, left[t]) \in Nat
      BY <1>5, HgtFacts
    <3> QED BY <3>1, <3>2, <1>7 DEF Hgt
  <2>2. Crash
    BY <1>7, <1>d DEF RightLeftRotate, Null
  <2>3. tpc \in Rotations
    BY <1>2 DEF Rotations
  <2> QED BY <2>1, <2>2, <2>3, CrashKeeps
<1>8. CASE c # 0
  <2>1. /\ Turned(n, left, right, root, w, c, left', right', root')
        /\ Relevelled(left, right, height, w, c, height')
        /\ tpc' = "rightRotate" /\ UNCHANGED <<val, root, path>>
    BY <1>4, <1>8, <1>d, RightLeftTurns DEF Null
  <2>2. c \in 1..n /\ Len(val') = n /\ TreeNodes' = 1..n
    BY <1>5, <1>8, <1>d, <2>1 DEF TreeNodes
  <2>3. Shape(n, left, right, root, pos, lo, hi)
    BY <1>3, <1>d
  <2>4. Shape(n, right, left, root, Neg(n, pos), Neg(n, hi), Neg(n, lo))
    BY <2>3, Mirrored
  <2>5. PICK lo2, hi2 : /\ Shape(n, left', right', root', pos, lo2, hi2)
                        /\ Widened(n, w, c, pos, lo, hi, lo2, hi2)
    BY <2>3, <2>1, TurnedLeft
  <2>6. height' \in [1..n -> Nat]
    BY <2>3, <2>1, <1>5, TurnedHeights
  <2>7. \A u \in 1..n : right[u] = w \/ left[u] = w => u = t
    <3> SUFFICES ASSUME NEW u \in 1..n, right[u] = w \/ left[u] = w PROVE u = t
      OBVIOUS
    <3>0. t \in 1..n
      BY <1>5
    <3>1. (right[t] # 0 /\ right[t] = right[u] => t = u) /\ (right[t] # 0 => right[t] # left[u])
      BY <2>3, <3>0, OneParent
    <3> QED BY <3>1, <1>5, <1>d
  <2>8. t # w /\ t # c /\ In(pos, lo, hi, w, t) /\ In(pos, lo, hi, c, t)
    <3>1. In(pos, lo, hi, w, t) /\ ~In(pos, lo, hi, t, w) /\ lo[t] <= lo[w] /\ hi[w] <= hi[t]
      BY <2>3, <1>5, <1>d, ChildFacts
    <3>2. In(pos, lo, hi, c, w)
      BY <2>3, <1>5, <1>8, <1>d, ChildFacts
    <3>3. /\ pos[c] \in Int /\ pos[w] \in Int /\ lo[w] \in Int /\ hi[w] \in Int /\ lo[t] \in Int /\ hi[t] \in Int
          /\ lo[w] <= pos[w] /\ pos[w] <= hi[w]
      BY <2>3, <2>2, <1>5, NodeFacts
    <3>4. In(pos, lo, hi, c, t)
      BY <3>1, <3>2, <3>3 DEF In
    <3>5. t # w
      BY <3>1, <3>3 DEF In
    <3> QED BY <3>1, <3>2, <3>4, <3>5
  <2>9. \A i \in 1..Len(path) : /\ path[i] \in 1..n /\ path[i] # w /\ path[i] # c
                                /\ i < Len(path) => path[i] # t
    <3> SUFFICES ASSUME NEW i \in 1..Len(path)
                 PROVE  path[i] \in 1..n /\ path[i] # w /\ path[i] # c /\ (i < Len(path) => path[i] # t)
      OBVIOUS
    <3>1. CASE i < Len(path)
      <4>1. path[i] \in TreeNodes /\ ~In(pos, lo, hi, path[i], t)
        BY <1>3, <1>4, <1>d, <3>1, OthersOutside DEF Returning
      <4>2. In(pos, lo, hi, t, t)
        <5>1. lo[t] <= pos[t] /\ pos[t] <= hi[t]
          BY <2>3, <1>5, NodeFacts
        <5> QED BY <5>1 DEF In
      <4> QED BY <4>1, <4>2, <2>8, <1>5
    <3>2. CASE ~(i < Len(path))
      <4>1. path[i] = t
        <5>1. Len(path) \in Nat /\ Innermost = path[Len(path)]
          BY <1>4, LastTwo DEF Returning
        <5> QED BY <5>1, <3>2, <1>d
      <4> QED BY <4>1, <3>2, <2>8, <1>5
    <3> QED BY <3>1, <3>2
  <2>10. PathStays(lo, hi, lo2, hi2)
    <3>1. \A i \in 1..Len(path) : lo2[path[i]] = lo[path[i]] /\ hi2[path[i]] = hi[path[i]]
      BY <2>5, <2>9 DEF Widened
    <3>2. \A i \in 1..Len(path) : i < Len(path) => right'[path[i]] = right[path[i]] /\ left'[path[i]] = left[path[i]]
      <4> SUFFICES ASSUME NEW i \in 1..Len(path), i < Len(path)
                   PROVE  right'[path[i]] = right[path[i]] /\ left'[path[i]] = left[path[i]]
        OBVIOUS
      <4>1. path[i] \in 1..n /\ path[i] # w /\ path[i] # c /\ path[i] # t
        BY <2>9
      <4>2. right[path[i]] # w /\ left[path[i]] # w
        BY <4>1, <2>7
      <4> QED BY <4>1, <4>2, <2>1 DEF Turned
    <3> QED BY <2>1, <3>1, <3>2 DEF PathStays
  <2>11. PathInv(pos, lo2, hi2)' /\ Innermost' = t /\ Caller' = p
    BY <1>3, <1>4, <1>d, <2>1, <2>10, PathStaysOnBranch DEF Rotations
  <2>12. right'[t] = c
    BY <2>1, <2>8, <1>5, <1>d DEF Turned
  <2>t. TurnMade(n, left, right, root, w, c, t, left', right', root', height, height')
    BY <1>5, <2>1, <2>7 DEF TurnMade
  <2>13. right' \in [1..n -> 0..n] /\ left' \in [1..n -> 0..n]
    BY <2>5 DEF Shape, Linked
  <2>14. HeightInv'
    <3>1. \A u \in 1..n : u # t /\ u # p => Fits(height, left, right, u)
      BY <1>2, <1>5, <1>d, FitsIsMeasured DEF HeightInv, Behind, Rotations
    <3>2. \A u \in 1..n : u # t /\ (u \in {w, c} \/ Fits(height, left, right, u)) => Fits(height', left', right', u)
      BY <2>3, <2>t, TurnedHeightInv
    <3>4. \A u \in 1..n : u # t /\ u # p => Fits(height', left', right', u)
      BY <3>1, <3>2
    <3>5. Behind' = {t, p}
      BY <2>1, <2>11 DEF Behind, Rotations
    <3>6. ASSUME NEW u \in TreeNodes', u \notin Behind' PROVE IsMeasured(u)'
      <4>1. Fits(height', left', right', u)
        BY <3>4, <3>5, <3>6, <2>2
      <4> QED BY <4>1 DEF IsMeasured, Fits, Measured, GetHeight, Hgt, Null
    <3> QED BY <3>6 DEF HeightInv
  <2>15. BalanceInv'
    <3> SUFFICES ASSUME DistinctKeys PROVE BalanceInv'
      BY <2>1 DEF BalanceInv, DistinctKeys, TreeNodes
    <3>1. \A u \in 1..n : u # t /\ u # p => Level(height, left, right, u)
      BY <1>2, <1>5, <1>d DEF BalanceInv, Turning
    <3>2. p # w /\ p # c
      <4>1. CASE p = 0
        BY <4>1, <1>5, <1>8
      <4>2. CASE p # 0
        <5>1. Len(path) \in Nat /\ Len(path) >= 2 /\ p = path[Len(path) - 1]
          BY <4>2, <1>4, <1>d, LastTwo DEF Returning
        <5>2. Len(path) - 1 \in 1..Len(path)
          BY <5>1
        <5> QED BY <5>1, <5>2, <2>9
      <4> QED BY <4>1, <4>2
    <3>3. Level(height, right, left, c) /\ Fits(height, right, left, c)
      <4>1. c # t /\ c # p /\ c \in 1..n
        BY <2>2, <2>8, <3>2
      <4>2. Fits(height, left, right, c)
        BY <4>1, <1>2, <1>5, <1>d, FitsIsMeasured DEF HeightInv, Behind, Rotations
      <4>3. Fits(height, right, left, c)
        BY <4>1, <4>2, <1>5, FitsMirrored
      <4>4. Level(height, right, left, c)
        BY <4>1, <3>1, <1>5, LevelMirrored
      <4> QED BY <4>3, <4>4
    <3>4. TwoTurns(height, right, left, t) /\ (p # 0 => Since(p, Hgt(height, left[t]) + 2))
      BY <1>6
    <3>5. /\ OneTurn(height', right', left', t) /\ Hgt(height', left'[t]) = Hgt(height, left[t])
          /\ Level(height', right', left', w)
      <4>1. TurnPrepared(n, right, left, root, t, w, c, right', left', root', height, height')
        BY <1>5, <1>d, <2>1, <3>3, <3>4 DEF TurnPrepared
      <4> QED BY <2>3, <4>1, TwoTurnsLevels
    <3>6. \A u \in 1..n : u # t /\ u # p /\ u # c => Level(height', left', right', u)
      <4>1. Level(height', left', right', w)
        BY <3>5, <2>6, <2>13, <1>5, LevelMirrored
      <4>2. \A u \in 1..n : u # t /\ u \notin {w, c} /\ Level(height, left, right, u) => Level(height', left', right', u)
        BY <2>3, <2>t, TurnedLevel
      <4> QED BY <3>1, <4>1, <4>2
    <3>7. ASSUME p # 0 PROVE Since(p, Hgt(height, left[t]) + 2)'
      <4>1. p \in 1..n /\ p # t /\ p # w /\ p # c /\ right[p] # w /\ left[p] # w
        <5>1. p \in 1..n /\ p # t
          BY <3>7, <1>4, <1>5, <1>d, LastTwo DEF Returning
        <5> QED BY <5>1, <3>2, <2>7
      <4>2. LeftAlone(left, right, height, w, c, left', right', height', p)
        BY <4>1, <2>3, <2>1, <1>5, TurnedHeights
      <4>3. height'[p] = height[p] /\ Hgt(height', right'[p]) = Hgt(height, right[p]) /\ Hgt(height', left'[p]) = Hgt(height, left[p])
        BY <4>1, <4>2 DEF LeftAlone
      <4> DEFINE k == Hgt(height, left[t]) + 2
      <4>4. Since(p, k)
        BY <3>4, <3>7
      <4> HIDE DEF k
      <4>5. height[p] = Larger(k, Hgt(height, OtherSide(p))) + 1 /\ k - Hgt(height, OtherSide(p)) \in -1..1
        BY <4>4 DEF Since
      <4>6. Hgt(height', IF arg' < val'[p] THEN right'[p] ELSE left'[p]) = Hgt(height, OtherSide(p))
        BY <4>3, <2>1 DEF OtherSide
      <4>7. Hgt(height', left'[t]) + 2 = k
        BY <3>5 DEF k
      <4> QED BY <4>3, <4>5, <4>6, <4>7 DEF Since, OtherSide
    <3>8. Unlevel'
      BY <2>1, <2>11, <3>5, <3>7 DEF Unlevel, Since, OtherSide
    <3>9. Turning' = {t, c, p}
      BY <2>1, <2>11, <2>12 DEF Turning
    <3> QED BY <2>1, <2>2, <3>6, <3>8, <3>9 DEF BalanceInv
  <2>16. Inserted(pos, lo2, hi2)'
    <3>1. RotateInv' /\ tpc' \in {"idle", "crashed"} \union Inserting
      BY <2>1, <2>11, <2>12, <1>8 DEF RotateInv, Inserting, Rotations, Null
    <3>2. InOrder(pos)'
      BY <1>3, <2>1 DEF InOrder, TreeNodes
    <3>3. path' \in Seq(TreeNodes') /\ tpc' # "idle"
      BY <1>2, <1>5, <2>1, <2>2 DEF TreeTypeOK
    <3>4. Shape(Len(val), left, right, root, pos, lo2, hi2)'
      BY <2>2, <2>5
    <3> QED BY <2>2, <2>6, <2>11, <2>14, <2>15, <3>1, <3>2, <3>3, <3>4 DEF Inserted
  <2> QED BY <1>2, <2>1, <2>16, InsertedKeeps
<1> QED BY <1>7, <1>8

-----------------------------------------------------------------------------
(* The returns keep it.                                                    *)

(* The caller is not below the innermost node.                             *)
LEMMA CallerOutside ==
  ASSUME NEW pos, NEW lo, NEW hi, Returning(pos, lo, hi), Caller # 0
  PROVE  ~In(pos, lo, hi, Caller, Innermost)
<1>1. Len(path) \in Nat /\ Len(path) >= 2 /\ Caller = path[Len(path) - 1]
  BY LastTwo DEF Returning
<1>2. Len(path) - 1 \in 1..Len(path) /\ Len(path) - 1 < Len(path)
  BY <1>1
<1> QED BY <1>1, <1>2, OthersOutside DEF Returning

(* The tree has grown on the side of the key, which is now s high, and the *)
(* other o: the node is as high as before, or one higher, or needs a turn. *)
Settled(t, s, o) == s - o \in -1..1 /\ height[t] = Larger(s, o) + 1
Raised(t, s, o) == Side(t) # 0 /\ s = o + 1 /\ height[t] = o + 1
Unbalanced(t, s, o) == Side(t) # 0 /\ s = o + 2 /\ height[t] = o + 2 /\ Leans(Side(t))

(* One of these is the case of every node whose side has grown, or has     *)
(* not.                                                                    *)
LEMMA GrownCases ==
  ASSUME NEW t, Grown(t), NEW s \in Nat, NEW o \in Nat,
         s = Hgt(height, Side(t)), o = Hgt(height, OtherSide(t)), Side(t) # 0 => s >= 1
  PROVE  Settled(t, s, o) \/ Raised(t, s, o) \/ Unbalanced(t, s, o)
<1>1. CASE Since(t, s)
  BY <1>1 DEF Since, Settled
<1>2. CASE Side(t) # 0 /\ Leans(Side(t)) /\ Since(t, s - 1)
  <2>1. height[t] = Larger(s - 1, o) + 1 /\ s - 1 - o \in -1..1 /\ s >= 1
    BY <1>2 DEF Since
  <2>2. CASE s = o
    BY <2>1, <2>2 DEF Larger, Settled
  <2>3. CASE s = o + 1
    BY <1>2, <2>1, <2>3 DEF Larger, Raised
  <2>4. CASE s = o + 2
    BY <1>2, <2>1, <2>4 DEF Larger, Unbalanced
  <2>5. s = o \/ s = o + 1 \/ s = o + 2
    BY <2>1
  <2> QED BY <2>2, <2>3, <2>4, <2>5
<1>3. Since(t, s) \/ (Side(t) # 0 /\ Leans(Side(t)) /\ Since(t, s - 1))
  BY DEF Grown
<1> QED BY <1>1, <1>2, <1>3

(* Which rotation is chosen, by the heights and the keys.                  *)
LEMMA NeededByHeights ==
  ASSUME NEW t, NEW a \in Nat, NEW b \in Nat, a = Hgt(height, left[t]), b = Hgt(height, right[t])
  PROVE  /\ GetBalanceFactor(t) = a - b
         /\ a - b \in -1..1 => Needed(t) = "none"
         /\ a > b + 1 /\ arg < val[left[t]] /\ ~(arg > val[left[t]]) => Needed(t) = "leftRotate"
         /\ a > b + 1 /\ arg > val[left[t]] /\ ~(arg < val[left[t]]) => Needed(t) = "leftRightRotate"
         /\ b > a + 1 /\ arg > val[right[t]] /\ ~(arg < val[right[t]]) => Needed(t) = "rightRotate"
         /\ b > a + 1 /\ arg < val[right[t]] /\ ~(arg > val[right[t]]) => Needed(t) = "rightLeftRotate"
         /\ Needed(t) \in Rotations \union {"none"}
         /\ Needed(t) \in {"leftRotate", "leftRightRotate"} => left[t] # 0
         /\ Needed(t) \in {"rightRotate", "rightLeftRotate"} => right[t] # 0
<1>1. GetBalanceFactor(t) = a - b
  BY DEF GetBalanceFactor, GetHeight, Hgt, Null
<1>2. a - b \in -1..1 => Needed(t) = "none"
  BY <1>1 DEF Needed
<1>3. a > b + 1 /\ arg < val[left[t]] /\ ~(arg > val[left[t]]) => Needed(t) = "leftRotate"
  BY <1>1 DEF Needed
<1>4. a > b + 1 /\ arg > val[left[t]] /\ ~(arg < val[left[t]]) => Needed(t) = "leftRightRotate"
  BY <1>1 DEF Needed
<1>5. b > a + 1 /\ arg > val[right[t]] /\ ~(arg < val[right[t]]) => Needed(t) = "rightRotate"
  BY <1>1 DEF Needed
<1>6. b > a + 1 /\ arg < val[right[t]] /\ ~(arg > val[right[t]]) => Needed(t) = "rightLeftRotate"
  BY <1>1 DEF Needed
<1>7. Needed(t) \in Rotations \union {"none"}
  BY <1>1 DEF Needed, Rotations
<1>8. Needed(t) \in {"leftRotate", "leftRightRotate"} => a - b > 1
  BY <1>1 DEF Needed
<1>9. Needed(t) \in {"rightRotate", "rightLeftRotate"} => a - b < -1
  BY <1>1 DEF Needed
<1>10. (a - b > 1 => left[t] # 0) /\ (a - b < -1 => right[t] # 0)
  BY DEF Hgt
<1> QED BY <1>1, <1>2, <1>3, <1>4, <1>5, <1>6, <1>7, <1>8, <1>9, <1>10

(* The turn that is needed is the one made.                                *)
TurnAhead(t, o) ==
  \/ Needed(t) = "leftRotate" /\ o = Hgt(height, right[t]) /\ OneTurn(height, left, right, t)
  \/ Needed(t) = "leftRightRotate" /\ o = Hgt(height, right[t]) /\ TwoTurns(height, left, right, t)
  \/ Needed(t) = "rightRotate" /\ o = Hgt(height, left[t]) /\ OneTurn(height, right, left, t)
  \/ Needed(t) = "rightLeftRotate" /\ o = Hgt(height, left[t]) /\ TwoTurns(height, right, left, t)

(* A node out of balance gets the rotation that its heights need.          *)
LEMMA UnbalancedTurns ==
  ASSUME NEW n \in Nat, left \in [1..n -> 0..n], right \in [1..n -> 0..n], height \in [1..n -> Nat],
         NEW t \in 1..n, NEW s \in Nat, NEW o \in Nat,
         s = Hgt(height, Side(t)), o = Hgt(height, OtherSide(t)),
         Unbalanced(t, s, o), Fits(height, left, right, Side(t)),
         arg \in Int, \A u \in 1..n : val[u] \in Int
  PROVE  TurnAhead(t, o)
<1>d. PICK w : w = Side(t)
  OBVIOUS
<1>0. w # 0 /\ s = o + 2 /\ s = Hgt(height, w)
  BY <1>d DEF Unbalanced
<1>1. w \in 1..n /\ w # 0 /\ s = o + 2 /\ height[w] = s /\ val[w] \in Int
  <2>1. w \in 0..n
    BY <1>d DEF Side
  <2>2. w \in 1..n
    BY <1>0, <2>1
  <2> QED BY <1>0, <2>2 DEF Hgt
<1>2. PICK x, y : x = Hgt(height, left[w]) /\ y = Hgt(height, right[w])
  OBVIOUS
<1>3. x \in Nat /\ y \in Nat
  BY <1>1, <1>2, HgtFacts
<1>4. height[w] = Larger(x, y) + 1
  BY <1>d, <1>2 DEF Fits
<1>5. \/ arg < val[w] /\ x = o + 1 /\ y = o
      \/ arg > val[w] /\ y = o + 1 /\ x = o
  <2>1. CASE left[w] = 0 /\ right[w] = 0
    <3>1. x = 0 /\ y = 0
      BY <2>1, <1>2 DEF Hgt
    <3> QED BY <3>1, <1>1, <1>4, SMTT(30) DEF Larger
  <2>2. CASE arg < val[w] /\ x = y + 1
    BY <2>2, <1>1, <1>3, <1>4, SMTT(30) DEF Larger
  <2>3. CASE arg > val[w] /\ y = x + 1
    BY <2>3, <1>1, <1>3, <1>4, SMTT(30) DEF Larger
  <2>4. (left[w] = 0 /\ right[w] = 0) \/ (arg < val[w] /\ x = y + 1) \/ (arg > val[w] /\ y = x + 1)
    BY <1>d, <1>2 DEF Unbalanced, Leans
  <2> QED BY <2>1, <2>2, <2>3, <2>4
<1>a. (arg < val[w] => ~(arg > val[w])) /\ (arg > val[w] => ~(arg < val[w]))
  <2>1. arg \in Int /\ val[w] \in Int
    BY <1>1
  <2> QED BY <2>1
<1>6. CASE arg < val[t]
  <2>1. left[t] = w /\ s = Hgt(height, left[t]) /\ o = Hgt(height, right[t])
    BY <1>6, <1>d DEF Side, OtherSide
  <2>2. CASE arg < val[w] /\ x = o + 1 /\ y = o
    <3>1. OneTurn(height, left, right, t)
      BY <1>1, <1>2, <2>1, <2>2 DEF OneTurn
    <3>2. s > o + 1 /\ arg < val[left[t]] /\ ~(arg > val[left[t]])
      <4>1. s > o + 1
        BY <1>1
      <4>2. val[left[t]] = val[w]
        BY <2>1
      <4>3. arg < val[w] /\ ~(arg > val[w])
        BY <1>a, <2>2
      <4> QED BY <4>1, <4>2, <4>3, Zenon
    <3>3. Needed(t) = "leftRotate"
      BY <2>1, <3>2, NeededByHeights
    <3> QED BY <2>1, <3>1, <3>3 DEF TurnAhead
  <2>3. CASE arg > val[w] /\ y = o + 1 /\ x = o
    <3>1. TwoTurns(height, left, right, t)
      BY <1>1, <1>2, <2>1, <2>3 DEF TwoTurns
    <3>2. s > o + 1 /\ arg > val[left[t]] /\ ~(arg < val[left[t]])
      <4>1. s > o + 1
        BY <1>1
      <4>2. val[left[t]] = val[w]
        BY <2>1
      <4>3. arg > val[w] /\ ~(arg < val[w])
        BY <1>a, <2>3
      <4> QED BY <4>1, <4>2, <4>3, Zenon
    <3>3. Needed(t) = "leftRightRotate"
      BY <2>1, <3>2, NeededByHeights
    <3> QED BY <2>1, <3>1, <3>3 DEF TurnAhead
  <2> QED BY <1>5, <2>2, <2>3
<1>7. CASE ~(arg < val[t])
  <2>1. right[t] = w /\ s = Hgt(height, right[t]) /\ o = Hgt(height, left[t])
    BY <1>7, <1>d DEF Side, OtherSide
  <2>2. CASE arg > val[w] /\ y = o + 1 /\ x = o
    <3>1. OneTurn(height, right, left, t)
      BY <1>1, <1>2, <2>1, <2>2 DEF OneTurn
    <3>2. s > o + 1 /\ arg > val[right[t]] /\ ~(arg < val[right[t]])
      <4>1. s > o + 1
        BY <1>1
      <4>2. val[right[t]] = val[w]
        BY <2>1
      <4>3. arg > val[w] /\ ~(arg < val[w])
        BY <1>a, <2>2
      <4> QED BY <4>1, <4>2, <4>3, Zenon
    <3>3. Needed(t) = "rightRotate"
      BY <2>1, <3>2, NeededByHeights
    <3> QED BY <2>1, <3>1, <3>3 DEF TurnAhead
  <2>3. CASE arg < val[w] /\ x = o + 1 /\ y = o
    <3>1. TwoTurns(height, right, left, t)
      BY <1>1, <1>2, <2>1, <2>3 DEF TwoTurns
    <3>2. s > o + 1 /\ arg < val[right[t]] /\ ~(arg > val[right[t]])
      <4>1. s > o + 1
        BY <1>1
      <4>2. val[right[t]] = val[w]
        BY <2>1
      <4>3. arg < val[w] /\ ~(arg > val[w])
        BY <1>a, <2>3
      <4> QED BY <4>1, <4>2, <4>3, Zenon
    <3>3. Needed(t) = "rightLeftRotate"
      BY <2>1, <3>2, NeededByHeights
    <3> QED BY <2>1, <3>1, <3>3 DEF TurnAhead
  <2> QED BY <1>5, <2>2, <2>3
<1> QED BY <1>6, <1>7

(* The node is measured; only its caller sees another height.              *)
Remeasured(n, l, r, t, p, h, h2) ==
  /\ h2 \in [1..n -> Nat] /\ h2[t] = Larger(Hgt(h, l[t]), Hgt(h, r[t])) + 1
  /\ \A u \in 1..n : u # t => h2[u] = h[u]
  /\ \A u \in 1..n : u # p => Hgt(h2, l[u]) = Hgt(h, l[u]) /\ Hgt(h2, r[u]) = Hgt(h, r[u])

(* To measure a node changes its own height alone, and only p is measured  *)
(* by it.                                                                  *)
LEMMA RemeasuredFacts ==
  ASSUME NEW n \in Nat, NEW l \in [1..n -> 0..n], NEW r \in [1..n -> 0..n], NEW h \in [1..n -> Nat],
         NEW t \in 1..n, NEW p, NEW h2,
         \A u \in 1..n : l[u] = t \/ r[u] = t => u = p,
         h2 = [h EXCEPT ![t] = Larger(Hgt(h, l[t]), Hgt(h, r[t])) + 1]
  PROVE  Remeasured(n, l, r, t, p, h, h2)
<1>1. Hgt(h, l[t]) \in Nat /\ Hgt(h, r[t]) \in Nat
  BY DEF Hgt
<1> DEFINE m == Larger(Hgt(h, l[t]), Hgt(h, r[t])) + 1
<1>2. m \in Nat
  BY <1>1 DEF Larger
<1>3. h2 = [h EXCEPT ![t] = m]
  OBVIOUS
<1> HIDE DEF m
<1>4. h2 \in [1..n -> Nat] /\ h2[t] = m /\ \A u \in 1..n : u # t => h2[u] = h[u]
  BY <1>2, <1>3
<1>5. \A u \in 0..n : u # t => Hgt(h2, u) = Hgt(h, u)
  <2> SUFFICES ASSUME NEW u \in 0..n, u # t PROVE Hgt(h2, u) = Hgt(h, u)
    OBVIOUS
  <2>1. u = 0 \/ u \in 1..n
    OBVIOUS
  <2> QED BY <2>1, <1>4 DEF Hgt
<1>6. \A u \in 1..n : u # p => Hgt(h2, l[u]) = Hgt(h, l[u]) /\ Hgt(h2, r[u]) = Hgt(h, r[u])
  <2> SUFFICES ASSUME NEW u \in 1..n, u # p PROVE Hgt(h2, l[u]) = Hgt(h, l[u]) /\ Hgt(h2, r[u]) = Hgt(h, r[u])
    OBVIOUS
  <2>1. l[u] \in 0..n /\ r[u] \in 0..n /\ l[u] # t /\ r[u] # t
    OBVIOUS
  <2> QED BY <2>1, <1>5
<1> QED BY <1>4, <1>6 DEF Remeasured, m

(* Where a call is over: n nodes, the one it is for, and its caller.       *)
CallOver(pos, lo, hi, n, t, p) ==
  /\ Returning(pos, lo, hi) /\ Leaving /\ InOrder(pos)
  /\ n = Len(val) /\ t = Innermost /\ p = Caller
  /\ n \in Nat /\ t \in 1..n /\ TreeNodes = 1..n
  /\ height \in [1..n -> Nat] /\ left \in [1..n -> 0..n] /\ right \in [1..n -> 0..n]
  /\ arg \in Int /\ \A u \in 1..n : val[u] \in Int
  /\ p # t /\ t # 0
  /\ p # 0 => p \in 1..n /\ Side(p) = t /\ OtherSide(p) # t
  /\ \A u \in 1..n : left[u] = t \/ right[u] = t => p # 0 /\ u = p
  /\ \A u \in 1..n : u # t => Fits(height, left, right, u)
  /\ DistinctKeys => Grown(t) /\ \A u \in 1..n : u # t => Level(height, left, right, u)

(* What holds when a recursive call is over.                               *)
LEMMA LeaveFacts ==
  ASSUME TreeInv, tpc = "leave"
  PROVE  \E pos, lo, hi, n, t, p : CallOver(pos, lo, hi, n, t, p)
<1>1. PICK pos, lo, hi : TreeInvWith(pos, lo, hi)
  BY DEF TreeInv
<1>2. TreeTypeOK /\ HeightInv /\ BalanceInv
  BY DEF TreeInv
<1>3. OnBranch(pos, lo, hi) /\ Leaving /\ InOrder(pos) /\ Shape(Len(val), left, right, root, pos, lo, hi)
  BY <1>1 DEF TreeInvWith, PathInv, Inserting
<1>4. Returning(pos, lo, hi)
  BY <1>2, <1>3 DEF Returning, Leaving
<1>d. PICK n, t, p : n = Len(val) /\ t = Innermost /\ p = Caller
  OBVIOUS
<1>5. /\ n \in Nat /\ TreeNodes = 1..n
      /\ height \in [1..n -> Nat] /\ left \in [1..n -> 0..n] /\ right \in [1..n -> 0..n]
      /\ arg \in Int /\ \A u \in 1..n : val[u] \in Int
  BY <1>2, <1>3, <1>d DEF Shape, Linked, TreeTypeOK, TreeNodes
<1>6. /\ t \in 1..n /\ p # t /\ t # 0
      /\ p # 0 => p \in 1..n /\ Side(p) = t /\ OtherSide(p) # t
  <2>1. t \in TreeNodes /\ t # 0 /\ (p # 0 => p \in TreeNodes /\ Side(p) = t /\ p # t /\ OtherSide(p) # t)
    BY <1>4, <1>d, LastTwo DEF Returning
  <2> QED BY <2>1, <1>5
<1>7. \A u \in 1..n : left[u] = t \/ right[u] = t => p # 0 /\ u = p
  BY <1>4, <1>5, <1>d, ParentIsCaller
<1>8. \A u \in 1..n : u # t => Fits(height, left, right, u)
  BY <1>2, <1>5, <1>d, FitsIsMeasured DEF HeightInv, Behind
<1>9. DistinctKeys => Grown(t) /\ \A u \in 1..n : u # t => Level(height, left, right, u)
  BY <1>2, <1>5, <1>d DEF BalanceInv, Unlevel, Turning
<1>10. CallOver(pos, lo, hi, n, t, p)
  BY <1>3, <1>4, <1>5, <1>6, <1>7, <1>8, <1>9, <1>d DEF CallOver
<1> QED BY <1>10

(* Leave brings the height of the innermost node up to date.               *)
LEMMA LeaveMeasures ==
  ASSUME NEW pos, NEW lo, NEW hi, NEW n, NEW t, NEW p, CallOver(pos, lo, hi, n, t, p), Leave
  PROVE  Remeasured(n, left, right, t, p, height, height')
<1>1. /\ n \in Nat /\ t \in 1..n /\ t = Innermost
      /\ height \in [1..n -> Nat] /\ left \in [1..n -> 0..n] /\ right \in [1..n -> 0..n]
      /\ \A u \in 1..n : left[u] = t \/ right[u] = t => u = p
  BY DEF CallOver
<1>2. height' = [height EXCEPT ![t] = Larger(Hgt(height, left[t]), Hgt(height, right[t])) + 1]
  BY <1>1 DEF Leave, Measured, GetHeight, Hgt, Null
<1> QED BY <1>1, <1>2, RemeasuredFacts

(* Which of the three cases it is.                                         *)
LEMMA LeaveCases ==
  ASSUME NEW pos, NEW lo, NEW hi, NEW n, NEW t, NEW p, CallOver(pos, lo, hi, n, t, p), DistinctKeys
  PROVE  \E s, o \in Nat :
           /\ s = Hgt(height, Side(t)) /\ o = Hgt(height, OtherSide(t))
           /\ \/ (Settled(t, s, o) \/ Raised(t, s, o)) /\ Needed(t) = "none"
              \/ Unbalanced(t, s, o) /\ TurnAhead(t, o)
<1>1. /\ n \in Nat /\ t \in 1..n /\ n = Len(val)
      /\ height \in [1..n -> Nat] /\ left \in [1..n -> 0..n] /\ right \in [1..n -> 0..n]
      /\ arg \in Int /\ \A u \in 1..n : val[u] \in Int
      /\ \A u \in 1..n : left[u] = t \/ right[u] = t => u = p
      /\ p # t /\ Grown(t)
  BY DEF CallOver
<1>f. \A u \in 1..n : u # t => Fits(height, left, right, u)
  BY DEF CallOver
<1>2. PICK s, o : s = Hgt(height, Side(t)) /\ o = Hgt(height, OtherSide(t))
  OBVIOUS
<1>3. Side(t) \in 0..n /\ OtherSide(t) \in 0..n /\ left[t] \in 0..n /\ right[t] \in 0..n
  BY <1>1 DEF Side, OtherSide
<1>4. s \in Nat /\ o \in Nat
  BY <1>1, <1>2, <1>3, HgtFacts
<1>5. Side(t) # t
  BY <1>1 DEF Side
<1>6. Side(t) # 0 => Fits(height, left, right, Side(t)) /\ s >= 1
  <2> SUFFICES ASSUME Side(t) # 0 PROVE Fits(height, left, right, Side(t)) /\ s >= 1
    OBVIOUS
  <2>d. PICK w : w = Side(t)
    OBVIOUS
  <2>1. w \in 1..n /\ w # t /\ w # 0
    BY <1>1, <1>3, <1>5, <2>d
  <2>2. Fits(height, left, right, w)
    BY <2>1, <1>f
  <2>3. Hgt(height, left[w]) \in Nat /\ Hgt(height, right[w]) \in Nat
    BY <2>1, <1>1, HgtFacts
  <2>4. height[w] >= 1
    BY <2>2, <2>3 DEF Fits, Larger
  <2>5. s = height[w]
    BY <2>1, <2>d, <1>2 DEF Hgt
  <2> QED BY <2>2, <2>4, <2>5, <2>d
<1>7. Settled(t, s, o) \/ Raised(t, s, o) \/ Unbalanced(t, s, o)
  BY <1>1, <1>2, <1>4, <1>6, GrownCases
<1>8. ASSUME Settled(t, s, o) \/ Raised(t, s, o) PROVE Needed(t) = "none"
  <2>1. s - o \in -1..1
    BY <1>4, <1>8 DEF Settled, Raised
  <2>2. PICK a, b : a = Hgt(height, left[t]) /\ b = Hgt(height, right[t])
    OBVIOUS
  <2>3. (a = s /\ b = o) \/ (a = o /\ b = s)
    BY <1>2, <2>2 DEF Side, OtherSide
  <2>4. a \in Nat /\ b \in Nat /\ a - b \in -1..1
    BY <1>4, <2>1, <2>3
  <2> QED BY <2>2, <2>4, NeededByHeights
<1>9. ASSUME Unbalanced(t, s, o) PROVE TurnAhead(t, o)
  <2>1. Fits(height, left, right, Side(t))
    BY <1>6, <1>9 DEF Unbalanced
  <2> QED BY <1>1, <1>2, <1>4, <1>9, <2>1, UnbalancedTurns
<1> QED BY <1>2, <1>4, <1>7, <1>8, <1>9

(* A turn that is ahead stays so when the node is measured.                *)
LEMMA TurnKept ==
  ASSUME NEW h, NEW h2, NEW near, NEW far, NEW t,
         Hgt(h2, near[t]) = Hgt(h, near[t]), Hgt(h2, far[t]) = Hgt(h, far[t]),
         Hgt(h2, near[near[t]]) = Hgt(h, near[near[t]]), Hgt(h2, far[near[t]]) = Hgt(h, far[near[t]])
  PROVE  /\ OneTurn(h, near, far, t) => OneTurn(h2, near, far, t)
         /\ TwoTurns(h, near, far, t) => TwoTurns(h2, near, far, t)
BY DEF OneTurn, TwoTurns

(* It leaves every node but the caller as level as it was.                 *)
LEMMA LeaveKeepsLevel ==
  ASSUME NEW n, NEW t, NEW p, NEW h, NEW h2, Remeasured(n, left, right, t, p, h, h2),
         NEW u \in 1..n, u # p, Level(h, left, right, u)
  PROVE  Level(h2, left, right, u)
BY DEF Remeasured, Level

(* The caller p was measured when t had the height that it has so far.     *)
LEMMA CallerSince ==
  ASSUME NEW pos, NEW lo, NEW hi, NEW n, NEW t, NEW p, CallOver(pos, lo, hi, n, t, p), DistinctKeys,
         p # 0, NEW h2, Remeasured(n, left, right, t, p, height, h2)
  PROVE  LET o == Hgt(height, OtherSide(p)) IN
         /\ height[p] = Larger(height[t], o) + 1 /\ height[t] - o \in -1..1
         /\ h2[p] = height[p] /\ Hgt(h2, OtherSide(p)) = o
         /\ height[t] \in Nat /\ o \in Nat
<1>1. /\ n \in Nat /\ t \in 1..n /\ p \in 1..n /\ p # t /\ t # 0
      /\ height \in [1..n -> Nat] /\ left \in [1..n -> 0..n] /\ right \in [1..n -> 0..n]
      /\ Side(p) = t /\ OtherSide(p) # t
      /\ Fits(height, left, right, p) /\ Level(height, left, right, p)
  BY DEF CallOver
<1>2. PICK o, q : q = OtherSide(p) /\ o = Hgt(height, q)
  OBVIOUS
<1>3. q \in 0..n /\ q # t
  BY <1>1, <1>2 DEF OtherSide
<1>4. o \in Nat /\ height[t] \in Nat
  BY <1>1, <1>2, <1>3, HgtFacts
<1>5. Hgt(height, t) = height[t]
  BY <1>1 DEF Hgt
<1>6. height[p] = Larger(height[t], o) + 1 /\ height[t] - o \in -1..1
  <2>1. CASE arg < val[p]
    <3>1. left[p] = t /\ right[p] = q
      BY <1>1, <1>2, <2>1 DEF Side, OtherSide
    <3> QED BY <1>1, <1>2, <1>5, <3>1 DEF Fits, Level
  <2>2. CASE ~(arg < val[p])
    <3>1. right[p] = t /\ left[p] = q
      BY <1>1, <1>2, <2>2 DEF Side, OtherSide
    <3>2. height[p] = Larger(o, height[t]) + 1 /\ o - height[t] \in -1..1
      BY <1>1, <1>2, <1>5, <3>1 DEF Fits, Level
    <3> QED BY <1>4, <3>2 DEF Larger
  <2> QED BY <2>1, <2>2
<1>7. h2[p] = height[p] /\ Hgt(h2, q) = o
  <2>1. \A u \in 1..n : u # t => h2[u] = height[u]
    BY DEF Remeasured
  <2>2. q = 0 \/ q \in 1..n
    BY <1>3
  <2> QED BY <1>1, <1>2, <1>3, <2>1, <2>2 DEF Hgt
<1> QED BY <1>2, <1>4, <1>6, <1>7

(* No turn is needed: the call returns its node.                           *)
LEMMA LeaveReturns ==
  ASSUME TreeInv, Leave, Needed(Innermost) = "none", ReturnNode(Innermost, left, right)
  PROVE  TreeInv'
<1>1. PICK pos, lo, hi, n, t, p : CallOver(pos, lo, hi, n, t, p)
  BY LeaveFacts DEF Leave
<1>2. /\ Returning(pos, lo, hi) /\ Leaving /\ InOrder(pos)
      /\ n = Len(val) /\ t = Innermost /\ p = Caller /\ TreeNodes = 1..n
      /\ n \in Nat /\ t \in 1..n /\ t # 0 /\ p # t
  BY <1>1 DEF CallOver
<1>3. Remeasured(n, left, right, t, p, height, height')
  BY <1>1, LeaveMeasures
<1>4. UNCHANGED <<val, call, arg, at, queue>>
  BY DEF Leave
<1>5. /\ UNCHANGED <<left, right, root>>
      /\ path' = SubSeq(path, 1, Len(path) - 1)
      /\ tpc' = IF Len(path) = 1 THEN "idle" ELSE "leave"
  <2>1. /\ left' = IF p # 0 /\ arg < val[p] THEN [left EXCEPT ![p] = t] ELSE left
        /\ right' = IF p # 0 /\ ~(arg < val[p]) THEN [right EXCEPT ![p] = t] ELSE right
        /\ root' = IF p = 0 THEN t ELSE root
    BY <1>2 DEF ReturnNode, Store, Null
  <2>2. p # 0 => p \in 1..n /\ Side(p) = t
    BY <1>1 DEF CallOver
  <2>3. left \in [1..n -> 0..n] /\ right \in [1..n -> 0..n]
    BY <1>1 DEF CallOver
  <2>4. left' = left
    <3>1. ASSUME p # 0, arg < val[p] PROVE [left EXCEPT ![p] = t] = left
      <4>1. left[p] = t /\ p \in 1..n
        BY <2>2, <3>1 DEF Side
      <4> QED BY <2>3, <4>1
    <3> QED BY <2>1, <3>1
  <2>5. right' = right
    <3>1. ASSUME p # 0, ~(arg < val[p]) PROVE [right EXCEPT ![p] = t] = right
      <4>1. right[p] = t /\ p \in 1..n
        BY <2>2, <3>1 DEF Side
      <4> QED BY <2>3, <4>1
    <3> QED BY <2>1, <3>1
  <2>6. root' = root
    <3>1. p = 0 => root = t
      BY <1>2, LastTwo DEF Returning
    <3> QED BY <2>1, <3>1
  <2> QED BY <2>4, <2>5, <2>6 DEF ReturnNode
<1>6. Len(val') = n /\ TreeNodes' = 1..n
  BY <1>2, <1>4 DEF TreeNodes
<1>7. /\ path' \in Seq(TreeNodes)
      /\ tpc' = "idle" => path' = <<>> /\ p = 0
      /\ tpc' # "idle" => tpc' = "leave" /\ p # 0 /\ Innermost' = p
      /\ PathInv(pos, lo, hi)'
  <2>1. PathReturns(lo, hi, lo, hi)
    BY <1>4, <1>5 DEF PathReturns
  <2> QED BY <1>2, <2>1, ReturnPath
<1>8. HeightInv'
  <2>1. \A u \in 1..n : u # p => Fits(height', left', right', u)
    <3> SUFFICES ASSUME NEW u \in 1..n, u # p PROVE Fits(height', left, right, u)
      BY <1>5
    <3>1. u # t => Fits(height, left, right, u)
      BY <1>1 DEF CallOver
    <3> QED BY <1>3, <3>1 DEF Remeasured, Fits
  <2> QED BY <1>6, <1>7, <2>1, HeightsAfter
<1>9. BalanceInv'
  <2> SUFFICES ASSUME DistinctKeys PROVE BalanceInv'
    BY <1>4 DEF BalanceInv, DistinctKeys, TreeNodes
  <2>1. PICK s \in Nat, o \in Nat :
          /\ s = Hgt(height, Side(t)) /\ o = Hgt(height, OtherSide(t))
          /\ \/ (Settled(t, s, o) \/ Raised(t, s, o)) /\ Needed(t) = "none"
             \/ Unbalanced(t, s, o) /\ TurnAhead(t, o)
    BY <1>1, LeaveCases
  <2>2. Settled(t, s, o) \/ Raised(t, s, o)
    BY <1>2, <2>1 DEF TurnAhead
  <2>3. s - o \in -1..1
    BY <2>2 DEF Settled, Raised
  <2>4. height'[t] = Larger(s, o) + 1
    <3>1. height'[t] = Larger(Hgt(height, left[t]), Hgt(height, right[t])) + 1
      BY <1>3 DEF Remeasured
    <3>2. (s = Hgt(height, left[t]) /\ o = Hgt(height, right[t])) \/ (o = Hgt(height, left[t]) /\ s = Hgt(height, right[t]))
      BY <2>1 DEF Side, OtherSide
    <3>3. Larger(s, o) = Larger(o, s)
      BY DEF Larger
    <3> QED BY <3>1, <3>2, <3>3
  <2>5. \A u \in 1..n : u # p => Level(height', left', right', u)
    <3> SUFFICES ASSUME NEW u \in 1..n, u # p PROVE Level(height', left, right, u)
      BY <1>5
    <3>1. u # t => Level(height, left, right, u)
      BY <1>1 DEF CallOver
    <3>2. Level(height, left, right, t)
      <4>1. (s = Hgt(height, left[t]) /\ o = Hgt(height, right[t])) \/ (o = Hgt(height, left[t]) /\ s = Hgt(height, right[t]))
        BY <2>1 DEF Side, OtherSide
      <4>2. o - s \in -1..1
        BY <2>3
      <4> QED BY <2>3, <4>1, <4>2 DEF Level
    <3> QED BY <1>3, <3>1, <3>2, LeaveKeepsLevel
  <2>6. ASSUME p # 0 PROVE Grown(p)'
    <3>1. PICK q : q = Hgt(height, OtherSide(p))
      OBVIOUS
    <3>2. /\ height[p] = Larger(height[t], q) + 1 /\ height[t] - q \in -1..1
          /\ height'[p] = height[p] /\ Hgt(height', OtherSide(p)) = q
          /\ height[t] \in Nat /\ q \in Nat
      BY <1>1, <1>3, <2>6, <3>1, CallerSince
    <3>3. Side(p)' = t /\ Hgt(height', Side(p)') = height'[t]
      <4>1. Side(p) = t
        BY <1>1, <2>6 DEF CallOver
      <4>2. Side(p)' = t
        BY <4>1, <1>4, <1>5 DEF Side
      <4> QED BY <4>2, <1>2 DEF Hgt
    <3>4. Hgt(height', OtherSide(p)') = q
      BY <3>2, <1>4, <1>5 DEF OtherSide
    <3>5. CASE Settled(t, s, o)
      <4>1. height'[t] = height[t]
        BY <2>4, <3>5 DEF Settled
      <4> QED BY <3>2, <3>3, <3>4, <4>1 DEF Grown, Since
    <3>6. CASE Raised(t, s, o)
      <4>1. height'[t] - 1 = height[t] /\ s = o + 1
        BY <2>4, <3>6 DEF Raised, Larger
      <4>2. height'[p] = Larger(height'[t] - 1, q) + 1 /\ height'[t] - 1 - q \in -1..1
        BY <3>2, <4>1
      <4>3. Leans(t)'
        <5>1. t # p /\ Hgt(height', left[t]) = Hgt(height, left[t]) /\ Hgt(height', right[t]) = Hgt(height, right[t])
          BY <1>2, <1>3 DEF Remeasured
        <5>2. arg < val[t] \/ arg > val[t]
          <6>1. t # Len(val) /\ Len(val) \in TreeNodes /\ arg = val[Len(val)]
            <7>1. Len(path) \in 1..Len(path) /\ t = path[Len(path)]
              BY <1>2, LastTwo DEF Returning
            <7> QED BY <1>2, <7>1 DEF Leaving
          <6>2. val[t] # arg
            BY <1>2, <6>1 DEF DistinctKeys
          <6>3. arg \in Int /\ val[t] \in Int
            BY <1>1 DEF CallOver
          <6> QED BY <6>2, <6>3
        <5>3. CASE arg < val[t]
          <6>1. s = Hgt(height, left[t]) /\ o = Hgt(height, right[t])
            BY <5>3, <2>1 DEF Side, OtherSide
          <6> QED BY <1>4, <1>5, <4>1, <5>1, <5>3, <6>1 DEF Leans
        <5>4. CASE arg > val[t] /\ ~(arg < val[t])
          <6>1. s = Hgt(height, right[t]) /\ o = Hgt(height, left[t])
            BY <5>4, <2>1 DEF Side, OtherSide
          <6> QED BY <1>4, <1>5, <4>1, <5>1, <5>4, <6>1 DEF Leans
        <5> QED BY <5>2, <5>3, <5>4
      <4>4. Side(p)' # 0 /\ Leans(Side(p))'
        BY <1>2, <3>3, <4>3 DEF Leans
      <4> QED BY <3>3, <3>4, <4>2, <4>4 DEF Grown, Since
    <3> QED BY <2>2, <3>5, <3>6
  <2> QED BY <1>6, <1>7, <2>5, <2>6, BalanceAfter
<1>10. Inserted(pos, lo, hi)'
  <2>1. tpc' \in {"idle", "leave"}
    BY <1>5
  <2>2. RotateInv' /\ tpc' \in {"idle", "crashed"} \union Inserting
    BY <2>1 DEF RotateInv, Inserting
  <2>3. InOrder(pos)'
    BY <1>2, <1>4 DEF InOrder, TreeNodes
  <2>4. Shape(Len(val), left, right, root, pos, lo, hi)'
    BY <1>2, <1>5, <1>6 DEF Returning
  <2>5. height' \in [TreeNodes' -> Nat]
    BY <1>3, <1>6 DEF Remeasured
  <2> QED BY <1>2, <1>6, <1>7, <1>8, <1>9, <2>1, <2>2, <2>3, <2>4, <2>5 DEF Inserted
<1> QED BY <1>4, <1>10, InsertedKeeps DEF TreeInv

(* A turn is needed: the node waits for it, measured.                      *)
LEMMA LeaveTurns ==
  ASSUME TreeInv, Leave, Needed(Innermost) # "none", tpc' = Needed(Innermost),
         UNCHANGED <<left, right, root, path>>
  PROVE  TreeInv'
<1>1. PICK pos, lo, hi, n, t, p : CallOver(pos, lo, hi, n, t, p)
  BY LeaveFacts DEF Leave
<1>2. /\ Returning(pos, lo, hi) /\ Leaving /\ InOrder(pos)
      /\ n = Len(val) /\ t = Innermost /\ p = Caller /\ TreeNodes = 1..n
      /\ n \in Nat /\ t \in 1..n /\ t # 0 /\ p # t
      /\ height \in [1..n -> Nat] /\ left \in [1..n -> 0..n] /\ right \in [1..n -> 0..n]
  BY <1>1 DEF CallOver
<1>3. Remeasured(n, left, right, t, p, height, height')
  BY <1>1, LeaveMeasures
<1>4. UNCHANGED <<val, call, arg, at, queue>> /\ Len(val') = n /\ TreeNodes' = 1..n
  BY <1>2 DEF Leave, TreeNodes
<1>5. /\ tpc' = Needed(t) /\ Needed(t) \in Rotations
      /\ Needed(t) \in {"leftRotate", "leftRightRotate"} => left[t] # 0
      /\ Needed(t) \in {"rightRotate", "rightLeftRotate"} => right[t] # 0
  <2>1. left[t] \in 0..n /\ right[t] \in 0..n
    BY <1>2
  <2>2. PICK a, b : a = Hgt(height, left[t]) /\ b = Hgt(height, right[t])
    OBVIOUS
  <2>3. a \in Nat /\ b \in Nat
    BY <1>2, <2>1, <2>2, HgtFacts
  <2>4. /\ Needed(t) \in Rotations \union {"none"}
        /\ Needed(t) \in {"leftRotate", "leftRightRotate"} => left[t] # 0
        /\ Needed(t) \in {"rightRotate", "rightLeftRotate"} => right[t] # 0
    BY <2>2, <2>3, NeededByHeights
  <2> QED BY <1>2, <2>4
<1>6. PathInv(pos, lo, hi)' /\ Innermost' = t /\ Caller' = p
  <2>1. PathStays(lo, hi, lo, hi)
    BY <1>4 DEF PathStays
  <2> QED BY <1>2, <1>5, <2>1, PathStaysOnBranch
<1>7. HeightInv'
  <2>1. Behind' = {t, p}
    BY <1>5, <1>6 DEF Behind, Rotations
  <2>2. ASSUME NEW u \in TreeNodes', u \notin Behind' PROVE IsMeasured(u)'
    <3>1. u \in 1..n /\ u # t /\ u # p
      BY <1>4, <2>1, <2>2
    <3>2. Fits(height, left, right, u)
      BY <1>1, <3>1 DEF CallOver
    <3>3. Fits(height', left', right', u)
      BY <1>3, <3>1, <3>2 DEF Remeasured, Fits
    <3> QED BY <3>3 DEF IsMeasured, Fits, Measured, GetHeight, Hgt, Null
  <2> QED BY <2>2 DEF HeightInv
<1>8. BalanceInv'
  <2> SUFFICES ASSUME DistinctKeys PROVE BalanceInv'
    BY <1>4 DEF BalanceInv, DistinctKeys, TreeNodes
  <2>1. PICK s \in Nat, o \in Nat :
          /\ s = Hgt(height, Side(t)) /\ o = Hgt(height, OtherSide(t))
          /\ \/ (Settled(t, s, o) \/ Raised(t, s, o)) /\ Needed(t) = "none"
             \/ Unbalanced(t, s, o) /\ TurnAhead(t, o)
    BY <1>1, LeaveCases
  <2>2. Unbalanced(t, s, o) /\ TurnAhead(t, o)
    BY <1>2, <2>1
  <2>3. Hgt(height', left[t]) = Hgt(height, left[t]) /\ Hgt(height', right[t]) = Hgt(height, right[t])
    BY <1>2, <1>3 DEF Remeasured
  <2>4. ASSUME NEW w \in {left[t], right[t]}, w # 0
        PROVE  Hgt(height', left[w]) = Hgt(height, left[w]) /\ Hgt(height', right[w]) = Hgt(height, right[w])
    <3>1. Shape(n, left, right, root, pos, lo, hi)
      BY <1>2 DEF Returning
    <3>2. w \in 1..n /\ In(pos, lo, hi, w, t)
      BY <1>2, <2>4, <3>1, ChildFacts
    <3>3. w # p
      <4>1. p # 0 => ~In(pos, lo, hi, p, t)
        BY <1>2, CallerOutside
      <4> QED BY <3>2, <4>1, <2>4
    <3> QED BY <1>3, <3>2, <3>3 DEF Remeasured
  <2>5. ASSUME NEW u \in 1..n, u # t, u # p PROVE Level(height', left', right', u)
    <3>1. Level(height, left, right, u)
      BY <1>1, <2>5 DEF CallOver
    <3>2. Level(height', left, right, u)
      BY <1>3, <2>5, <3>1, LeaveKeepsLevel
    <3> QED BY <3>2
  <2>6. \A u \in TreeNodes' : u \notin Turning' => u # t /\ u # p
    BY <1>5, <1>6 DEF Turning, Rotations
  <2>7. ASSUME p # 0 PROVE Since(p, o + 2)'
    <3>1. PICK q : q = Hgt(height, OtherSide(p))
      OBVIOUS
    <3>2. /\ height[p] = Larger(height[t], q) + 1 /\ height[t] - q \in -1..1
          /\ height'[p] = height[p] /\ Hgt(height', OtherSide(p)) = q
      BY <1>1, <1>3, <2>7, <3>1, CallerSince
    <3>3. height[t] = o + 2
      BY <2>2 DEF Unbalanced
    <3>4. Hgt(height', OtherSide(p)') = q
      BY <3>2, <1>4 DEF OtherSide
    <3>5. PICK k : k = o + 2
      OBVIOUS
    <3>6. height'[p] = Larger(k, q) + 1 /\ k - q \in -1..1
      BY <3>2, <3>3, <3>5
    <3>7. Since(p, k)'
      BY <3>4, <3>6 DEF Since
    <3> QED BY <3>5, <3>7
  <2>8. CASE Needed(t) \in {"leftRotate", "leftRightRotate"}
    <3>1. o = Hgt(height, right[t])
      BY <2>2, <2>8 DEF TurnAhead
    <3>2. left[t] # 0 /\ Hgt(height', left[left[t]]) = Hgt(height, left[left[t]]) /\ Hgt(height', right[left[t]]) = Hgt(height, right[left[t]])
      BY <1>5, <2>4, <2>8
    <3>3. /\ OneTurn(height, left, right, t) => OneTurn(height', left, right, t)
          /\ TwoTurns(height, left, right, t) => TwoTurns(height', left, right, t)
      BY <2>3, <3>2, TurnKept
    <3>4. /\ Needed(t) = "leftRotate" => OneTurn(height', left', right', t)
          /\ Needed(t) = "leftRightRotate" => TwoTurns(height', left', right', t)
      BY <2>2, <3>3 DEF TurnAhead
    <3>5. Hgt(height', right'[t]) = o
      BY <2>3, <3>1
    <3>6. Unlevel'
      <4>1. tpc' \in {"leftRotate", "leftRightRotate"}
        BY <1>5, <2>8
      <4>2. Caller' # 0 => Since(Caller, Hgt(height, right[Innermost]) + 2)'
        BY <1>6, <2>7, <3>5 DEF Since, OtherSide
      <4> QED BY <1>5, <1>6, <3>4, <4>1, <4>2 DEF Unlevel
    <3> QED BY <1>4, <2>5, <2>6, <2>8, <1>5, <3>6 DEF BalanceInv
  <2>9. CASE Needed(t) \in {"rightRotate", "rightLeftRotate"}
    <3>1. o = Hgt(height, left[t])
      BY <2>2, <2>9 DEF TurnAhead
    <3>2. right[t] # 0 /\ Hgt(height', left[right[t]]) = Hgt(height, left[right[t]]) /\ Hgt(height', right[right[t]]) = Hgt(height, right[right[t]])
      BY <1>5, <2>4, <2>9
    <3>3. /\ OneTurn(height, right, left, t) => OneTurn(height', right, left, t)
          /\ TwoTurns(height, right, left, t) => TwoTurns(height', right, left, t)
      BY <2>3, <3>2, TurnKept
    <3>4. /\ Needed(t) = "rightRotate" => OneTurn(height', right', left', t)
          /\ Needed(t) = "rightLeftRotate" => TwoTurns(height', right', left', t)
      BY <2>2, <3>3 DEF TurnAhead
    <3>5. Hgt(height', left'[t]) = o
      BY <2>3, <3>1
    <3>6. Unlevel'
      <4>1. tpc' \in {"rightRotate", "rightLeftRotate"}
        BY <1>5, <2>9
      <4>2. Caller' # 0 => Since(Caller, Hgt(height, left[Innermost]) + 2)'
        BY <1>6, <2>7, <3>5 DEF Since, OtherSide
      <4> QED BY <1>5, <1>6, <3>4, <4>1, <4>2 DEF Unlevel
    <3> QED BY <1>4, <2>5, <2>6, <2>9, <1>5, <3>6 DEF BalanceInv
  <2> QED BY <1>5, <2>8, <2>9 DEF Rotations
<1>9. Inserted(pos, lo, hi)'
  <2>1. RotateInv'
    <3>1. /\ tpc' \in {"leftRotate", "leftRightRotate"} => left'[t] # 0
          /\ tpc' \in {"rightRotate", "rightLeftRotate"} => right'[t] # 0
      BY <1>5
    <3> QED BY <1>6, <3>1 DEF RotateInv, Null
  <2>2. tpc' \in {"idle", "crashed"} \union Inserting /\ tpc' # "idle"
    BY <1>5 DEF Inserting, Rotations
  <2>3. InOrder(pos)'
    BY <1>2, <1>4 DEF InOrder, TreeNodes
  <2>4. Shape(Len(val), left, right, root, pos, lo, hi)'
    BY <1>2, <1>4 DEF Returning
  <2>5. height' \in [TreeNodes' -> Nat] /\ path' \in Seq(TreeNodes')
    BY <1>2, <1>3, <1>4 DEF Remeasured, Returning, TreeTypeOK
  <2> QED BY <1>4, <1>6, <1>7, <1>8, <2>1, <2>2, <2>3, <2>4, <2>5 DEF Inserted
<1> QED BY <1>4, <1>9, InsertedKeeps DEF TreeInv

(* Leave keeps the invariant.                                              *)
LEMMA LeaveKeeps ==
  ASSUME TreeInv, Leave
  PROVE  TreeInv'
<1>1. \/ Needed(Innermost) = "none" /\ ReturnNode(Innermost, left, right)
      \/ /\ Needed(Innermost) # "none" /\ tpc' = Needed(Innermost)
         /\ UNCHANGED <<left, right, root, path>>
  BY DEF Leave
<1> QED BY <1>1, LeaveReturns, LeaveTurns

-----------------------------------------------------------------------------
(* The calls keep it.                                                      *)

(* A step of an insertion needs to show no more than the types and         *)
(* Inserted.                                                               *)
LEMMA InsertedIsKept ==
  ASSUME TreeTypeOK', NEW pos, NEW lo, NEW hi, Inserted(pos, lo, hi)'
  PROVE  TreeInv'
<1>1. tpc' # "look" /\ tpc' # "done"
  BY DEF Inserted, Inserting, Rotations
<1>2. TreeInvWith(pos, lo, hi)'
  BY <1>1 DEF TreeInvWith, LookInv, Inserted
<1>3. RotateInv' /\ HeightInv' /\ BalanceInv'
  BY DEF Inserted
<1> QED BY <1>1, <1>2, <1>3 DEF TreeInv

(* While nothing is measured or turned heights and balance stay.           *)
LEMMA StillLevel ==
  ASSUME TreeInv, UNCHANGED <<val, left, right, height>>,
         tpc \in {"idle", "enter", "look"}, tpc' \in {"idle", "enter", "look", "done"}
  PROVE  HeightInv' /\ BalanceInv' /\ RotateInv'
<1>1. HeightInv /\ BalanceInv /\ TreeNodes' = TreeNodes
  BY DEF TreeInv, TreeNodes
<1>2. Behind = {} /\ Behind' = {} /\ Turning = {} /\ Turning' = {}
  BY DEF Behind, Turning, Rotations
<1>3. HeightInv'
  BY <1>1, <1>2 DEF HeightInv, IsMeasured, Measured, GetHeight
<1>4. BalanceInv'
  <2>1. Unlevel' /\ tpc' # "crashed"
    BY DEF Unlevel
  <2>2. DistinctKeys' => DistinctKeys
    BY <1>1 DEF DistinctKeys
  <2>3. DistinctKeys => \A t \in TreeNodes : Level(height, left, right, t)
    BY <1>1, <1>2 DEF BalanceInv
  <2> QED BY <1>1, <1>2, <2>1, <2>2, <2>3 DEF BalanceInv
<1>5. RotateInv'
  BY DEF RotateInv
<1> QED BY <1>3, <1>4, <1>5

(* The call of insertAVL keeps the invariant.                              *)
LEMMA InsertAVLKeeps ==
  ASSUME TreeInv, NEW key, InsertAVL(key)
  PROVE  TreeInv'
<1>1. PICK pos, lo, hi : TreeInvWith(pos, lo, hi)
  BY DEF TreeInv
<1>2. /\ TreeTypeOK /\ tpc = "idle" /\ path = <<>> /\ tpc' = "enter" /\ arg' = key /\ at' = root
      /\ UNCHANGED <<val, left, right, height, root, path, queue>>
      /\ InOrder(pos) /\ Shape(Len(val), left, right, root, pos, lo, hi)
  BY <1>1 DEF TreeInv, InsertAVL, fields, TreeInvWith, TreeTypeOK
<1>3. key \in Int
  <2>1. Append(val, key) \in Seq(Int) /\ val \in Seq(Int)
    BY <1>2, KeysAssumption DEF InsertAVL, TreeTypeOK
  <2>2. Len(val) + 1 \in 1..Len(Append(val, key)) /\ Append(val, key)[Len(val) + 1] = key
    BY <2>1
  <2> QED BY <2>1, <2>2
<1>4. TreeNodes' = TreeNodes /\ Len(val') = Len(val)
  BY <1>2 DEF TreeNodes
<1>5. TreeTypeOK'
  BY <1>2, <1>3, <1>4 DEF TreeTypeOK, Inserting, Rotations
<1>6. HeightInv' /\ BalanceInv' /\ RotateInv'
  BY <1>2, StillLevel
<1>7. PathInv(pos, lo, hi)'
  <2>1. OnBranch(pos, lo, hi)'
    BY <1>2 DEF OnBranch
  <2>r. PICK r : r = root
    OBVIOUS
  <2>2. r # 0 => Belongs(r, pos, lo, hi)'
    <3> SUFFICES ASSUME r # 0, NEW u \in TreeNodes
                 PROVE  ~(pos[u] < lo[r]) /\ ~(hi[r] < pos[u])
      BY <1>2, <1>4 DEF Belongs
    <3>1. lo[root] \in Int /\ hi[root] \in Int /\ lo[root] <= pos[u] /\ pos[u] <= hi[root] /\ pos[u] \in Int
      BY <1>2, NodeFacts DEF TreeNodes
    <3> QED BY <2>r, <3>1
  <2>3. Innermost' = 0
    BY <1>2 DEF Innermost, Null
  <2>4. Entering(pos, lo, hi)'
    <3>1. at' = IF path' = <<>> THEN root' ELSE Side(Innermost)'
      BY <1>2
    <3>2. \A t \in {r, 0} : t # 0 => Belongs(t, pos, lo, hi)'
      BY <2>2
    <3>3. at' = r
      BY <1>2, <2>r
    <3> QED BY <2>3, <3>1, <3>2, <3>3 DEF Entering, Null
  <2> QED BY <1>2, <2>1, <2>4 DEF PathInv
<1>8. Inserted(pos, lo, hi)'
  <2>1. InOrder(pos)' /\ Shape(Len(val), left, right, root, pos, lo, hi)'
    BY <1>2, <1>4 DEF InOrder
  <2>2. height' \in [TreeNodes' -> Nat] /\ path' \in Seq(TreeNodes') /\ tpc' # "idle"
    BY <1>2, <1>4 DEF TreeTypeOK
  <2> QED BY <1>2, <1>6, <1>7, <2>1, <2>2 DEF Inserted, Inserting
<1> QED BY <1>5, <1>8, InsertedIsKept

(* A recursive call keeps the invariant: the key belongs below the child   *)
(* it goes to.                                                             *)
LEMMA EnterKeeps ==
  ASSUME TreeInv, Enter
  PROVE  TreeInv'
<1>1. PICK pos, lo, hi : TreeInvWith(pos, lo, hi)
  BY DEF TreeInv
<1>2. /\ TreeTypeOK /\ tpc = "enter" /\ tpc' = "enter" /\ at # 0
      /\ path' = Append(path, at) /\ at' = Side(at)
      /\ UNCHANGED <<val, left, right, height, root, call, arg, queue>>
      /\ InOrder(pos) /\ Shape(Len(val), left, right, root, pos, lo, hi)
  BY <1>1 DEF TreeInv, Enter, fields, TreeInvWith, Side, Null
<1>3. OnBranch(pos, lo, hi) /\ Entering(pos, lo, hi)
  BY <1>1, <1>2 DEF TreeInvWith, PathInv, Inserting
<1>d. PICK n, x, t, m : n = Len(val) /\ x = at /\ t = Innermost /\ m = Len(path)
  OBVIOUS
<1>4. /\ n \in Nat /\ TreeNodes = 1..n /\ TreeNodes' = 1..n /\ x \in 1..n /\ x # 0
      /\ left \in [1..n -> 0..n] /\ right \in [1..n -> 0..n] /\ path \in Seq(1..n) /\ m \in Nat
      /\ arg \in Int /\ \A u \in 1..n : val[u] \in Int
  BY <1>2, <1>d DEF TreeTypeOK, TreeNodes, Shape
<1>x. x \in 1..n
  BY <1>4
<1>5. Side(x) \in 0..n
  BY <1>4 DEF Side
<1>6. /\ path' \in Seq(1..n) /\ Len(path') = m + 1 /\ path'[m + 1] = x
      /\ \A i \in 1..m : path'[i] = path[i] /\ path[i] \in 1..n
  BY <1>2, <1>4, <1>d, AppendProperties
<1>7. Innermost' = x
  <2>1. path' # <<>>
    BY <1>4, <1>6
  <2> QED BY <1>6, <2>1 DEF Innermost
<1>s. Shape(n, left, right, root, pos, lo, hi)
  BY <1>2, <1>d
<1>8. m # 0 => t = path[m] /\ m \in 1..m /\ t \in 1..n /\ x = Side(t) /\ t # 0
  <2>1. m # 0 => path # <<>> /\ m \in 1..m
    BY <1>4, <1>d
  <2>2. m # 0 => t = path[m] /\ t \in 1..n /\ t # 0
    BY <1>4, <1>d, <2>1 DEF Innermost
  <2>3. m # 0 => x = Side(t)
    BY <1>3, <1>d, <2>1 DEF Entering
  <2> QED BY <2>1, <2>2, <2>3
<1>9. /\ pos[x] \in Int /\ lo[x] \in Int /\ hi[x] \in Int
      /\ left[x] # 0 => lo[left[x]] = lo[x] /\ hi[left[x]] = pos[x] - 1
      /\ right[x] # 0 => lo[right[x]] = pos[x] + 1 /\ hi[right[x]] = hi[x]
  BY <1>x, <1>s, NodeFacts
<1>10. \A i \in 1..m : IF arg < val[path[i]] THEN hi[x] < pos[path[i]] ELSE pos[path[i]] < lo[x]
  <2> SUFFICES ASSUME NEW i \in 1..m
               PROVE  IF arg < val[path[i]] THEN hi[x] < pos[path[i]] ELSE pos[path[i]] < lo[x]
    OBVIOUS
  <2>1. /\ m # 0 /\ t \in 1..n /\ x = Side(t) /\ t = path[m] /\ m \in 1..m
        /\ x \in {left[t], right[t]}
    BY <1>4, <1>8 DEF Side
  <2>2. /\ pos[t] \in Int /\ lo[t] \in Int /\ hi[t] \in Int
        /\ left[t] = x => hi[x] = pos[t] - 1
        /\ right[t] = x => lo[x] = pos[t] + 1
    <3>1. t \in 1..n
      BY <2>1
    <3>2. /\ pos[t] \in Int /\ lo[t] \in Int /\ hi[t] \in Int
          /\ left[t] # 0 => hi[left[t]] = pos[t] - 1
          /\ right[t] # 0 => lo[right[t]] = pos[t] + 1
      BY <1>s, <3>1, NodeFacts
    <3> QED BY <1>4, <3>2, SMTT(30)
  <2>3. CASE i = m
    BY <2>1, <2>2, <2>3 DEF Side
  <2>4. CASE i < m
    <3>1. IF arg < val[path[i]] THEN hi[t] < pos[path[i]] ELSE pos[path[i]] < lo[t]
      BY <1>3, <1>d, <2>1, <2>4 DEF OnBranch
    <3>2. lo[t] <= lo[x] /\ hi[x] <= hi[t]
      <4>1. t \in 1..n /\ x \in {left[t], right[t]} /\ x # 0
        BY <2>1, <1>4
      <4> QED BY <1>s, <4>1, ChildFacts
    <3>3. path[i] \in 1..n
      BY <1>6
    <3>4. pos[path[i]] \in Int
      BY <1>s, <3>3, NodeFacts
    <3> QED BY <1>9, <2>2, <3>1, <3>2, <3>4
  <2> QED BY <1>4, <2>3, <2>4
<1>11. OnBranch(pos, lo, hi)'
  <2>1. path'[1] = root'
    <3>1. CASE m = 0
      <4>1. path = <<>>
        <5>1. path \in Seq(1..n) /\ Len(path) = 0
          BY <1>4, <1>d, <3>1
        <5> QED BY <5>1
      <4> QED BY <1>2, <1>3, <1>6, <1>d, <3>1, <4>1 DEF Entering
    <3>2. CASE m # 0
      <4>1. path # <<>> /\ 1 \in 1..m
        BY <1>4, <1>d, <3>2
      <4> QED BY <1>2, <1>3, <1>6, <4>1 DEF OnBranch
    <3> QED BY <3>1, <3>2
  <2>2. \A i \in 1..(m + 1) : i < m + 1 => Side(path'[i]) = path'[i + 1]
    <3> SUFFICES ASSUME NEW i \in 1..m PROVE Side(path[i]) = path'[i + 1]
      BY <1>4, <1>6
    <3>1. CASE i = m
      <4>1. m # 0
        BY <1>4, <3>1
      <4> QED BY <1>6, <1>8, <3>1, <4>1
    <3>2. CASE i < m
      <4>1. i + 1 \in 1..m
        BY <1>4, <3>2
      <4>2. Side(path[i]) = path[i + 1]
        BY <1>3, <1>d, <3>2 DEF OnBranch
      <4> QED BY <1>6, <4>1, <4>2
    <3> QED BY <1>4, <3>1, <3>2
  <2>3. \A i, j \in 1..(m + 1) : i < j =>
          IF arg < val[path'[i]] THEN hi[path'[j]] < pos[path'[i]] ELSE pos[path'[i]] < lo[path'[j]]
    <3> SUFFICES ASSUME NEW i \in 1..(m + 1), NEW j \in 1..(m + 1), i < j
                 PROVE  IF arg < val[path'[i]] THEN hi[path'[j]] < pos[path'[i]] ELSE pos[path'[i]] < lo[path'[j]]
      OBVIOUS
    <3>0. m \in Nat
      BY <1>4
    <3>1. i \in 1..m
      BY <3>0
    <3>a. path'[i] = path[i]
      BY <1>6, <3>1
    <3>2. CASE j = m + 1
      BY <1>6, <1>10, <3>1, <3>a, <3>2
    <3>3. CASE j \in 1..m
      <4>1. path'[j] = path[j]
        BY <1>6, <3>3
      <4>2. IF arg < val[path[i]] THEN hi[path[j]] < pos[path[i]] ELSE pos[path[i]] < lo[path[j]]
        BY <1>3, <1>d, <3>1, <3>3 DEF OnBranch
      <4> QED BY <3>a, <4>1, <4>2
    <3> QED BY <3>0, <3>2, <3>3
  <2>4. \A i \in 1..(m + 1) : i < m + 1 =>
          (IF arg' < val'[path'[i]] THEN left'[path'[i]] ELSE right'[path'[i]]) = path'[i + 1]
    BY <1>2, <2>2 DEF Side
  <2> QED BY <1>2, <1>6, <2>1, <2>3, <2>4 DEF OnBranch, Side
<1>12. \A y \in {x, Side(x)} : y # 0 => Belongs(y, pos, lo, hi)
  <2>1. Belongs(x, pos, lo, hi)
    BY <1>3, <1>4, <1>d DEF Entering, Null
  <2>2. ASSUME Side(x) # 0, NEW u \in 1..n
        PROVE  /\ pos[u] < lo[Side(x)] => val[u] <= arg
               /\ hi[Side(x)] < pos[u] => arg <= val[u]
    <3>1. /\ pos[u] < lo[x] => val[u] <= arg
          /\ hi[x] < pos[u] => arg <= val[u]
      BY <1>4, <2>1 DEF Belongs
    <3>2. pos[u] \in Int /\ (u # x => pos[u] # pos[x])
      BY <1>4, <1>s, NodeFacts, PairFacts
    <3>3. (pos[u] < pos[x] => val[u] <= val[x]) /\ (pos[x] < pos[u] => val[x] <= val[u])
      BY <1>2, <1>4 DEF InOrder
    <3>4. val[u] \in Int /\ val[x] \in Int /\ arg \in Int
      BY <1>4
    <3>5. CASE arg < val[x]
      <4>1. lo[Side(x)] = lo[x] /\ hi[Side(x)] = pos[x] - 1
        BY <1>9, <2>2, <3>5 DEF Side
      <4> QED BY <1>9, <3>1, <3>2, <3>3, <3>4, <3>5, <4>1
    <3>6. CASE ~(arg < val[x])
      <4>1. lo[Side(x)] = pos[x] + 1 /\ hi[Side(x)] = hi[x]
        BY <1>9, <2>2, <3>6 DEF Side
      <4> QED BY <1>9, <3>1, <3>2, <3>3, <3>4, <3>6, <4>1
    <3> QED BY <3>5, <3>6
  <2>3. Side(x) # 0 => Belongs(Side(x), pos, lo, hi)
    BY <1>4, <2>2 DEF Belongs
  <2> QED BY <2>1, <2>3
<1>13. Entering(pos, lo, hi)'
  <2>1. path' # <<>>
    BY <1>4, <1>6
  <2>2. at' = Side(x) /\ Side(Innermost)' = Side(x)
    BY <1>2, <1>7, <1>d DEF Side
  <2>3. \A y \in {at', Innermost'} : y # 0 => Belongs(y, pos, lo, hi)'
    BY <1>2, <1>4, <1>7, <1>12, <2>2 DEF Belongs
  <2> QED BY <2>1, <2>2, <2>3 DEF Entering, Null, Belongs
<1>14. TreeTypeOK'
  <2>1. at' \in 0..Len(val') /\ path' \in Seq(TreeNodes') /\ Len(val') = Len(val)
    BY <1>2, <1>4, <1>5, <1>6, <1>d
  <2> QED BY <1>2, <1>4, <2>1 DEF TreeTypeOK, Inserting
<1>15. Inserted(pos, lo, hi)'
  <2>1. HeightInv' /\ BalanceInv' /\ RotateInv'
    BY <1>2, StillLevel
  <2>2. InOrder(pos)' /\ Shape(Len(val), left, right, root, pos, lo, hi)'
    BY <1>2, <1>4 DEF InOrder
  <2>3. PathInv(pos, lo, hi)'
    BY <1>2, <1>11, <1>13 DEF PathInv
  <2>4. height' \in [TreeNodes' -> Nat] /\ path' \in Seq(TreeNodes') /\ tpc' # "idle"
    BY <1>2, <1>14 DEF TreeTypeOK
  <2> QED BY <1>2, <2>1, <2>2, <2>3, <2>4 DEF Inserted, Inserting
<1> QED BY <1>14, <1>15, InsertedIsKept

-----------------------------------------------------------------------------
(* A new node keeps it.                                                    *)

(* A function from 1..n is a sequence, and one longer.                     *)
LEMMA Longer ==
  ASSUME NEW n \in Nat, NEW S, NEW f \in [1..n -> S], NEW e \in S
  PROVE  /\ Len(f) = n /\ Append(f, e) \in [1..(n + 1) -> S]
         /\ Append(f, e)[n + 1] = e /\ \A i \in 1..n : Append(f, e)[i] = f[i]
<1>1. f \in Seq(S)
  BY SeqDef
<1>2. Len(f) \in Nat /\ f \in [1..Len(f) -> S] /\ DOMAIN f = 1..Len(f)
  BY <1>1, LenProperties
<1>3. DOMAIN f = 1..n
  OBVIOUS
<1>4. Len(f) = n
  BY <1>2, <1>3
<1>5. /\ Append(f, e) \in Seq(S) /\ Len(Append(f, e)) = n + 1
      /\ Append(f, e)[n + 1] = e /\ \A i \in 1..n : Append(f, e)[i] = f[i]
  BY <1>1, <1>4, AppendProperties
<1>6. Append(f, e) \in [1..(n + 1) -> S]
  BY <1>5, LenProperties
<1> QED BY <1>4, <1>5, <1>6

(* The new node hangs below p, on the side of the key.                     *)
Allocated(n, p, l2, r2, h2, top2) ==
  /\ l2 \in [1..(n + 1) -> 0..(n + 1)] /\ r2 \in [1..(n + 1) -> 0..(n + 1)]
  /\ h2 \in [1..(n + 1) -> Nat]
  /\ l2[n + 1] = 0 /\ r2[n + 1] = 0 /\ h2[n + 1] = 1
  /\ \A u \in 1..n :
       /\ h2[u] = height[u]
       /\ l2[u] = IF u = p /\ arg < val[u] THEN n + 1 ELSE left[u]
       /\ r2[u] = IF u = p /\ ~(arg < val[u]) THEN n + 1 ELSE right[u]
  /\ top2 = IF p = 0 THEN n + 1 ELSE root

(* What Allocate leaves in the fields.                                     *)
LEMMA AllocateFacts ==
  ASSUME TreeTypeOK, Allocate, NEW n, n = Len(val), Innermost \in 0..n
  PROVE  /\ n \in Nat /\ Len(val') = n + 1 /\ TreeNodes' = 1..(n + 1) /\ TreeNodes = 1..n
         /\ val' \in Seq(Int) /\ val'[n + 1] = arg /\ \A u \in 1..n : val'[u] = val[u] /\ val[u] \in Int
         /\ Allocated(n, Innermost, left', right', height', root')
<1>1. /\ n \in Nat /\ TreeNodes = 1..n /\ arg \in Int /\ val \in Seq(Int)
      /\ \A u \in 1..n : val[u] \in Int
  BY DEF TreeTypeOK, TreeNodes
<1>2. /\ val' \in Seq(Int) /\ Len(val') = n + 1 /\ val'[n + 1] = arg
      /\ \A u \in 1..n : val'[u] = val[u]
  BY <1>1, AppendProperties DEF Allocate
<1>3. TreeNodes' = 1..(n + 1)
  BY <1>2 DEF TreeNodes
<1>4. /\ left \in [1..n -> 0..(n + 1)] /\ right \in [1..n -> 0..(n + 1)] /\ height \in [1..n -> Nat]
      /\ Null \in 0..(n + 1) /\ 1 \in Nat
  <2>1. left \in [1..n -> 0..n] /\ right \in [1..n -> 0..n] /\ height \in [1..n -> Nat]
    BY <1>1 DEF TreeTypeOK
  <2>2. \A x \in 0..n : x \in 0..(n + 1)
    BY <1>1
  <2> QED BY <1>1, <2>1, <2>2 DEF Null
<1>d. PICK l, r : l = Append(left, Null) /\ r = Append(right, Null)
  OBVIOUS
<1>5. /\ l \in [1..(n + 1) -> 0..(n + 1)] /\ l[n + 1] = 0
      /\ \A u \in 1..n : l[u] = left[u]
  <2>1. PICK S : S = 0..(n + 1)
    OBVIOUS
  <2>2. n \in Nat /\ left \in [1..n -> S] /\ Null \in S
    BY <1>1, <1>4, <2>1
  <2>3. /\ Append(left, Null) \in [1..(n + 1) -> S] /\ Append(left, Null)[n + 1] = Null
        /\ \A u \in 1..n : Append(left, Null)[u] = left[u]
    BY <2>2, Longer
  <2> QED BY <1>d, <2>1, <2>3 DEF Null
<1>6. /\ r \in [1..(n + 1) -> 0..(n + 1)] /\ r[n + 1] = 0
      /\ \A u \in 1..n : r[u] = right[u]
  <2>1. PICK S : S = 0..(n + 1)
    OBVIOUS
  <2>2. n \in Nat /\ right \in [1..n -> S] /\ Null \in S
    BY <1>1, <1>4, <2>1
  <2>3. /\ Append(right, Null) \in [1..(n + 1) -> S] /\ Append(right, Null)[n + 1] = Null
        /\ \A u \in 1..n : Append(right, Null)[u] = right[u]
    BY <2>2, Longer
  <2> QED BY <1>d, <2>1, <2>3 DEF Null
<1>7. /\ height' \in [1..(n + 1) -> Nat] /\ height'[n + 1] = 1
      /\ \A u \in 1..n : height'[u] = height[u]
  <2>1. PICK e : e = 1
    OBVIOUS
  <2>2. /\ Append(height, e) \in [1..(n + 1) -> Nat] /\ Append(height, e)[n + 1] = e
        /\ \A u \in 1..n : Append(height, e)[u] = height[u]
    <3>1. PICK S : S = Nat
      OBVIOUS
    <3>2. n \in Nat /\ height \in [1..n -> S] /\ e \in S
      BY <1>1, <1>4, <2>1, <3>1
    <3>3. /\ Append(height, e) \in [1..(n + 1) -> S] /\ Append(height, e)[n + 1] = e
          /\ \A u \in 1..n : Append(height, e)[u] = height[u]
      BY <3>2, Longer
    <3> QED BY <3>1, <3>3
  <2> QED BY <2>1, <2>2 DEF Allocate
<1>p. PICK p : p = Innermost
  OBVIOUS
<1>8. Store(p, n + 1, l, r) /\ p \in 0..n
  BY <1>d, <1>p DEF Allocate
<1>9. p \in 1..n \/ p = 0
  BY <1>1, <1>8
<1>10. \A u \in 1..n : val'[u] = val[u] /\ u # n + 1 /\ u # 0 /\ u \in 1..(n + 1)
  BY <1>1, <1>2
<1>11. /\ left' \in [1..(n + 1) -> 0..(n + 1)] /\ left'[n + 1] = 0
       /\ \A u \in 1..n : left'[u] = IF u = p /\ arg < val[u] THEN n + 1 ELSE left[u]
  <2>1. left' = IF p # 0 /\ arg < val[p] THEN [l EXCEPT ![p] = n + 1] ELSE l
    BY <1>8 DEF Store, Null
  <2>2. CASE p # 0 /\ arg < val[p]
    BY <1>1, <1>5, <1>9, <1>10, <2>1, <2>2
  <2>3. CASE ~(p # 0 /\ arg < val[p])
    BY <1>1, <1>5, <1>9, <1>10, <2>1, <2>3
  <2> QED BY <2>2, <2>3
<1>12. /\ right' \in [1..(n + 1) -> 0..(n + 1)] /\ right'[n + 1] = 0
       /\ \A u \in 1..n : right'[u] = IF u = p /\ ~(arg < val[u]) THEN n + 1 ELSE right[u]
  <2>1. right' = IF p # 0 /\ ~(arg < val[p]) THEN [r EXCEPT ![p] = n + 1] ELSE r
    BY <1>8 DEF Store, Null
  <2>2. CASE p # 0 /\ ~(arg < val[p])
    BY <1>1, <1>6, <1>9, <1>10, <2>1, <2>2
  <2>3. CASE ~(p # 0 /\ ~(arg < val[p]))
    BY <1>1, <1>6, <1>9, <1>10, <2>1, <2>3
  <2> QED BY <2>2, <2>3
<1>13. root' = IF p = 0 THEN n + 1 ELSE root
  BY <1>8 DEF Store, Null
<1> QED BY <1>1, <1>2, <1>3, <1>7, <1>p, <1>11, <1>12, <1>13 DEF Allocated

(* The first node.                                                         *)
LEMMA FirstNode ==
  ASSUME NEW l \in [1..1 -> 0..1], NEW r \in [1..1 -> 0..1], l[1] = 0, r[1] = 0
  PROVE  \E pos, lo, hi : Shape(1, l, r, 1, pos, lo, hi)
<1> DEFINE z == [u \in 1..1 |-> 0]
<1>1. z \in [1..1 -> Int] /\ z[1] = 0 /\ 1..1 = {1}
  OBVIOUS
<1> HIDE DEF z
<1>2. Ranges(1, z, z, z)
  BY <1>1 DEF Ranges
<1>3. Linked(1, l, r, z, z, z)
  BY <1>1 DEF Linked
<1>4. Rooted(1, 1, z, z, z)
  BY <1>1 DEF Rooted
<1> QED BY <1>2, <1>3, <1>4 DEF Shape

(* What is known when a node is about to be allocated below p, and of the  *)
(* tree with it.                                                           *)
AllocateInto(n, p) ==
  /\ n \in Nat /\ n = Len(val) /\ TreeNodes = 1..n /\ Len(val') = n + 1 /\ TreeNodes' = 1..(n + 1)
  /\ p \in 1..n /\ p = Innermost /\ path \in Seq(1..n) /\ path # <<>>
  /\ arg \in Int /\ val'[n + 1] = arg /\ \A u \in 1..n : val'[u] = val[u] /\ val[u] \in Int
  /\ Allocated(n, p, left', right', height', root') /\ UNCHANGED <<arg, path, call, at, queue>>
  /\ Side(p) = 0 /\ tpc = "enter" /\ tpc' = "leave"

(* A node is allocated below the innermost call, where it has no child.    *)
LEMMA AllocateBelow ==
  ASSUME TreeInv, Allocate, path # <<>>, NEW n, n = Len(val)
  PROVE  AllocateInto(n, Innermost)
<1>1. PICK pos, lo, hi : TreeInvWith(pos, lo, hi)
  BY DEF TreeInv
<1>2. /\ TreeTypeOK /\ tpc = "enter" /\ tpc' = "leave" /\ at = 0
      /\ UNCHANGED <<arg, path, call, at, queue>>
      /\ Shape(Len(val), left, right, root, pos, lo, hi)
  BY <1>1 DEF TreeInv, Allocate, TreeInvWith, Null
<1>3. OnBranch(pos, lo, hi) /\ Entering(pos, lo, hi)
  BY <1>1, <1>2 DEF TreeInvWith, PathInv, Inserting
<1>4. Innermost \in TreeNodes
  BY <1>2, <1>3, LastTwo
<1>5. Side(Innermost) = 0
  BY <1>2, <1>3 DEF Entering
<1>6. n \in Nat /\ TreeNodes = 1..n
  BY <1>2 DEF TreeTypeOK, TreeNodes
<1>7. Innermost \in 1..n /\ Innermost \in 0..n
  BY <1>4, <1>6
<1>8. /\ n \in Nat /\ Len(val') = n + 1 /\ TreeNodes' = 1..(n + 1) /\ TreeNodes = 1..n
      /\ val'[n + 1] = arg /\ \A u \in 1..n : val'[u] = val[u] /\ val[u] \in Int
      /\ Allocated(n, Innermost, left', right', height', root')
  BY <1>2, <1>7, AllocateFacts
<1>9. path \in Seq(1..n) /\ arg \in Int
  BY <1>2, <1>6 DEF TreeTypeOK
<1> QED BY <1>2, <1>5, <1>7, <1>8, <1>9 DEF AllocateInto

(* The tree has the new node next to p, on the side of the key.            *)
NextTo(n, p, pos, pos2) ==
  \A u \in 1..n : pos2[u] < pos2[n + 1] <=> IF arg < val[p] THEN pos[u] < pos[p] ELSE pos[u] <= pos[p]

(* The tree with the new node is a tree.                                   *)
LEMMA AllocateShape ==
  ASSUME NEW n, NEW p, AllocateInto(n, p), NEW pos, NEW lo, NEW hi,
         Shape(n, left, right, root, pos, lo, hi)
  PROVE  \E pos2, lo2, hi2 :
           /\ Shape(n + 1, left', right', root', pos2, lo2, hi2)
           /\ MadeRoom(n, pos, lo, hi, pos2, lo2, hi2)
           /\ NextTo(n, p, pos, pos2)
<1>1. /\ n \in Nat /\ p \in 1..n /\ Side(p) = 0 /\ Allocated(n, p, left', right', height', root')
  BY DEF AllocateInto
<1>2. p # 0 /\ root' = root
  BY <1>1 DEF Allocated
<1>3. CASE arg < val[p]
  <2>1. Hung(n, left, right, p, left', right')
    BY <1>1, <1>3 DEF Hung, Allocated, Side
  <2>2. \E pos2, lo2, hi2 :
           /\ Shape(n + 1, left', right', root, pos2, lo2, hi2)
           /\ MadeRoom(n, pos, lo, hi, pos2, lo2, hi2)
           /\ \A u \in 1..n : pos2[u] < pos2[n + 1] <=> pos[u] < pos[p]
    BY <2>1, LeftLeaf
  <2> QED BY <1>2, <1>3, <2>2 DEF NextTo
<1>4. CASE ~(arg < val[p])
  <2>1. Hung(n, right, left, p, right', left')
    BY <1>1, <1>4 DEF Hung, Allocated, Side
  <2>2. \E pos2, lo2, hi2 :
           /\ Shape(n + 1, left', right', root, pos2, lo2, hi2)
           /\ MadeRoom(n, pos, lo, hi, pos2, lo2, hi2)
           /\ \A u \in 1..n : pos2[u] < pos2[n + 1] <=> pos[u] <= pos[p]
    BY <2>1, RightLeaf
  <2> QED BY <1>2, <1>4, <2>2 DEF NextTo
<1> QED BY <1>3, <1>4

(* The keys are still in order.                                            *)
LEMMA AllocateInOrder ==
  ASSUME NEW n, NEW p, AllocateInto(n, p), NEW pos, NEW lo, NEW hi,
         Shape(n, left, right, root, pos, lo, hi), InOrder(pos), Belongs(p, pos, lo, hi),
         NEW pos2, NEW lo2, NEW hi2, Shape(n + 1, left', right', root', pos2, lo2, hi2),
         MadeRoom(n, pos, lo, hi, pos2, lo2, hi2), NextTo(n, p, pos, pos2)
  PROVE  InOrder(pos2)'
<1>1. /\ n \in Nat /\ p \in 1..n /\ TreeNodes = 1..n /\ TreeNodes' = 1..(n + 1)
      /\ arg \in Int /\ val'[n + 1] = arg /\ Side(p) = 0
      /\ \A u \in 1..n : val'[u] = val[u] /\ val[u] \in Int
  BY DEF AllocateInto
<1>p. p \in 1..n
  BY <1>1
<1>2. /\ pos[p] \in Int /\ lo[p] \in Int /\ hi[p] \in Int
      /\ (left[p] = 0 => lo[p] = pos[p]) /\ (right[p] = 0 => hi[p] = pos[p])
  BY <1>p, NodeFacts
<1>3. (arg < val[p] => lo[p] = pos[p]) /\ (~(arg < val[p]) => hi[p] = pos[p])
  BY <1>1, <1>2 DEF Side
<1>4. ASSUME NEW u \in 1..n
      PROVE  /\ pos[u] \in Int /\ (u # p => pos[u] # pos[p])
             /\ pos[u] < pos[p] => val[u] <= val[p]
             /\ pos[p] < pos[u] => val[p] <= val[u]
             /\ pos[u] < lo[p] => val[u] <= arg
             /\ hi[p] < pos[u] => arg <= val[u]
             /\ pos2[u] < pos2[n + 1] <=> IF arg < val[p] THEN pos[u] < pos[p] ELSE pos[u] <= pos[p]
             /\ val[u] \in Int /\ val[p] \in Int /\ arg \in Int
  <2>1. pos[u] \in Int /\ (u # p => pos[u] # pos[p])
    BY <1>p, NodeFacts, PairFacts
  <2>2. (pos[u] < pos[p] => val[u] <= val[p]) /\ (pos[p] < pos[u] => val[p] <= val[u])
    BY <1>1 DEF InOrder
  <2>3. (pos[u] < lo[p] => val[u] <= arg) /\ (hi[p] < pos[u] => arg <= val[u])
    BY <1>1 DEF Belongs
  <2>4. pos2[u] < pos2[n + 1] <=> IF arg < val[p] THEN pos[u] < pos[p] ELSE pos[u] <= pos[p]
    BY DEF NextTo
  <2> QED BY <1>1, <2>1, <2>2, <2>3, <2>4
<1>5. ASSUME NEW u \in 1..n
      PROVE  /\ pos2[u] < pos2[n + 1] => val[u] <= arg
             /\ ~(pos2[u] < pos2[n + 1]) => arg <= val[u]
  BY <1>2, <1>3, <1>4
<1>6. n + 1 \in 1..(n + 1) /\ \A u \in 1..(n + 1) : u = n + 1 \/ u \in 1..n
  BY <1>1
<1>7. \A u \in 1..(n + 1) : pos2[u] \in Int
  BY NodeFacts
<1>8. ASSUME NEW u \in 1..(n + 1), NEW v \in 1..(n + 1), pos2[u] < pos2[v]
      PROVE  val'[u] <= val'[v]
  <2>1. CASE u \in 1..n /\ v \in 1..n
    <3>1. pos[u] < pos[v]
      BY <1>8, <2>1 DEF MadeRoom
    <3>2. val[u] <= val[v]
      BY <1>1, <2>1, <3>1 DEF InOrder
    <3> QED BY <1>1, <2>1, <3>2
  <2>2. CASE u \in 1..n /\ v = n + 1
    BY <1>1, <1>5, <1>8, <2>2
  <2>3. CASE u = n + 1 /\ v \in 1..n
    <3>1. ~(pos2[v] < pos2[n + 1])
      BY <1>6, <1>7, <1>8, <2>3
    <3> QED BY <1>1, <1>5, <2>3, <3>1
  <2>4. CASE u = n + 1 /\ v = n + 1
    BY <1>6, <1>7, <1>8, <2>4
  <2> QED BY <1>6, <2>1, <2>2, <2>3, <2>4
<1> QED BY <1>1, <1>8 DEF InOrder

(* The calls that wait are on the branch of the new node.                  *)
LEMMA AllocatePath ==
  ASSUME NEW n, NEW p, AllocateInto(n, p), TreeTypeOK, NEW pos, NEW lo, NEW hi,
         Shape(n, left, right, root, pos, lo, hi), OnBranch(pos, lo, hi),
         NEW pos2, NEW lo2, NEW hi2, MadeRoom(n, pos, lo, hi, pos2, lo2, hi2)
  PROVE  PathInv(pos2, lo2, hi2)'
<1>1. /\ n \in Nat /\ n = Len(val) /\ p \in 1..n /\ p = Innermost /\ path \in Seq(1..n) /\ path # <<>>
      /\ Len(val') = n + 1 /\ val'[n + 1] = arg /\ arg' = arg /\ path' = path /\ tpc' = "leave"
      /\ \A u \in 1..n : val'[u] = val[u]
      /\ Allocated(n, p, left', right', height', root') /\ TreeNodes = 1..n
  BY DEF AllocateInto
<1>m. PICK m : m = Len(path) /\ m \in Nat
  BY <1>1
<1>2. \A i \in 1..m : path[i] \in 1..n
  BY <1>1, <1>m
<1>3. ASSUME NEW i \in 1..m, i < m
      PROVE  path[i] # p
  <2>1. ~In(pos, lo, hi, path[i], Innermost)
    BY <1>1, <1>3, <1>m, OthersOutside
  <2>2. p \in 1..n
    BY <1>1
  <2>3. In(pos, lo, hi, p, p)
    BY <2>2, NodeFacts DEF In
  <2> QED BY <1>1, <2>1, <2>3
<1>4. ASSUME NEW i \in 1..m, i < m
      PROVE  (IF arg' < val'[path[i]] THEN left'[path[i]] ELSE right'[path[i]]) = path[i + 1]
  <2>1. path[i] \in 1..n /\ path[i] # p
    BY <1>2, <1>3, <1>4
  <2>2. left'[path[i]] = left[path[i]] /\ right'[path[i]] = right[path[i]]
    BY <1>1, <2>1 DEF Allocated
  <2>3. Side(path[i]) = path[i + 1]
    BY <1>4, <1>m DEF OnBranch
  <2> QED BY <1>1, <2>1, <2>2, <2>3 DEF Side
<1>5. path'[1] = root'
  <2>1. p # 0
    BY <1>1
  <2> QED BY <1>1, <2>1 DEF Allocated, OnBranch
<1>6. ASSUME NEW i \in 1..m, NEW j \in 1..m, i < j
      PROVE  IF arg' < val'[path[i]] THEN hi2[path[j]] < pos2[path[i]] ELSE pos2[path[i]] < lo2[path[j]]
  <2>1. path[i] \in 1..n /\ path[j] \in 1..n
    BY <1>2
  <2>2. IF arg < val[path[i]] THEN hi[path[j]] < pos[path[i]] ELSE pos[path[i]] < lo[path[j]]
    BY <1>6, <1>m DEF OnBranch
  <2>3. /\ hi[path[j]] < pos[path[i]] => hi2[path[j]] < pos2[path[i]]
        /\ pos[path[i]] < lo[path[j]] => pos2[path[i]] < lo2[path[j]]
    BY <2>1 DEF MadeRoom
  <2> QED BY <1>1, <2>1, <2>2, <2>3
<1>7. OnBranch(pos2, lo2, hi2)'
  <2>1. Len(path') = m /\ path' = path
    BY <1>1, <1>m
  <2>2. \A i \in 1..m : i < m => Side(path[i])' = path[i + 1]
    BY <1>1, <1>4 DEF Side
  <2> QED BY <1>5, <1>6, <2>1, <2>2 DEF OnBranch, Side
<1>8. Leaving'
  <2>1. \A i \in 1..Len(path') : path'[i] # Len(val')
    BY <1>1, <1>2, <1>m
  <2>2. Len(val') > 0 /\ arg' = val'[Len(val')]
    BY <1>1
  <2> QED BY <1>1, <2>1, <2>2 DEF Leaving
<1> QED BY <1>1, <1>7, <1>8 DEF PathInv

(* Only p may not know its height or be out of balance.                    *)
LEMMA AllocateLevels ==
  ASSUME TreeInv, NEW n, NEW p, AllocateInto(n, p)
  PROVE  HeightInv' /\ BalanceInv' /\ RotateInv'
<1>1. /\ n \in Nat /\ p \in 1..n /\ p = Innermost /\ path # <<>> /\ path' = path
      /\ TreeNodes = 1..n /\ TreeNodes' = 1..(n + 1) /\ arg' = arg
      /\ \A u \in 1..n : val'[u] = val[u] /\ val[u] \in Int
      /\ tpc' = "leave" /\ Side(p) = 0 /\ tpc = "enter" /\ val'[n + 1] = arg
  BY DEF AllocateInto
<1>a. Allocated(n, p, left', right', height', root')
  BY DEF AllocateInto
<1>2. Innermost' = p
  BY <1>1 DEF Innermost
<1>3. /\ left \in [1..n -> 0..n] /\ right \in [1..n -> 0..n] /\ height \in [1..n -> Nat] /\ n = Len(val)
  BY <1>1 DEF TreeInv, TreeTypeOK, AllocateInto
<1>4. /\ HeightInv /\ BalanceInv
  BY DEF TreeInv
<1>5. Behind = {} /\ Turning = {} /\ Behind' = {p} /\ Turning' = {p}
  BY <1>1, <1>2 DEF Behind, Turning, Rotations
<1>6. \A x \in 0..n : Hgt(height', x) = Hgt(height, x) /\ Hgt(height, x) \in Nat
  BY <1>1, <1>a, <1>3 DEF Hgt, Allocated
<1>7. \A u \in 1..n : u # p => left'[u] = left[u] /\ right'[u] = right[u]
  BY <1>a DEF Allocated
<1>8. /\ left'[n + 1] = 0 /\ right'[n + 1] = 0 /\ height'[n + 1] = 1
      /\ \A u \in 1..n : height'[u] = height[u]
  BY <1>a DEF Allocated
<1>9. \A u \in 1..n : Fits(height, left, right, u)
  BY <1>1, <1>4, <1>5, FitsIsMeasured DEF HeightInv
<1>10. Fits(height', left', right', n + 1) /\ Level(height', left', right', n + 1)
  BY <1>8 DEF Fits, Level, Hgt, Larger
<1>11. ASSUME NEW u \in 1..n, u # p
       PROVE  /\ Fits(height', left', right', u)
              /\ Level(height, left, right, u) => Level(height', left', right', u)
  <2>1. left'[u] = left[u] /\ right'[u] = right[u] /\ left[u] \in 0..n /\ right[u] \in 0..n
    BY <1>3, <1>7, <1>11
  <2>2. Hgt(height', left'[u]) = Hgt(height, left[u]) /\ Hgt(height', right'[u]) = Hgt(height, right[u])
    BY <1>6, <2>1
  <2> QED BY <1>8, <1>9, <2>2 DEF Fits, Level
<1>12. \A u \in 1..(n + 1) : u = n + 1 \/ u \in 1..n
  BY <1>1
<1>13. HeightInv'
  <2>1. \A u \in 1..(n + 1) : u # p => Fits(height', left', right', u)
    BY <1>10, <1>11, <1>12
  <2>2. \A u \in 1..(n + 1) : u # p => height'[u] = Measured(left[u], right[u])'
    BY <2>1 DEF Fits, Measured, GetHeight, Hgt, Null
  <2> QED BY <1>1, <1>5, <2>2 DEF HeightInv, IsMeasured
<1>14. ASSUME DistinctKeys'
       PROVE  /\ \A t \in TreeNodes' : t \notin Turning' => Level(height', left', right', t)
              /\ Unlevel'
  <2>1. DistinctKeys
    <3> SUFFICES ASSUME NEW u \in 1..n, NEW v \in 1..n, val[u] = val[v] PROVE u = v
      BY <1>1 DEF DistinctKeys
    <3>1. u \in TreeNodes' /\ v \in TreeNodes' /\ val'[u] = val'[v]
      BY <1>1
    <3> QED BY <1>14, <3>1 DEF DistinctKeys
  <2>2. \A u \in 1..n : Level(height, left, right, u)
    BY <1>1, <1>4, <1>5, <2>1 DEF BalanceInv
  <2>3. \A t \in TreeNodes' : t \notin Turning' => Level(height', left', right', t)
    BY <1>1, <1>5, <1>10, <1>11, <1>12, <2>2
  <2>4. Side(p)' = n + 1
    BY <1>1, <1>a DEF Allocated, Side
  <2>o. PICK o : o = Hgt(height, OtherSide(p))
    OBVIOUS
  <2>5. /\ OtherSide(p)' = OtherSide(p) /\ OtherSide(p) \in 0..n
    <3>1. /\ left'[p] = IF arg < val[p] THEN n + 1 ELSE left[p]
          /\ right'[p] = IF ~(arg < val[p]) THEN n + 1 ELSE right[p]
      BY <1>1, <1>a DEF Allocated
    <3>2. left[p] \in 0..n /\ right[p] \in 0..n
      BY <1>1, <1>3
    <3> QED BY <1>1, <3>1, <3>2 DEF OtherSide
  <2>6. Hgt(height, OtherSide(p))' = o /\ o \in Nat
    BY <1>6, <2>5, <2>o
  <2>7. height'[p] = Larger(0, o) + 1 /\ 0 - o \in -1..1
    <3>1. Hgt(height, Side(p)) = 0
      BY <1>1 DEF Hgt
    <3>2. Fits(height, left, right, p) /\ Level(height, left, right, p) /\ height'[p] = height[p]
      BY <1>1, <1>8, <1>9, <2>2
    <3>3. CASE arg < val[p]
      <4>1. Hgt(height, left[p]) = 0 /\ Hgt(height, right[p]) = o
        BY <2>o, <3>1, <3>3 DEF Side, OtherSide
      <4> QED BY <2>6, <3>2, <4>1 DEF Fits, Level
    <3>4. CASE ~(arg < val[p])
      <4>1. Hgt(height, right[p]) = 0 /\ Hgt(height, left[p]) = o
        BY <2>o, <3>1, <3>4 DEF Side, OtherSide
      <4> QED BY <2>6, <3>2, <4>1 DEF Fits, Level, Larger
    <3> QED BY <3>3, <3>4
  <2>8. Grown(p)'
    <3>1. Hgt(height', n + 1) = 1
      BY <1>1, <1>8 DEF Hgt
    <3>2. Leans(n + 1)'
      BY <1>8 DEF Leans
    <3>3. n + 1 # 0
      BY <1>1
    <3> QED BY <2>4, <2>6, <2>7, <3>1, <3>2, <3>3 DEF Grown, Since
  <2>9. Unlevel'
    BY <1>1, <1>2, <2>8 DEF Unlevel
  <2> QED BY <2>3, <2>9
<1>15. BalanceInv'
  BY <1>1, <1>14 DEF BalanceInv
<1>16. RotateInv'
  BY <1>1 DEF RotateInv
<1> QED BY <1>13, <1>15, <1>16

(* Allocate keeps the types.                                               *)
LEMMA AllocateTypeOK ==
  ASSUME TreeTypeOK, Allocate, NEW n, n = Len(val), Innermost \in 0..n
  PROVE  TreeTypeOK'
<1>1. /\ n \in Nat /\ Len(val') = n + 1 /\ TreeNodes' = 1..(n + 1) /\ TreeNodes = 1..n
      /\ val' \in Seq(Int)
      /\ Allocated(n, Innermost, left', right', height', root')
  BY AllocateFacts
<1>2. /\ tpc' \in {"idle", "leave"} /\ (tpc' = "idle" => path = <<>>) /\ UNCHANGED <<arg, at, path, queue>>
  BY DEF Allocate
<1>3. arg \in Int /\ root \in 0..n /\ at \in 0..n /\ path \in Seq(1..n) /\ queue \in Seq(1..n)
  BY <1>1 DEF TreeTypeOK
<1>4. left' \in [1..(n + 1) -> 0..(n + 1)] /\ right' \in [1..(n + 1) -> 0..(n + 1)] /\ height' \in [1..(n + 1) -> Nat]
  BY <1>1 DEF Allocated
<1>5. root' \in {n + 1, root}
  BY <1>1 DEF Allocated
<1>6. root' \in 0..(n + 1) /\ at' \in 0..(n + 1)
  BY <1>1, <1>2, <1>3, <1>5
<1>7. 1..n \subseteq 1..(n + 1)
  BY <1>1
<1>8. path' \in Seq(1..(n + 1)) /\ queue' \in Seq(1..(n + 1))
  BY <1>2, <1>3, <1>7, SeqMonotonic
<1>9. tpc' \in {"idle", "look", "done", "crashed"} \union Inserting' /\ tpc' # "look"
  BY <1>2 DEF Inserting
<1> QED BY <1>1, <1>2, <1>3, <1>4, <1>6, <1>8, <1>9 DEF TreeTypeOK

(* Allocate keeps the invariant.                                           *)
LEMMA AllocateKeeps ==
  ASSUME TreeInv, Allocate
  PROVE  TreeInv'
<1>1. PICK pos, lo, hi : TreeInvWith(pos, lo, hi)
  BY DEF TreeInv
<1>2. PICK n : n = Len(val)
  OBVIOUS
<1>3. /\ TreeTypeOK /\ tpc = "enter" /\ InOrder(pos) /\ at = 0
      /\ Shape(n, left, right, root, pos, lo, hi)
  BY <1>1, <1>2 DEF TreeInv, TreeInvWith, Allocate, Null
<1>4. OnBranch(pos, lo, hi) /\ Entering(pos, lo, hi)
  BY <1>1, <1>3 DEF TreeInvWith, PathInv, Inserting
<1>5. n \in Nat /\ TreeNodes = 1..n
  BY <1>3, <1>2 DEF Shape, TreeNodes
<1>6. CASE path = <<>>
  <2>1. root = 0 /\ Innermost = 0 /\ tpc' = "idle" /\ path' = <<>>
    BY <1>3, <1>4, <1>6 DEF Entering, Innermost, Null, Allocate
  <2>2. n = 0
    BY <1>3, <2>1 DEF Shape, Rooted
  <2>3. TreeTypeOK'
    BY <1>2, <1>3, <2>1, <2>2, AllocateTypeOK
  <2>4. /\ Len(val') = 1 /\ TreeNodes' = 1..1 /\ Allocated(0, 0, left', right', height', root')
    <3>1. /\ Len(val') = n + 1 /\ TreeNodes' = 1..(n + 1) /\ Allocated(n, 0, left', right', height', root')
      BY <1>2, <1>3, <1>5, <2>1, AllocateFacts
    <3> QED BY <2>2, <3>1
  <2>5. /\ left' \in [1..1 -> 0..1] /\ right' \in [1..1 -> 0..1] /\ left'[1] = 0 /\ right'[1] = 0
        /\ root' = 1 /\ height' \in [1..1 -> Nat] /\ height'[1] = 1
    BY <2>4 DEF Allocated
  <2>6. PICK pos2, lo2, hi2 : Shape(1, left', right', 1, pos2, lo2, hi2)
    BY <2>5, FirstNode
  <2>7. \A u \in TreeNodes' : u = 1
    BY <2>4
  <2>8. val' \in Seq(Int) /\ val'[1] \in Int
    BY <2>3, <2>4 DEF TreeTypeOK
  <2>9. InOrder(pos2)' /\ PathInv(pos2, lo2, hi2)' /\ RotateInv'
    BY <2>1, <2>7, <2>8 DEF InOrder, PathInv, RotateInv, Inserting, Rotations
  <2>10. Fits(height', left', right', 1) /\ Level(height', left', right', 1)
    BY <2>5 DEF Fits, Level, Hgt, Larger
  <2>11. HeightInv'
    <3>1. height'[1] = Measured(left[1], right[1])'
      BY <2>10 DEF Fits, Measured, GetHeight, Hgt, Null
    <3> QED BY <2>7, <3>1 DEF HeightInv, IsMeasured
  <2>12. BalanceInv'
    <3>1. Unlevel' /\ tpc' # "crashed"
      BY <2>1 DEF Unlevel
    <3>2. \A t \in TreeNodes' : Level(height', left', right', t)
      BY <2>7, <2>10
    <3> QED BY <3>1, <3>2 DEF BalanceInv
  <2>13. Inserted(pos2, lo2, hi2)'
    <3>1. height' \in [TreeNodes' -> Nat] /\ path' \in Seq(TreeNodes')
      BY <2>3 DEF TreeTypeOK
    <3>2. Shape(Len(val'), left', right', root', pos2, lo2, hi2)
      BY <2>4, <2>5, <2>6
    <3> QED BY <2>1, <2>9, <2>11, <2>12, <3>1, <3>2 DEF Inserted
  <2> QED BY <2>3, <2>13, InsertedIsKept
<1>7. CASE path # <<>>
  <2>1. PICK p : p = Innermost
    OBVIOUS
  <2>2. AllocateInto(n, p)
    BY <1>2, <1>7, <2>1, AllocateBelow
  <2>3. /\ p \in 1..n /\ p # 0 /\ tpc' = "leave" /\ Len(val') = n + 1
    BY <2>2 DEF AllocateInto
  <2>4. TreeTypeOK'
    <3>1. Innermost \in 0..n
      BY <1>5, <2>1, <2>3
    <3> QED BY <1>2, <1>3, <3>1, AllocateTypeOK
  <2>5. PICK pos2, lo2, hi2 :
          /\ Shape(n + 1, left', right', root', pos2, lo2, hi2)
          /\ MadeRoom(n, pos, lo, hi, pos2, lo2, hi2)
          /\ NextTo(n, p, pos, pos2)
    BY <1>3, <2>2, AllocateShape
  <2>6. Belongs(p, pos, lo, hi)
    BY <1>4, <2>1, <2>3 DEF Entering, Null
  <2>7. InOrder(pos2)'
    BY <1>3, <2>2, <2>5, <2>6, AllocateInOrder
  <2>8. PathInv(pos2, lo2, hi2)'
    BY <1>3, <1>4, <2>2, <2>5, AllocatePath
  <2>9. HeightInv' /\ BalanceInv' /\ RotateInv'
    BY <2>2, AllocateLevels
  <2>10. Inserted(pos2, lo2, hi2)'
    <3>1. height' \in [TreeNodes' -> Nat] /\ path' \in Seq(TreeNodes') /\ tpc' # "idle"
      BY <2>3, <2>4 DEF TreeTypeOK
    <3>2. Shape(Len(val'), left', right', root', pos2, lo2, hi2)
      BY <2>3, <2>5
    <3> QED BY <2>3, <2>7, <2>8, <2>9, <3>1, <3>2 DEF Inserted, Inserting
  <2> QED BY <2>4, <2>10, InsertedIsKept
<1> QED BY <1>6, <1>7

-----------------------------------------------------------------------------
(* The searches keep it.                                                   *)

(* What a search is to leave in order.                                     *)
LEMMA LookKeeps ==
  ASSUME TreeInv, UNCHANGED <<val, left, right, height>>, TreeTypeOK',
         tpc \in {"idle", "look"}, tpc' \in {"look", "done"}, UNCHANGED root,
         NEW pos, NEW lo, NEW hi, TreeInvWith(pos, lo, hi), LookInv(pos, lo, hi)',
         tpc' = "done" => NodeFound'
  PROVE  TreeInv'
<1>1. HeightInv' /\ BalanceInv' /\ RotateInv'
  BY StillLevel
<1>2. Shape(Len(val), left, right, root, pos, lo, hi)' /\ InOrder(pos)'
  BY DEF TreeInvWith, InOrder, TreeNodes
<1>3. PathInv(pos, lo, hi)'
  BY DEF PathInv, Inserting, Rotations
<1>4. TreeInvWith(pos, lo, hi)'
  BY <1>2, <1>3 DEF TreeInvWith
<1> QED BY <1>1, <1>4 DEF TreeInv

(* The start of a search keeps the invariant: everything is ahead.         *)
LEMMA FindKeeps ==
  ASSUME TreeInv, NEW search \in Searches, NEW target \in TreeKeys, Find(search, target)
  PROVE  TreeInv'
<1>1. PICK pos, lo, hi : TreeInvWith(pos, lo, hi)
  BY DEF TreeInv
<1>2. /\ TreeTypeOK /\ tpc = "idle" /\ tpc' = "look" /\ path = <<>> /\ path' = <<>>
      /\ UNCHANGED <<val, left, right, height, root>> /\ at' = root /\ call' = search /\ arg' = target
      /\ queue' = IF search = "BFS" /\ root # 0 THEN <<root>> ELSE <<>>
      /\ Shape(Len(val), left, right, root, pos, lo, hi)
  BY <1>1 DEF TreeInv, TreeTypeOK, Find, fields, TreeInvWith, Null
<1>d. PICK n, r : n = Len(val) /\ r = root
  OBVIOUS
<1>3. /\ n \in Nat /\ r \in 0..n /\ (r = 0 => n = 0) /\ TreeNodes = 1..n /\ TreeNodes' = 1..n
  BY <1>2, <1>d DEF Shape, Rooted, TreeNodes
<1>4. target \in Int
  <2>1. PICK s \in KeySeqs : \E p \in DOMAIN s : s[p] = target
    BY DEF TreeKeys
  <2>2. s \in Seq(Int)
    BY <2>1, KeysAssumption
  <2>3. DOMAIN s = 1..Len(s) /\ \A p \in 1..Len(s) : s[p] \in Int
    BY <2>2
  <2> QED BY <2>1, <2>3
<1>5. /\ queue' \in Seq(1..n) /\ Len(queue') \in Nat
      /\ \A i \in 1..Len(queue') : i = 1
      /\ search = "BFS" /\ r # 0 => 1 \in 1..Len(queue') /\ queue'[1] = r
  <2>1. CASE search = "BFS" /\ r # 0
    <3>1. queue' = <<r>> /\ r \in 1..n
      BY <1>2, <1>3, <1>d, <2>1
    <3> QED BY <3>1
  <2>2. CASE ~(search = "BFS" /\ r # 0)
    <3>1. queue' = <<>>
      BY <1>2, <1>d, <2>2
    <3>2. <<>> \in Seq(1..n) /\ Len(<<>>) = 0 /\ 0 \in Nat
      BY EmptySeq
    <3>3. queue' \in Seq(1..n) /\ Len(queue') = 0
      BY <3>1, <3>2
    <3> QED BY <2>2, <3>3
  <2> QED BY <2>1, <2>2
<1>6. TreeTypeOK'
  <2>1. at' \in 0..Len(val') /\ Len(val') = Len(val) /\ path' \in Seq(TreeNodes')
    BY <1>2, <1>3, <1>d
  <2> QED BY <1>2, <1>3, <1>4, <1>5, <2>1 DEF TreeTypeOK
<1>7. ASSUME NEW u \in 1..n
      PROVE  r # 0 /\ In(pos, lo, hi, u, r)
  <2>1. Shape(n, left, right, r, pos, lo, hi)
    BY <1>2, <1>d
  <2>2. lo[r] <= pos[u] /\ pos[u] <= hi[r]
    BY <2>1, NodeFacts
  <2> QED BY <1>3, <2>2 DEF In
<1>8. BFSOrder(pos, lo, hi)'
  BY <1>5 DEF BFSOrder
<1>9. DFSOrder(pos, lo, hi)'
  BY <1>2 DEF DFSOrder
<1>10. search = "BFS" => \A u \in 1..n : \E i \in 1..Len(queue') : In(pos, lo, hi, u, queue'[i])
  BY <1>5, <1>7
<1>11. LookInv(pos, lo, hi)'
  <2>1. at' = r
    BY <1>2, <1>d
  <2> QED BY <1>2, <1>3, <1>7, <1>8, <1>9, <1>10, <2>1 DEF LookInv
<1> QED BY <1>1, <1>2, <1>6, <1>11, LookKeeps

(* A search in a tree whose nodes are 1..n.                                *)
LEMMA LookFacts ==
  ASSUME TreeInv, LookAt, NEW pos, NEW lo, NEW hi, TreeInvWith(pos, lo, hi)
  PROVE  /\ TreeTypeOK /\ tpc = "look" /\ LookInv(pos, lo, hi) /\ InOrder(pos)
         /\ UNCHANGED <<val, left, right, height, root, call, arg>> /\ TreeNodes' = TreeNodes
         /\ \E n : /\ n \in Nat /\ n = Len(val) /\ TreeNodes = 1..n
                   /\ Shape(n, left, right, root, pos, lo, hi)
                   /\ left \in [1..n -> 0..n] /\ right \in [1..n -> 0..n]
                   /\ at \in 0..n /\ path \in Seq(1..n) /\ queue \in Seq(1..n)
                   /\ arg \in Int /\ \A u \in 1..n : val[u] \in Int
<1>1. PICK n : n = Len(val)
  OBVIOUS
<1>2. TreeTypeOK /\ Shape(n, left, right, root, pos, lo, hi) /\ InOrder(pos) /\ LookInv(pos, lo, hi)
  BY <1>1 DEF TreeInv, TreeInvWith
<1>3. n \in Nat /\ TreeNodes = 1..n
  BY <1>1, <1>2 DEF Shape, TreeNodes
<1>4. tpc = "look" /\ UNCHANGED <<val, left, right, height, root, call, arg>>
  BY DEF LookAt, fields
<1>5. TreeNodes' = TreeNodes
  BY <1>4 DEF TreeNodes
<1>6. /\ left \in [1..n -> 0..n] /\ right \in [1..n -> 0..n]
      /\ at \in 0..n /\ path \in Seq(1..n) /\ queue \in Seq(1..n)
      /\ arg \in Int /\ val \in Seq(Int)
  BY <1>1, <1>2, <1>3 DEF TreeTypeOK
<1>7. \A u \in 1..n : val[u] \in Int
  BY <1>1, <1>6
<1> QED BY <1>1, <1>2, <1>3, <1>4, <1>5, <1>6, <1>7

(* A look at a node keeps the types.                                       *)
LEMMA LookTypeOK ==
  ASSUME TreeInv, LookAt, at' \in 0..Len(val), path' \in Seq(TreeNodes), queue' \in Seq(TreeNodes),
         tpc' \in {"look", "done"}
  PROVE  TreeTypeOK'
<1>1. TreeTypeOK /\ UNCHANGED <<val, left, right, height, root, call, arg>> /\ tpc = "look"
  BY DEF TreeInv, LookAt, fields
<1>2. TreeNodes' = TreeNodes /\ Len(val') = Len(val)
  BY <1>1 DEF TreeNodes
<1> QED BY <1>1, <1>2 DEF TreeTypeOK

(* searchAVL goes to the side on which the key can be.                     *)
LEMMA SearchAVLKeeps ==
  ASSUME TreeInv, LookAt, SearchAVL
  PROVE  TreeInv'
<1>1. PICK pos, lo, hi : TreeInvWith(pos, lo, hi)
  BY DEF TreeInv
<1>2. /\ TreeTypeOK /\ tpc = "look" /\ LookInv(pos, lo, hi) /\ InOrder(pos)
      /\ UNCHANGED <<val, left, right, height, root, call, arg>> /\ TreeNodes' = TreeNodes
  BY <1>1, LookFacts
<1>3. PICK n : /\ n \in Nat /\ n = Len(val) /\ TreeNodes = 1..n
               /\ Shape(n, left, right, root, pos, lo, hi)
               /\ left \in [1..n -> 0..n] /\ right \in [1..n -> 0..n]
               /\ at \in 0..n /\ path \in Seq(1..n) /\ queue \in Seq(1..n)
               /\ arg \in Int /\ \A u \in 1..n : val[u] \in Int
  BY <1>1, LookFacts
<1>4. call = "searchAVL" /\ path' = path /\ queue' = queue
  BY DEF SearchAVL
<1>5. \A u \in 1..n : val[u] = arg => at # 0 /\ In(pos, lo, hi, u, at)
  BY <1>2, <1>3, <1>4 DEF LookInv
<1>6. CASE (at # 0 => val[at] = arg) /\ tpc' = "done" /\ at' = at
  <2>1. at' \in 0..Len(val) /\ path' \in Seq(TreeNodes) /\ queue' \in Seq(TreeNodes)
    BY <1>3, <1>4, <1>6
  <2>2. TreeTypeOK'
    BY <1>6, <2>1, LookTypeOK
  <2>3. at = 0 => \A u \in 1..n : val[u] # arg
    BY <1>5
  <2>4. at # 0 => at \in 1..n /\ val[at] = arg
    BY <1>3, <1>6
  <2>5. NodeFound'
    BY <1>2, <1>3, <1>4, <1>6, <2>3, <2>4 DEF NodeFound, Null
  <2>6. LookInv(pos, lo, hi)'
    BY <1>6 DEF LookInv
  <2> QED BY <1>1, <1>2, <1>6, <2>2, <2>5, <2>6, LookKeeps
<1>7. CASE at # 0 /\ val[at] # arg /\ at' = Side(at) /\ tpc' = tpc
  <2>x. PICK x : x = at
    OBVIOUS
  <2>1. x \in 1..n /\ val[x] # arg
    BY <1>3, <1>7, <2>x
  <2>t. x \in 1..n
    BY <2>1
  <2>2. Side(x) \in 0..n
    BY <1>3, <2>1 DEF Side
  <2>3. TreeTypeOK'
    <3>1. at' \in 0..Len(val) /\ path' \in Seq(TreeNodes) /\ queue' \in Seq(TreeNodes)
      BY <1>3, <1>4, <1>7, <2>x, <2>2
    <3> QED BY <1>2, <1>7, <3>1, LookTypeOK
  <2>4. ASSUME NEW u \in 1..n, val[u] = arg
        PROVE  Side(x) # 0 /\ In(pos, lo, hi, u, Side(x))
    <3>1. In(pos, lo, hi, u, x) /\ u # x
      BY <1>5, <2>x, <2>1, <2>4
    <3>2. pos[u] # pos[x] /\ pos[u] \in Int /\ pos[x] \in Int
      BY <1>3, <2>t, <3>1, NodeFacts, PairFacts
    <3>3. (pos[u] < pos[x] => val[u] <= val[x]) /\ (pos[x] < pos[u] => val[x] <= val[u])
      BY <1>2, <1>3, <2>t DEF InOrder
    <3>4. val[x] \in Int /\ arg \in Int
      BY <1>3, <2>t
    <3>5. CASE arg < val[x]
      <4>1. pos[u] < pos[x]
        BY <2>4, <3>2, <3>3, <3>4, <3>5
      <4>2. lo[x] <= pos[u]
        BY <3>1 DEF In
      <4>3. left[x] # 0 /\ In(pos, lo, hi, u, left[x])
        BY <1>3, <2>t, <4>1, <4>2, InLeft
      <4> QED BY <3>5, <4>3 DEF Side
    <3>6. CASE ~(arg < val[x])
      <4>1. pos[x] < pos[u]
        BY <2>1, <2>4, <3>2, <3>3, <3>4, <3>6
      <4>2. pos[u] <= hi[x]
        BY <3>1 DEF In
      <4>3. right[x] # 0 /\ In(pos, lo, hi, u, right[x])
        BY <1>3, <2>t, <4>1, <4>2, InRight
      <4> QED BY <3>6, <4>3 DEF Side
    <3> QED BY <3>5, <3>6
  <2>5. LookInv(pos, lo, hi)'
    <3>1. at' = Side(x) /\ call' = "searchAVL"
      BY <1>2, <1>4, <1>7, <2>x
    <3> QED BY <1>2, <1>3, <2>4, <3>1 DEF LookInv
  <2> QED BY <1>1, <1>2, <1>7, <2>3, <2>5, LookKeeps
<1> QED BY <1>6, <1>7 DEF SearchAVL, Side, Null

(* DFS: what has not been looked at is below the node at hand or to the    *)
(* right of a call that waits.                                             *)
LEMMA TreeDFSKeeps ==
  ASSUME TreeInv, LookAt, TreeDFS
  PROVE  TreeInv'
<1>1. PICK pos, lo, hi : TreeInvWith(pos, lo, hi)
  BY DEF TreeInv
<1>2. /\ TreeTypeOK /\ tpc = "look" /\ LookInv(pos, lo, hi) /\ InOrder(pos)
      /\ UNCHANGED <<val, left, right, height, root, call, arg>> /\ TreeNodes' = TreeNodes
  BY <1>1, LookFacts
<1>3. PICK n : /\ n \in Nat /\ n = Len(val) /\ TreeNodes = 1..n
               /\ Shape(n, left, right, root, pos, lo, hi)
               /\ left \in [1..n -> 0..n] /\ right \in [1..n -> 0..n]
               /\ at \in 0..n /\ path \in Seq(1..n) /\ queue \in Seq(1..n)
               /\ arg \in Int /\ \A u \in 1..n : val[u] \in Int
  BY <1>1, LookFacts
<1>s. Shape(n, left, right, root, pos, lo, hi)
  BY <1>3
<1>4. call = "DFS" /\ queue' = queue /\ call' = "DFS"
  BY <1>2 DEF TreeDFS
<1>d. PICK x, m : x = at /\ m = Len(path)
  OBVIOUS
<1>5. /\ x \in 0..n /\ m \in Nat /\ \A i \in 1..m : path[i] \in 1..n
      /\ path = <<>> <=> m = 0
  BY <1>3, <1>d
<1>6. /\ \A i, j \in 1..m : i < j => hi[path[j]] < pos[path[i]] /\ lo[path[i]] <= lo[path[j]]
      /\ x # 0 => \A i \in 1..m : hi[x] < pos[path[i]] /\ lo[path[i]] <= lo[x]
      /\ \A u \in 1..n : val[u] = arg =>
           \/ x # 0 /\ In(pos, lo, hi, u, x)
           \/ \E i \in 1..m : pos[path[i]] < pos[u] /\ pos[u] <= hi[path[i]]
  BY <1>2, <1>3, <1>4, <1>d DEF LookInv, DFSOrder
<1>7. CASE x # 0 /\ val[x] = arg /\ tpc' = "done" /\ at' = at /\ path' = path
  <2>1. x \in 1..n
    BY <1>5, <1>7
  <2>2. TreeTypeOK'
    BY <1>3, <1>4, <1>7, LookTypeOK
  <2>3. ASSUME NEW u \in 1..n, val[u] = arg, u # x
        PROVE  Sooner(x, u)
    <3>1. /\ pos[x] \in Int /\ hi[x] \in Int /\ pos[u] \in Int /\ lo[u] \in Int /\ pos[x] <= hi[x]
      BY <1>3, <2>1, NodeFacts
    <3>2. \A t \in 1..n : \A v \in 1..n : v \in Under[t] <=> In(pos, lo, hi, v, t)
      <4>1. \A t \in 0..Len(val) : Under[t] = IF t = 0 THEN {} ELSE {v \in TreeNodes : In(pos, lo, hi, v, t)}
        BY <1>1, UnderFacts DEF TreeInvWith
      <4>2. \A t \in 1..n : t \in 0..Len(val) /\ t # 0
        BY <1>3
      <4> QED BY <1>3, <4>1, <4>2
    <3>3. CASE In(pos, lo, hi, u, x)
      BY <2>1, <3>2, <3>3 DEF Sooner
    <3>4. CASE ~In(pos, lo, hi, u, x)
      <4>1. PICK i \in 1..m : pos[path[i]] < pos[u] /\ pos[u] <= hi[path[i]]
        BY <1>6, <2>3, <3>4
      <4>2. PICK t : t = path[i] /\ t \in 1..n
        BY <1>5
      <4>3. t \in 1..n
        BY <4>2
      <4>4. pos[t] < pos[u] /\ pos[u] <= hi[t] /\ hi[x] < pos[t] /\ pos[t] \in Int
        <5>1. hi[x] < pos[path[i]]
          BY <1>6, <1>7
        <5>2. pos[t] \in Int
          BY <1>3, <4>3, NodeFacts
        <5> QED BY <4>1, <4>2, <5>1, <5>2
      <4>5. pos[x] < pos[u]
        BY <3>1, <4>4
      <4>6. LeftOf(x, u)
        BY <1>1, <1>3, <2>1, <4>5, LeftOfFacts DEF TreeInvWith
      <4>7. pos[t] < lo[u]
        <5>1. right[t] # 0 /\ In(pos, lo, hi, u, right[t])
          BY <1>3, <4>3, <4>4, InRight
        <5>2. right[t] \in 1..n /\ lo[right[t]] = pos[t] + 1
          BY <1>3, <4>3, <5>1, NodeFacts
        <5>3. right[t] \in 1..n
          BY <5>2
        <5>4. lo[right[t]] <= lo[u]
          BY <1>3, <5>1, <5>3, Nested
        <5> QED BY <3>1, <4>4, <5>2, <5>4
      <4>8. ~In(pos, lo, hi, x, u)
        BY <3>1, <4>4, <4>7 DEF In
      <4> QED BY <2>1, <3>2, <4>6, <4>8 DEF Sooner
    <3> QED BY <3>3, <3>4
  <2>4. NodeFound'
    <3>1. at' = x /\ x # 0 /\ x \in TreeNodes' /\ val'[x] = arg' /\ call' = "DFS"
      BY <1>2, <1>3, <1>4, <1>7, <1>d, <2>1
    <3>2. \A u \in 1..n : Sooner(x, u)' <=> Sooner(x, u)
      <4>1. Under' = Under
        BY <1>2 DEF Under
      <4> QED BY <1>2, <4>1 DEF Sooner, LeftOf
    <3>3. \A u \in TreeNodes' : val'[u] = arg' /\ u # x => Sooner(x, u)'
      BY <1>2, <1>3, <2>3, <3>2
    <3> QED BY <3>1, <3>3 DEF NodeFound, Null
  <2>5. LookInv(pos, lo, hi)'
    BY <1>7 DEF LookInv
  <2> QED BY <1>1, <1>2, <1>7, <2>2, <2>4, <2>5, LookKeeps
<1>8. CASE x # 0 /\ val[x] # arg /\ at' = left[x] /\ path' = Append(path, x) /\ tpc' = tpc
  <2>1. x \in 1..n
    BY <1>5, <1>8
  <2>2. /\ path' \in Seq(1..n) /\ Len(path') = m + 1 /\ path'[m + 1] = x
        /\ \A i \in 1..m : path'[i] = path[i]
    BY <1>3, <1>8, <1>d, <2>1, AppendProperties
  <2>3. TreeTypeOK'
    <3>1. at' \in 0..n
      BY <1>3, <1>8, <2>1
    <3> QED BY <1>2, <1>3, <1>4, <1>8, <2>2, <3>1, LookTypeOK
  <2>4. /\ pos[x] \in Int /\ hi[x] \in Int /\ lo[x] \in Int /\ pos[x] <= hi[x]
        /\ left[x] # 0 => lo[left[x]] = lo[x] /\ hi[left[x]] = pos[x] - 1
    BY <1>s, <2>1, NodeFacts
  <2>5. ASSUME NEW i \in 1..m
        PROVE  /\ path'[i] \in 1..n /\ pos[path'[i]] \in Int
               /\ hi[x] < pos[path'[i]] /\ lo[path'[i]] <= lo[x]
    <3>1. path[i] \in 1..n
      BY <1>5
    <3>2. pos[path[i]] \in Int
      BY <1>3, <3>1, NodeFacts
    <3>3. hi[x] < pos[path[i]] /\ lo[path[i]] <= lo[x]
      BY <1>6, <1>8
    <3> QED BY <2>2, <3>1, <3>2, <3>3
  <2>6. \A i \in 1..(m + 1) : i = m + 1 \/ i \in 1..m
    BY <1>5
  <2>7. ASSUME NEW i \in 1..(m + 1), NEW j \in 1..(m + 1), i < j
        PROVE  hi[path'[j]] < pos[path'[i]] /\ lo[path'[i]] <= lo[path'[j]]
    <3>1. i \in 1..m
      BY <1>5, <2>7
    <3>2. CASE j = m + 1
      BY <2>2, <2>5, <3>1, <3>2
    <3>3. CASE j \in 1..m
      BY <1>6, <2>2, <2>7, <3>1, <3>3
    <3> QED BY <2>6, <3>2, <3>3
  <2>8. ASSUME left[x] # 0, NEW i \in 1..(m + 1)
        PROVE  hi[left[x]] < pos[path'[i]] /\ lo[path'[i]] <= lo[left[x]]
    <3>1. CASE i = m + 1
      BY <2>2, <2>4, <2>8, <3>1
    <3>2. CASE i \in 1..m
      BY <2>4, <2>5, <2>8, <3>2
    <3> QED BY <2>6, <3>1, <3>2
  <2>9. DFSOrder(pos, lo, hi)'
    BY <1>8, <2>2, <2>7, <2>8 DEF DFSOrder
  <2>10. ASSUME NEW u \in 1..n, val[u] = arg
         PROVE  \/ left[x] # 0 /\ In(pos, lo, hi, u, left[x])
                \/ \E i \in 1..(m + 1) : pos[path'[i]] < pos[u] /\ pos[u] <= hi[path'[i]]
    <3>1. CASE In(pos, lo, hi, u, x)
      <4>1. u # x
        BY <1>8, <2>10
      <4>2. pos[u] \in Int /\ pos[u] # pos[x]
        BY <1>3, <2>1, <4>1, NodeFacts, PairFacts
      <4>3. lo[x] <= pos[u] /\ pos[u] <= hi[x]
        BY <3>1 DEF In
      <4>4. CASE pos[u] < pos[x]
        BY <1>3, <2>1, <4>3, <4>4, InLeft
      <4>5. CASE pos[x] < pos[u]
        <5>1. m + 1 \in 1..(m + 1)
          BY <1>5
        <5> QED BY <2>2, <4>3, <4>5, <5>1
      <4> QED BY <2>4, <4>2, <4>4, <4>5
    <3>2. CASE ~In(pos, lo, hi, u, x)
      <4>1. PICK i \in 1..m : pos[path[i]] < pos[u] /\ pos[u] <= hi[path[i]]
        BY <1>6, <2>10, <3>2
      <4>2. i \in 1..(m + 1) /\ path'[i] = path[i]
        BY <1>5, <2>2
      <4> QED BY <4>1, <4>2
    <3> QED BY <3>1, <3>2
  <2>11. LookInv(pos, lo, hi)'
    BY <1>2, <1>3, <1>4, <1>8, <2>2, <2>9, <2>10 DEF LookInv
  <2> QED BY <1>1, <1>2, <1>8, <2>3, <2>11, LookKeeps
<1>9. CASE x = 0 /\ m # 0 /\ at' = right[Innermost] /\ path' = SubSeq(path, 1, m - 1) /\ tpc' = tpc
  <2>t. PICK t : t = path[m]
    OBVIOUS
  <2>1. m \in 1..m /\ t \in 1..n /\ t = Innermost
    BY <1>5, <1>9, <1>d, <2>t DEF Innermost
  <2>x. t \in 1..n
    BY <2>1
  <2>2. /\ path' \in Seq(1..n) /\ Len(path') = m - 1
        /\ \A i \in 1..(m - 1) : path'[i] = path[i] /\ i \in 1..m /\ i < m
    <3>1. m >= 1
      BY <1>5, <1>9
    <3> QED BY <1>3, <1>9, <1>d, <3>1, FrontOfPath
  <2>3. TreeTypeOK'
    <3>1. at' \in 0..n
      BY <1>3, <1>9, <2>1
    <3> QED BY <1>2, <1>3, <1>4, <1>9, <2>2, <3>1, LookTypeOK
  <2>4. /\ pos[t] \in Int /\ hi[t] \in Int /\ lo[t] \in Int /\ lo[t] <= pos[t]
        /\ right[t] # 0 => lo[right[t]] = pos[t] + 1 /\ hi[right[t]] = hi[t]
    BY <1>3, <2>x, NodeFacts
  <2>5. \A i, j \in 1..(m - 1) : i < j => hi[path'[j]] < pos[path'[i]] /\ lo[path'[i]] <= lo[path'[j]]
    BY <1>6, <2>2
  <2>6. ASSUME right[t] # 0, NEW i \in 1..(m - 1)
        PROVE  hi[right[t]] < pos[path'[i]] /\ lo[path'[i]] <= lo[right[t]]
    <3>1. i \in 1..m /\ i < m /\ path'[i] = path[i]
      BY <2>2
    <3>2. hi[t] < pos[path[i]] /\ lo[path[i]] <= lo[t]
      BY <1>6, <2>t, <2>1, <3>1
    <3>3. path[i] \in 1..n
      BY <1>5, <3>1
    <3>4. lo[path[i]] \in Int
      BY <1>3, <3>3, NodeFacts
    <3> QED BY <2>4, <2>6, <3>1, <3>2, <3>4
  <2>7. DFSOrder(pos, lo, hi)'
    BY <1>2, <1>9, <2>1, <2>2, <2>5, <2>6 DEF DFSOrder
  <2>8. ASSUME NEW u \in 1..n, val[u] = arg
         PROVE  \/ right[t] # 0 /\ In(pos, lo, hi, u, right[t])
                \/ \E i \in 1..(m - 1) : pos[path'[i]] < pos[u] /\ pos[u] <= hi[path'[i]]
    <3>1. PICK i \in 1..m : pos[path[i]] < pos[u] /\ pos[u] <= hi[path[i]]
      BY <1>6, <1>9, <2>8
    <3>2. CASE i = m
      <4>1. pos[t] < pos[u] /\ pos[u] <= hi[t]
        BY <2>t, <3>1, <3>2
      <4>2. right[t] # 0 /\ In(pos, lo, hi, u, right[t])
        BY <1>s, <2>x, <4>1, InRight
      <4> QED BY <4>2
    <3>3. CASE i # m
      <4>1. i \in 1..(m - 1)
        BY <1>5, <3>3
      <4> QED BY <2>2, <3>1, <4>1
    <3> QED BY <3>2, <3>3
  <2>9. LookInv(pos, lo, hi)'
    <3>1. at' = right[t] /\ Len(path') = m - 1 /\ TreeNodes' = 1..n /\ val' = val /\ arg' = arg
      BY <1>2, <1>3, <1>9, <2>1, <2>2
    <3>2. \A u \in TreeNodes' : val'[u] = arg' =>
            \/ at' # 0 /\ In(pos, lo, hi, u, at')
            \/ \E i \in 1..Len(path') : pos[path'[i]] < pos[u] /\ pos[u] <= hi[path'[i]]
      BY <2>8, <3>1
    <3> QED BY <1>4, <2>7, <3>2 DEF LookInv
  <2> QED BY <1>1, <1>2, <1>9, <2>3, <2>9, LookKeeps
<1>10. CASE x = 0 /\ m = 0 /\ tpc' = "done" /\ at' = at /\ path' = path
  <2>1. \A u \in 1..n : val[u] # arg
    BY <1>6, <1>10
  <2>2. TreeTypeOK'
    BY <1>3, <1>4, <1>10, LookTypeOK
  <2>3. NodeFound'
    BY <1>2, <1>3, <1>10, <1>d, <2>1 DEF NodeFound, Null
  <2>4. LookInv(pos, lo, hi)'
    BY <1>10 DEF LookInv
  <2> QED BY <1>1, <1>2, <1>10, <2>2, <2>3, <2>4, LookKeeps
<1> QED BY <1>5, <1>7, <1>8, <1>9, <1>10, <1>d DEF TreeDFS, Null

(* A child, or none, as a sequence.                                        *)
LEMMA ChildIsSeq ==
  ASSUME NEW S, NEW a, a # 0 => a \in S
  PROVE  /\ Child(a) \in Seq(S) /\ Len(Child(a)) = (IF a = 0 THEN 0 ELSE 1)
         /\ \A i \in 1..Len(Child(a)) : Child(a)[i] = a
<1>1. CASE a = 0
  <2>1. Child(a) = <<>>
    BY <1>1 DEF Child, Null
  <2>2. <<>> \in Seq(S) /\ Len(<<>>) = 0
    BY EmptySeq
  <2>3. Child(a) \in Seq(S) /\ Len(Child(a)) = 0
    BY <2>1, <2>2
  <2> QED BY <1>1, <2>3
<1>2. CASE a # 0
  <2>1. Child(a) = <<a>> /\ a \in S
    BY <1>2 DEF Child, Null
  <2>2. <<a>> \in Seq(S) /\ Len(<<a>>) = 1 /\ <<a>>[1] = a
    BY <2>1
  <2> QED BY <1>2, <2>1, <2>2
<1> QED BY <1>1, <1>2

(* The first of the queue q makes way for its children a and b.            *)
Fetched(q, a, b, q2) ==
  LET k == Len(q)
      c == IF a = 0 THEN 0 ELSE 1
      d == IF b = 0 THEN 0 ELSE 1
  IN  /\ Len(q2) = (k - 1) + c + d
      /\ \A i \in 1..(k - 1) : q2[i] = q[i + 1]
      /\ a # 0 => q2[k] = a
      /\ b # 0 => q2[k + c] = b

(* The queue after the first was taken and its children were put at the    *)
(* end.                                                                    *)
LEMMA FetchedFacts ==
  ASSUME NEW S, NEW q \in Seq(S), q # <<>>, NEW a, a # 0 => a \in S, NEW b, b # 0 => b \in S
  PROVE  /\ Tail(q) \o Child(a) \o Child(b) \in Seq(S)
         /\ Fetched(q, a, b, Tail(q) \o Child(a) \o Child(b))
<1>k. PICK k : k = Len(q)
  OBVIOUS
<1>1. k \in Nat /\ k >= 1
  BY <1>k
<1>2. PICK t : t = Tail(q)
  OBVIOUS
<1>3. t \in Seq(S) /\ Len(t) = k - 1 /\ \A i \in 1..(k - 1) : t[i] = q[i + 1]
  BY <1>k, <1>2, HeadTailProperties
<1>4. PICK ca, cb : ca = Child(a) /\ cb = Child(b)
  OBVIOUS
<1>5. ca \in Seq(S) /\ Len(ca) = (IF a = 0 THEN 0 ELSE 1) /\ \A i \in 1..Len(ca) : ca[i] = a
  BY <1>4, ChildIsSeq
<1>6. cb \in Seq(S) /\ Len(cb) = (IF b = 0 THEN 0 ELSE 1) /\ \A i \in 1..Len(cb) : cb[i] = b
  BY <1>4, ChildIsSeq
<1>7. PICK c, d : c = (IF a = 0 THEN 0 ELSE 1) /\ d = (IF b = 0 THEN 0 ELSE 1)
  OBVIOUS
<1>8. c \in 0..1 /\ d \in 0..1 /\ (a # 0 => c = 1) /\ (b # 0 => d = 1) /\ Len(ca) = c /\ Len(cb) = d
  BY <1>5, <1>6, <1>7
<1>9. PICK s : s = t \o ca
  OBVIOUS
<1>10. /\ s \in Seq(S) /\ Len(s) = (k - 1) + c
       /\ \A i \in 1..((k - 1) + c) : s[i] = IF i <= k - 1 THEN t[i] ELSE ca[i - (k - 1)]
  <2>1. /\ t \o ca \in Seq(S) /\ Len(t \o ca) = Len(t) + Len(ca)
        /\ \A i \in 1..(Len(t) + Len(ca)) : (t \o ca)[i] = IF i <= Len(t) THEN t[i] ELSE ca[i - Len(t)]
    BY <1>3, <1>5, ConcatProperties
  <2>2. Len(t) = k - 1 /\ Len(ca) = c
    BY <1>3, <1>8
  <2> QED BY <1>9, <2>1, <2>2
<1>11. PICK z : z = s \o cb
  OBVIOUS
<1>12. /\ z \in Seq(S) /\ Len(z) = ((k - 1) + c) + d
       /\ \A i \in 1..(((k - 1) + c) + d) : z[i] = IF i <= (k - 1) + c THEN s[i] ELSE cb[i - ((k - 1) + c)]
  <2>1. /\ s \o cb \in Seq(S) /\ Len(s \o cb) = Len(s) + Len(cb)
        /\ \A i \in 1..(Len(s) + Len(cb)) : (s \o cb)[i] = IF i <= Len(s) THEN s[i] ELSE cb[i - Len(s)]
    BY <1>6, <1>10, ConcatProperties
  <2>2. Len(s) = (k - 1) + c /\ Len(cb) = d
    BY <1>8, <1>10
  <2> QED BY <1>11, <2>1, <2>2
<1>13. \A i \in 1..(k - 1) : z[i] = q[i + 1]
  <2> SUFFICES ASSUME NEW i \in 1..(k - 1) PROVE z[i] = q[i + 1]
    OBVIOUS
  <2>1. i \in 1..((k - 1) + c) /\ i \in 1..(((k - 1) + c) + d) /\ i <= (k - 1) + c /\ i <= k - 1
    BY <1>1, <1>8
  <2>2. z[i] = s[i]
    BY <1>12, <2>1
  <2>3. s[i] = t[i]
    BY <1>10, <2>1
  <2> QED BY <1>3, <2>2, <2>3
<1>14. a # 0 => z[k] = a
  <2> SUFFICES ASSUME a # 0 PROVE z[k] = a
    OBVIOUS
  <2>1. k \in 1..((k - 1) + c) /\ k \in 1..(((k - 1) + c) + d) /\ k <= (k - 1) + c /\ ~(k <= k - 1) /\ k - (k - 1) = 1
    BY <1>1, <1>8
  <2>2. z[k] = s[k]
    BY <1>12, <2>1
  <2>3. s[k] = ca[1]
    BY <1>10, <2>1
  <2>4. 1 \in 1..Len(ca)
    BY <1>8
  <2> QED BY <1>5, <2>2, <2>3, <2>4
<1>15. b # 0 => z[k + c] = b
  <2> SUFFICES ASSUME b # 0 PROVE z[k + c] = b
    OBVIOUS
  <2>1. k + c \in 1..(((k - 1) + c) + d) /\ ~(k + c <= (k - 1) + c) /\ (k + c) - ((k - 1) + c) = 1
    BY <1>1, <1>8
  <2>2. z[k + c] = cb[1]
    BY <1>12, <2>1
  <2>3. 1 \in 1..Len(cb)
    BY <1>8
  <2> QED BY <1>6, <2>2, <2>3
<1>16. Fetched(q, a, b, z)
  BY <1>k, <1>7, <1>12, <1>13, <1>14, <1>15 DEF Fetched
<1> QED BY <1>2, <1>4, <1>9, <1>11, <1>12, <1>16

(* What stands where in the queue then.                                    *)
LEMMA FetchedPlaces ==
  ASSUME NEW q, NEW a, NEW b, NEW q2, Fetched(q, a, b, q2), Len(q) \in Nat, Len(q) >= 1, NEW k, k = Len(q)
  PROVE  /\ \A j \in 1..Len(q2) : \/ j \in 1..(k - 1) /\ q2[j] = q[j + 1]
                                  \/ j = k /\ a # 0 /\ q2[j] = a
                                  \/ j >= k /\ b # 0 /\ q2[j] = b /\ (a # 0 => j > k) /\ j = Len(q2)
         /\ \A i \in 1..k : i # 1 => i - 1 \in 1..Len(q2) /\ q2[i - 1] = q[i]
         /\ a # 0 => \E j \in 1..Len(q2) : q2[j] = a
         /\ b # 0 => \E j \in 1..Len(q2) : q2[j] = b
<1>1. PICK c, d : c = (IF a = 0 THEN 0 ELSE 1) /\ d = (IF b = 0 THEN 0 ELSE 1)
  OBVIOUS
<1>2. /\ c \in 0..1 /\ d \in 0..1 /\ (a # 0 <=> c = 1) /\ (b # 0 <=> d = 1) /\ k \in Nat /\ k >= 1
  BY <1>1
<1>3. /\ Len(q2) = (k - 1) + c + d
      /\ \A i \in 1..(k - 1) : q2[i] = q[i + 1]
      /\ a # 0 => q2[k] = a
      /\ b # 0 => q2[k + c] = b
  BY <1>1 DEF Fetched
<1>4. PICK m : m = Len(q2)
  OBVIOUS
<1>5. ASSUME NEW j \in 1..m
      PROVE  \/ j \in 1..(k - 1) /\ q2[j] = q[j + 1]
             \/ j = k /\ a # 0 /\ q2[j] = a
             \/ j >= k /\ b # 0 /\ q2[j] = b /\ (a # 0 => j > k) /\ j = m
  <2>1. m = (k - 1) + c + d
    BY <1>3, <1>4
  <2>2. \/ j \in 1..(k - 1) \/ (j = k /\ c = 1) \/ (j = k + c /\ d = 1 /\ j = m)
    BY <1>2, <2>1
  <2>3. CASE j \in 1..(k - 1)
    BY <1>3, <2>3
  <2>4. CASE j = k /\ c = 1
    BY <1>2, <1>3, <2>4
  <2>5. CASE j = k + c /\ d = 1 /\ j = m
    BY <1>2, <1>3, <2>5
  <2> QED BY <2>2, <2>3, <2>4, <2>5
<1>6. ASSUME NEW i \in 1..k, i # 1
      PROVE  i - 1 \in 1..m /\ q2[i - 1] = q[i]
  <2>1. i - 1 \in 1..(k - 1) /\ i - 1 \in 1..m /\ (i - 1) + 1 = i
    BY <1>2, <1>3, <1>4, <1>6
  <2> QED BY <1>3, <2>1
<1>7. ASSUME a # 0 PROVE \E j \in 1..m : q2[j] = a
  <2>1. k \in 1..m
    BY <1>2, <1>3, <1>4, <1>7
  <2> QED BY <1>3, <1>7, <2>1
<1>8. ASSUME b # 0 PROVE \E j \in 1..m : q2[j] = b
  <2>1. k + c \in 1..m
    BY <1>2, <1>3, <1>4, <1>8
  <2> QED BY <1>3, <1>8, <2>1
<1> QED BY <1>4, <1>5, <1>6, <1>7, <1>8

(* Of two nodes in the queue of BFS, u before v.                           *)
Queued(n, pos, lo, hi, u, v) ==
  LET m == Depth(n, pos, lo, hi, u)
      k == Depth(n, pos, lo, hi, v)
  IN  \/ m = k /\ hi[u] < lo[v]
      \/ k = m + 1 /\ hi[v] < lo[u]

(* A child of the first comes after those that wait.                       *)
LEMMA ChildIsLast ==
  ASSUME NEW n, NEW l, NEW r, NEW top, NEW pos, NEW lo, NEW hi,
         Shape(n, l, r, top, pos, lo, hi), NEW t \in 1..n, NEW v \in 1..n,
         Queued(n, pos, lo, hi, t, v), NEW c \in {l[t], r[t]}, c # 0
  PROVE  Queued(n, pos, lo, hi, v, c)
<1>1. c \in 1..n /\ lo[t] <= lo[c] /\ hi[c] <= hi[t]
  BY ChildFacts
<1>c. c \in 1..n
  BY <1>1
<1>2. Depth(n, pos, lo, hi, c) = Depth(n, pos, lo, hi, t) + 1
  BY ChildIsNext
<1>3. n \in Nat
  BY DEF Shape
<1>4. Depth(n, pos, lo, hi, t) \in Nat /\ Depth(n, pos, lo, hi, v) \in Nat
  BY <1>3, BranchFacts
<1>5. /\ lo[t] \in Int /\ hi[t] \in Int /\ lo[v] \in Int /\ hi[v] \in Int
      /\ lo[c] \in Int /\ hi[c] \in Int
  BY <1>c, NodeFacts
<1> QED BY <1>1, <1>2, <1>4, <1>5 DEF Queued

(* The left child comes before the right one.                              *)
LEMMA SiblingsQueued ==
  ASSUME NEW n, NEW l, NEW r, NEW top, NEW pos, NEW lo, NEW hi,
         Shape(n, l, r, top, pos, lo, hi), NEW t \in 1..n, l[t] # 0, r[t] # 0
  PROVE  Queued(n, pos, lo, hi, l[t], r[t])
<1>1. Depth(n, pos, lo, hi, l[t]) = Depth(n, pos, lo, hi, t) + 1
  BY ChildIsNext
<1>2. Depth(n, pos, lo, hi, r[t]) = Depth(n, pos, lo, hi, t) + 1
  BY ChildIsNext
<1>3. hi[l[t]] = pos[t] - 1 /\ lo[r[t]] = pos[t] + 1 /\ pos[t] \in Int
  BY NodeFacts
<1> QED BY <1>1, <1>2, <1>3 DEF Queued

(* What lies below the first, and below any after it, comes later.         *)
LEMMA FirstIsAbove ==
  ASSUME NEW pos, NEW lo, NEW hi, Shape(Len(val), left, right, root, pos, lo, hi),
         NEW t \in TreeNodes, NEW u \in TreeNodes, u # t, NEW q \in TreeNodes,
         In(pos, lo, hi, u, q), q = t \/ Queued(Len(val), pos, lo, hi, t, q)
  PROVE  Above(t, u)
<1>n. PICK n : n = Len(val)
  OBVIOUS
<1>1. /\ Shape(n, left, right, root, pos, lo, hi) /\ t \in 1..n /\ u \in 1..n /\ q \in 1..n
  BY <1>n DEF TreeNodes
<1>t. t \in 1..n
  BY <1>1
<1>u. u \in 1..n
  BY <1>1
<1>q. q \in 1..n
  BY <1>1
<1>2. n \in Nat
  BY <1>1 DEF Shape
<1>3. /\ Depth(n, pos, lo, hi, t) \in Nat /\ Depth(n, pos, lo, hi, u) \in Nat
      /\ Depth(n, pos, lo, hi, q) \in Nat
  BY <1>2, BranchFacts
<1>4. /\ Depth(n, pos, lo, hi, q) <= Depth(n, pos, lo, hi, u)
      /\ u # q => Depth(n, pos, lo, hi, q) < Depth(n, pos, lo, hi, u)
  BY <1>1, <1>u, <1>q, BelowIsDeeper
<1>5. /\ pos[t] \in Int /\ hi[t] \in Int /\ pos[t] <= hi[t] /\ lo[q] \in Int /\ pos[u] \in Int
  BY <1>1, <1>t, <1>u, <1>q, NodeFacts
<1>6. lo[q] <= pos[u]
  BY DEF In
<1>7. \/ Depth(n, pos, lo, hi, t) < Depth(n, pos, lo, hi, u)
      \/ Depth(n, pos, lo, hi, t) = Depth(n, pos, lo, hi, u) /\ pos[t] < pos[u]
  <2>1. CASE q = t
    BY <1>4, <2>1
  <2>2. CASE Queued(n, pos, lo, hi, t, q)
    <3>1. CASE Depth(n, pos, lo, hi, t) = Depth(n, pos, lo, hi, q) /\ hi[t] < lo[q]
      BY <1>3, <1>4, <1>5, <1>6, <3>1
    <3>2. CASE Depth(n, pos, lo, hi, q) = Depth(n, pos, lo, hi, t) + 1
      BY <1>3, <1>4, <3>2
    <3> QED BY <2>2, <3>1, <3>2 DEF Queued
  <2> QED BY <1>n, <2>1, <2>2
<1> QED BY <1>n, <1>7, AboveFacts

(* BFS: what has not been looked at is below a node of the queue, which is *)
(* in the order of the levels.                                             *)
LEMMA TreeBFSKeeps ==
  ASSUME TreeInv, LookAt, TreeBFS
  PROVE  TreeInv'
<1>1. PICK pos, lo, hi : TreeInvWith(pos, lo, hi)
  BY DEF TreeInv
<1>2. /\ TreeTypeOK /\ tpc = "look" /\ LookInv(pos, lo, hi) /\ InOrder(pos)
      /\ UNCHANGED <<val, left, right, height, root, call, arg>> /\ TreeNodes' = TreeNodes
  BY <1>1, LookFacts
<1>3. PICK n : /\ n \in Nat /\ n = Len(val) /\ TreeNodes = 1..n
               /\ Shape(n, left, right, root, pos, lo, hi)
               /\ left \in [1..n -> 0..n] /\ right \in [1..n -> 0..n]
               /\ at \in 0..n /\ path \in Seq(1..n) /\ queue \in Seq(1..n)
               /\ arg \in Int /\ \A u \in 1..n : val[u] \in Int
  BY <1>1, LookFacts
<1>s. Shape(n, left, right, root, pos, lo, hi)
  BY <1>3
<1>4. call = "BFS" /\ path' = path /\ call' = "BFS"
  BY <1>2 DEF TreeBFS
<1>k. PICK k : k = Len(queue)
  OBVIOUS
<1>5. k \in Nat /\ (\A i \in 1..k : queue[i] \in 1..n) /\ (queue = <<>> <=> k = 0)
  BY <1>3, <1>k
<1>6. /\ \A i, j \in 1..k : i < j => Queued(n, pos, lo, hi, queue[i], queue[j])
      /\ \A u \in 1..n : val[u] = arg => \E i \in 1..k : In(pos, lo, hi, u, queue[i])
  BY <1>2, <1>3, <1>4, <1>k DEF LookInv, BFSOrder, Queued
<1>7. CASE k = 0 /\ at' = 0 /\ tpc' = "done" /\ queue' = queue
  <2>1. \A u \in 1..n : val[u] # arg
    BY <1>6, <1>7
  <2>2. TreeTypeOK'
    <3>1. at' \in 0..n
      BY <1>3, <1>7
    <3> QED BY <1>3, <1>4, <1>7, <3>1, LookTypeOK
  <2>3. NodeFound'
    BY <1>2, <1>3, <1>7, <2>1 DEF NodeFound, Null
  <2>4. LookInv(pos, lo, hi)'
    BY <1>7 DEF LookInv
  <2> QED BY <1>1, <1>2, <1>7, <2>2, <2>3, <2>4, LookKeeps
<1>t. PICK t : t = queue[1]
  OBVIOUS
<1>8. ASSUME k # 0
      PROVE  /\ t \in 1..n /\ t = Head(queue) /\ Tail(queue) \in Seq(1..n) /\ 1 \in 1..k /\ k >= 1
             /\ queue # <<>>
             /\ \A i \in 1..k : i = 1 \/ Queued(n, pos, lo, hi, t, queue[i])
  <2>1. queue # <<>> /\ 1 \in 1..k /\ k >= 1
    BY <1>5, <1>8
  <2>2. t \in 1..n /\ t = Head(queue) /\ Tail(queue) \in Seq(1..n)
    BY <1>3, <1>5, <1>t, <2>1
  <2>3. \A i \in 1..k : i = 1 \/ 1 < i
    BY <1>5
  <2> QED BY <1>6, <1>t, <2>1, <2>2, <2>3
<1>9. CASE k # 0 /\ at' = t /\ val[t] = arg /\ tpc' = "done" /\ queue' = Tail(queue)
  <2>1. t \in 1..n
    BY <1>8, <1>9
  <2>2. TreeTypeOK'
    <3>1. at' \in 0..n
      BY <1>3, <1>9, <2>1
    <3> QED BY <1>3, <1>4, <1>8, <1>9, <3>1, LookTypeOK
  <2>3. ASSUME NEW u \in 1..n, val[u] = arg, u # t
        PROVE  Above(t, u)
    <3>1. PICK i \in 1..k : In(pos, lo, hi, u, queue[i])
      BY <1>6, <2>3
    <3>2. PICK q : q = queue[i]
      OBVIOUS
    <3>3. q \in TreeNodes /\ u \in TreeNodes /\ t \in TreeNodes /\ Len(val) = n
      BY <1>3, <1>5, <2>1, <3>2
    <3>4. In(pos, lo, hi, u, q) /\ (q = t \/ Queued(n, pos, lo, hi, t, q))
      BY <1>8, <1>9, <1>t, <3>1, <3>2
    <3> QED BY <1>s, <2>3, <3>3, <3>4, FirstIsAbove
  <2>4. NodeFound'
    <3>1. at' = t /\ t # 0 /\ t \in TreeNodes' /\ val'[t] = arg' /\ call' = "BFS"
      BY <1>2, <1>3, <1>4, <1>9, <2>1
    <3>2. \A u \in 1..n : Above(t, u)' <=> Above(t, u)
      <4>1. Under' = Under
        BY <1>2 DEF Under
      <4> QED BY <1>2, <4>1 DEF Above, Ancestors, LeftOf
    <3>3. \A u \in TreeNodes' : val'[u] = arg' /\ u # t => Above(t, u)'
      BY <1>2, <1>3, <2>3, <3>2
    <3> QED BY <3>1, <3>3 DEF NodeFound, Null
  <2>5. LookInv(pos, lo, hi)'
    BY <1>9 DEF LookInv
  <2> QED BY <1>1, <1>2, <1>9, <2>2, <2>4, <2>5, LookKeeps
<1>10. CASE /\ k # 0 /\ at' = t /\ val[t] # arg /\ tpc' = tpc
            /\ queue' = Tail(queue) \o Child(left[t]) \o Child(right[t])
  <2>1. t \in 1..n
    BY <1>8, <1>10
  <2>a. PICK a, b : a = left[t] /\ b = right[t]
    OBVIOUS
  <2>2. (a # 0 => a \in 1..n) /\ (b # 0 => b \in 1..n)
    <3>1. left[t] \in 0..n /\ right[t] \in 0..n
      BY <1>3, <2>1
    <3>2. \A c \in 0..n : c # 0 => c \in 1..n
      OBVIOUS
    <3> QED BY <2>a, <3>1, <3>2
  <2>3. queue' \in Seq(1..n) /\ Fetched(queue, a, b, queue')
    BY <1>3, <1>8, <1>10, <2>a, <2>2, FetchedFacts
  <2>m. PICK m, q2 : m = Len(queue') /\ q2 = queue'
    OBVIOUS
  <2>4. /\ \A j \in 1..m : \/ j \in 1..(k - 1) /\ q2[j] = queue[j + 1]
                           \/ j = k /\ a # 0 /\ q2[j] = a
                           \/ j >= k /\ b # 0 /\ q2[j] = b /\ (a # 0 => j > k) /\ j = m
        /\ \A i \in 1..k : i # 1 => i - 1 \in 1..m /\ q2[i - 1] = queue[i]
        /\ a # 0 => \E j \in 1..m : q2[j] = a
        /\ b # 0 => \E j \in 1..m : q2[j] = b
    <3>1. Fetched(queue, a, b, q2) /\ Len(queue) \in Nat /\ Len(queue) >= 1 /\ m = Len(q2)
      BY <1>5, <1>8, <1>10, <1>k, <2>3, <2>m
    <3> QED BY <1>k, <3>1, FetchedPlaces
  <2>5. TreeTypeOK'
    <3>1. at' \in 0..n
      BY <1>3, <1>10, <2>1
    <3> QED BY <1>2, <1>3, <1>4, <1>10, <2>3, <3>1, LookTypeOK
  <2>6. ASSUME NEW v \in 1..n, Queued(n, pos, lo, hi, t, v), NEW c \in {a, b}, c # 0
        PROVE  Queued(n, pos, lo, hi, v, c)
    BY <1>s, <2>1, <2>a, <2>6, ChildIsLast
  <2>7. ASSUME NEW i \in 1..m, NEW j \in 1..m, i < j
        PROVE  Queued(n, pos, lo, hi, q2[i], q2[j])
    <3>1. CASE i \in 1..(k - 1)
      <4>1. /\ i + 1 \in 1..k /\ i + 1 # 1 /\ q2[i] = queue[i + 1]
        <5>1. i + 1 \in 1..k /\ i + 1 # 1 /\ (i + 1) - 1 = i
          BY <1>5, <3>1
        <5> QED BY <2>4, <5>1
      <4>2. Queued(n, pos, lo, hi, t, q2[i]) /\ q2[i] \in 1..n
        BY <1>5, <1>8, <1>10, <4>1
      <4>3. CASE j \in 1..(k - 1)
        <5>1. j + 1 \in 1..k /\ j + 1 # 1 /\ (j + 1) - 1 = j /\ i + 1 < j + 1
          BY <1>5, <2>7, <4>3
        <5>2. q2[j] = queue[j + 1]
          BY <2>4, <5>1
        <5>3. Queued(n, pos, lo, hi, queue[i + 1], queue[j + 1])
          BY <1>6, <4>1, <5>1
        <5> QED BY <4>1, <5>2, <5>3
      <4>4. CASE ~(j \in 1..(k - 1))
        <5>1. q2[j] \in {a, b} /\ q2[j] # 0
          BY <2>4, <4>4
        <5> QED BY <2>6, <4>2, <5>1
      <4> QED BY <4>3, <4>4
    <3>2. CASE ~(i \in 1..(k - 1))
      <4>1. i >= k /\ j > k /\ ~(j \in 1..(k - 1)) /\ j # k
        BY <1>5, <2>7, <3>2
      <4>2. q2[j] = b /\ b # 0 /\ j = m
        BY <2>4, <4>1
      <4>3. i # m
        BY <2>7, <4>2
      <4>4. q2[i] = a /\ a # 0
        BY <2>4, <3>2, <4>3
      <4>5. Queued(n, pos, lo, hi, left[t], right[t])
        BY <1>s, <2>1, <2>a, <4>2, <4>4, SiblingsQueued
      <4> QED BY <2>a, <4>2, <4>4, <4>5
    <3> QED BY <3>1, <3>2
  <2>8. BFSOrder(pos, lo, hi)'
    BY <1>2, <1>3, <2>m, <2>7 DEF BFSOrder, Queued
  <2>9. ASSUME NEW u \in 1..n, val[u] = arg
        PROVE  \E i \in 1..m : In(pos, lo, hi, u, q2[i])
    <3>1. PICK i \in 1..k : In(pos, lo, hi, u, queue[i])
      BY <1>6, <2>9
    <3>2. CASE i # 1
      BY <2>4, <3>1, <3>2
    <3>3. CASE i = 1
      <4>1. In(pos, lo, hi, u, t) /\ u # t
        BY <1>10, <1>t, <2>9, <3>1, <3>3
      <4>2. (a # 0 /\ In(pos, lo, hi, u, a)) \/ (b # 0 /\ In(pos, lo, hi, u, b))
        BY <1>s, <2>1, <2>a, <4>1, InParts
      <4> QED BY <2>4, <4>2
    <3> QED BY <3>2, <3>3
  <2>10. LookInv(pos, lo, hi)'
    BY <1>2, <1>3, <1>4, <2>m, <2>8, <2>9 DEF LookInv
  <2> QED BY <1>1, <1>2, <1>10, <2>5, <2>10, LookKeeps
<1>11. \/ k = 0 /\ at' = 0 /\ tpc' = "done" /\ queue' = queue
       \/ k # 0 /\ at' = t /\ val[t] = arg /\ tpc' = "done" /\ queue' = Tail(queue)
       \/ /\ k # 0 /\ at' = t /\ val[t] # arg /\ tpc' = tpc
          /\ queue' = Tail(queue) \o Child(left[t]) \o Child(right[t])
  <2>1. CASE queue = <<>> /\ at' = Null /\ tpc' = "done" /\ UNCHANGED queue
    BY <1>5, <2>1 DEF Null
  <2>2. CASE queue # <<>>
    <3>1. k # 0 /\ t = Head(queue)
      BY <1>5, <1>8, <2>2
    <3> QED BY <2>2, <3>1 DEF TreeBFS
  <2> QED BY <2>1, <2>2 DEF TreeBFS
<1> QED BY <1>7, <1>9, <1>10, <1>11

-----------------------------------------------------------------------------
(* What the trees promise.                                                 *)

(* The empty tree.                                                         *)
LEMMA TreeStarts ==
  ASSUME TreeInit
  PROVE  TreeInv
<1>1. /\ val = <<>> /\ left = <<>> /\ right = <<>> /\ height = <<>> /\ root = 0 /\ call = "none"
      /\ tpc = "idle" /\ arg = 0 /\ at = 0 /\ path = <<>> /\ queue = <<>>
  BY DEF TreeInit, Null
<1>2. Len(val) = 0 /\ TreeNodes = {} /\ 1..0 = {}
  BY <1>1 DEF TreeNodes
<1>3. ASSUME NEW S
      PROVE  <<>> \in Seq(S) /\ <<>> \in [1..0 -> S]
  <2>1. <<>> \in Seq(S) /\ Len(<<>>) = 0
    BY EmptySeq
  <2>2. <<>> \in [1..Len(<<>>) -> S]
    BY <2>1, LenProperties
  <2> QED BY <2>1, <2>2
<1>4. TreeTypeOK
  <2>1. val \in Seq(Int) /\ path \in Seq(TreeNodes) /\ queue \in Seq(TreeNodes)
    BY <1>1, <1>3
  <2>2. TreeNodes = 1..0
    BY <1>2
  <2>3. left \in [TreeNodes -> 0..Len(val)] /\ right \in [TreeNodes -> 0..Len(val)] /\ height \in [TreeNodes -> Nat]
    BY <1>1, <1>3, <2>2
  <2> QED BY <1>1, <1>2, <2>1, <2>3 DEF TreeTypeOK
<1>5. RotateInv /\ HeightInv /\ BalanceInv
  <2>1. Unlevel
    BY <1>1 DEF Unlevel
  <2> QED BY <1>1, <1>2, <2>1 DEF RotateInv, HeightInv, BalanceInv
<1>6. PICK e : e = <<>>
  OBVIOUS
<1>7. Shape(Len(val), left, right, root, e, e, e)
  <2>1. Ranges(0, e, e, e)
    BY <1>2, <1>3, <1>6 DEF Ranges
  <2>2. Linked(0, left, right, e, e, e)
    BY <1>1, <1>2, <1>3, <1>6 DEF Linked
  <2>3. Rooted(0, root, e, e, e)
    BY <1>1, <1>2 DEF Rooted
  <2> QED BY <1>2, <2>1, <2>2, <2>3 DEF Shape
<1>8. InOrder(e) /\ PathInv(e, e, e) /\ LookInv(e, e, e)
  BY <1>1, <1>2 DEF InOrder, PathInv, LookInv, Inserting, Rotations
<1>9. TreeInvWith(e, e, e)
  BY <1>7, <1>8 DEF TreeInvWith
<1> QED BY <1>1, <1>4, <1>5, <1>9 DEF TreeInv

(* A step of something else.                                               *)
LEMMA TreeStutters ==
  ASSUME TreeInv, UNCHANGED treevars
  PROVE  TreeInv'
<1>1. UNCHANGED <<val, left, right, height, root, call, tpc, arg, at, path, queue>>
  BY DEF treevars, fields
<1>2. TreeNodes' = TreeNodes /\ Innermost' = Innermost /\ Caller' = Caller
  BY <1>1 DEF TreeNodes, Innermost, Caller
<1>3. TreeTypeOK' /\ RotateInv'
  BY <1>1, <1>2 DEF TreeInv, TreeTypeOK, RotateInv
<1>4. HeightInv'
  <2>1. Behind' = Behind
    BY <1>1, <1>2 DEF Behind
  <2> QED BY <1>1, <1>2, <2>1 DEF TreeInv, HeightInv, IsMeasured, Measured, GetHeight
<1>5. BalanceInv'
  <2>1. Turning' = Turning
    BY <1>1, <1>2 DEF Turning
  <2>2. ASSUME NEW t PROVE Grown(t)' = Grown(t)
    <3>1. Side(t)' = Side(t) /\ OtherSide(t)' = OtherSide(t)
      BY <1>1 DEF Side, OtherSide
    <3> QED BY <1>1, <3>1 DEF Grown, Leans, Since
  <2>3. ASSUME NEW t, NEW k PROVE Since(t, k)' = Since(t, k)
    BY <1>1 DEF Since, OtherSide
  <2>4. (DistinctKeys' <=> DistinctKeys) /\ (Unlevel' <=> Unlevel)
    BY <1>1, <1>2, <2>2, <2>3 DEF DistinctKeys, Unlevel, Since, OtherSide, Grown, Side, Leans
  <2> QED BY <1>1, <1>2, <2>1, <2>4 DEF TreeInv, BalanceInv
<1>6. tpc' = "done" => NodeFound'
  <2>1. Under' = Under
    BY <1>1 DEF Under
  <2>2. \A u, v : LeftOf(u, v)' = LeftOf(u, v)
    BY <1>1, <1>2, <2>1 DEF LeftOf
  <2>3. \A u, v : Above(u, v)' = Above(u, v) /\ Sooner(u, v)' = Sooner(u, v)
    BY <1>1, <1>2, <2>1, <2>2 DEF Above, Sooner, Ancestors, LeftOf
  <2> QED BY <1>1, <1>2, <2>3 DEF TreeInv, NodeFound
<1>7. PICK pos, lo, hi : TreeInvWith(pos, lo, hi)
  BY DEF TreeInv
<1>8. TreeInvWith(pos, lo, hi)'
  <2>1. Shape(Len(val), left, right, root, pos, lo, hi)' /\ InOrder(pos)'
    BY <1>1, <1>2, <1>7 DEF TreeInvWith, InOrder
  <2>2. PathInv(pos, lo, hi)'
    BY <1>1, <1>2, <1>7
    DEF TreeInvWith, PathInv, OnBranch, Entering, Leaving, Belongs, Side, Inserting, Rotations
  <2>3. LookInv(pos, lo, hi)'
    BY <1>1, <1>2, <1>7 DEF TreeInvWith, LookInv, BFSOrder, DFSOrder
  <2> QED BY <2>1, <2>2, <2>3 DEF TreeInvWith
<1> QED BY <1>3, <1>4, <1>5, <1>6, <1>8 DEF TreeInv

(* Every step of the trees keeps the invariant.                            *)
LEMMA TreeStays ==
  ASSUME TreeInv, [TreeNext]_treevars
  PROVE  TreeInv'
<1>1. ASSUME NEW key \in TreeKeys, InsertAVL(key) PROVE TreeInv'
  BY <1>1, InsertAVLKeeps
<1>2. ASSUME NEW search \in Searches, NEW target \in TreeKeys, Find(search, target) PROVE TreeInv'
  BY <1>2, FindKeeps
<1>3. CASE Enter
  BY <1>3, EnterKeeps
<1>4. CASE Allocate
  BY <1>4, AllocateKeeps
<1>5. CASE Leave
  BY <1>5, LeaveKeeps
<1>6. CASE Rotate
  <2>1. UNCHANGED <<call, arg, at, queue>>
    BY <1>6 DEF Rotate
  <2>2. CASE LeftRotate
    BY <2>1, <2>2, LeftRotateKeeps
  <2>3. CASE RightRotate
    BY <2>1, <2>3, RightRotateKeeps
  <2>4. CASE LeftRightRotate
    BY <2>1, <2>4, LeftRightRotateKeeps
  <2>5. CASE RightLeftRotate
    BY <2>1, <2>5, RightLeftRotateKeeps
  <2> QED BY <1>6, <2>2, <2>3, <2>4, <2>5 DEF Rotate
<1>7. CASE LookAt
  <2>1. CASE SearchAVL
    BY <1>7, <2>1, SearchAVLKeeps
  <2>2. CASE TreeBFS
    BY <1>7, <2>2, TreeBFSKeeps
  <2>3. CASE TreeDFS
    BY <1>7, <2>3, TreeDFSKeeps
  <2> QED BY <1>7, <2>1, <2>2, <2>3 DEF LookAt
<1>8. CASE UNCHANGED treevars
  BY <1>8, TreeStutters
<1> QED BY <1>1, <1>2, <1>3, <1>4, <1>5, <1>6, <1>7, <1>8 DEF TreeNext, TreeStep

(* The invariant gives what the trees promise between two calls.           *)
LEMMA TreeIsKept ==
  ASSUME TreeInv
  PROVE  TreeKept
<1>1. PICK pos, lo, hi : TreeInvWith(pos, lo, hi)
  BY DEF TreeInv
<1>2. PICK n : n = Len(val)
  OBVIOUS
<1>3. /\ TreeTypeOK /\ HeightInv /\ BalanceInv /\ InOrder(pos)
      /\ Shape(n, left, right, root, pos, lo, hi)
  BY <1>1, <1>2 DEF TreeInv, TreeInvWith
<1>s. Shape(n, left, right, root, pos, lo, hi)
  BY <1>3
<1>4. /\ n \in Nat /\ root \in 0..n /\ (root = 0 => n = 0) /\ TreeNodes = 1..n
      /\ left \in [1..n -> 0..n] /\ right \in [1..n -> 0..n]
  BY <1>2, <1>3 DEF Shape, Rooted, Linked, TreeNodes
<1>5. \A t \in 0..n : Under[t] = IF t = 0 THEN {} ELSE {u \in 1..n : In(pos, lo, hi, u, t)}
  <2>1. Shape(Len(val), left, right, root, pos, lo, hi)
    BY <1>2, <1>3
  <2>2. \A t \in 0..Len(val) :
          Under[t] = IF t = 0 THEN {} ELSE {u \in TreeNodes : In(pos, lo, hi, u, t)}
    BY <2>1, UnderFacts
  <2> QED BY <1>2, <1>4, <2>2
<1>6. tpc = "crashed" => ~DistinctKeys
  BY <1>3 DEF BalanceInv
<1>7. Under[root] = TreeNodes
  <2>1. CASE root = 0
    BY <1>4, <1>5, <2>1
  <2>2. CASE root # 0
    <3>1. \A u \in 1..n : In(pos, lo, hi, u, root)
      BY <1>s, NodeFacts DEF In
    <3> QED BY <1>4, <1>5, <2>2, <3>1
  <2> QED BY <2>1, <2>2
<1>8. ASSUME NEW t \in 1..n
      PROVE  /\ t \notin Under[left[t]] \union Under[right[t]]
             /\ Under[left[t]] \intersect Under[right[t]] = {}
             /\ \A u \in Under[left[t]] : val[u] <= val[t]
             /\ \A u \in Under[right[t]] : val[t] <= val[u]
  <2>1. left[t] \in 0..n /\ right[t] \in 0..n
    BY <1>4
  <2>2. /\ Under[left[t]] = IF left[t] = 0 THEN {} ELSE {u \in 1..n : In(pos, lo, hi, u, left[t])}
        /\ Under[right[t]] = IF right[t] = 0 THEN {} ELSE {u \in 1..n : In(pos, lo, hi, u, right[t])}
    BY <1>5, <2>1
  <2>3. pos[t] \in Int
    BY <1>s, NodeFacts
  <2>4. ASSUME NEW u \in Under[left[t]]
        PROVE  u \in 1..n /\ pos[u] < pos[t] /\ pos[u] \in Int
    <3>1. left[t] # 0 /\ u \in 1..n /\ In(pos, lo, hi, u, left[t])
      BY <2>2
    <3>2. u \in 1..n
      BY <3>1
    <3>3. pos[u] < pos[t]
      BY <1>s, <3>1, <3>2, InLeft
    <3> QED BY <1>s, <3>2, <3>3, NodeFacts
  <2>5. ASSUME NEW u \in Under[right[t]]
        PROVE  u \in 1..n /\ pos[t] < pos[u] /\ pos[u] \in Int
    <3>1. right[t] # 0 /\ u \in 1..n /\ In(pos, lo, hi, u, right[t])
      BY <2>2
    <3>2. u \in 1..n
      BY <3>1
    <3>3. pos[t] < pos[u]
      BY <1>s, <3>1, <3>2, InRight
    <3> QED BY <1>s, <3>2, <3>3, NodeFacts
  <2>6. t \notin Under[left[t]] \union Under[right[t]]
    BY <2>3, <2>4, <2>5
  <2>7. Under[left[t]] \intersect Under[right[t]] = {}
    <3> SUFFICES ASSUME NEW u, u \in Under[left[t]], u \in Under[right[t]] PROVE FALSE
      OBVIOUS
    <3> QED BY <2>3, <2>4, <2>5
  <2>8. \A u \in Under[left[t]] : val[u] <= val[t]
    BY <1>3, <1>4, <2>4 DEF InOrder
  <2>9. \A u \in Under[right[t]] : val[t] <= val[u]
    BY <1>3, <1>4, <2>5 DEF InOrder
  <2> QED BY <2>6, <2>7, <2>8, <2>9
<1>9. ASSUME tpc = "idle", NEW t \in 1..n
      PROVE  /\ height[t] = TrueHeight[t]
             /\ DistinctKeys => GetBalanceFactor(t) \in -1..1
  <2>1. Behind = {} /\ Turning = {}
    BY <1>9 DEF Behind, Turning, Rotations
  <2>2. \A u \in TreeNodes : height[u] = Measured(left[u], right[u])
    BY <1>3, <2>1 DEF HeightInv, IsMeasured
  <2>3. height[t] = TrueHeight[t]
    BY <1>2, <1>3, <1>4, <2>2, TrueHeightFacts
  <2>4. DistinctKeys => Level(height, left, right, t)
    BY <1>3, <1>4, <2>1 DEF BalanceInv
  <2> QED BY <2>3, <2>4 DEF Level, Hgt, GetBalanceFactor, GetHeight, Null
<1> QED BY <1>4, <1>6, <1>7, <1>8, <1>9 DEF TreeKept

(* Trees: between two calls the nodes are one tree in order with true      *)
(* heights, balanced while no key was inserted twice; no rotation follows  *)
(* a null child then; and a search finds the node it is to find.           *)
THEOREM TreesAreSound == TreeSpec => []TreesSound
<1>1. TreeInit => TreeInv
  BY TreeStarts
<1>2. TreeInv /\ [TreeNext]_treevars => TreeInv'
  BY TreeStays
<1>3. TreeInv => TreesSound
  <2> SUFFICES ASSUME TreeInv PROVE TreesSound
    OBVIOUS
  <2>1. TreeKept
    BY TreeIsKept
  <2>2. NodeFound
    BY DEF TreeInv, NodeFound
  <2> QED BY <2>1, <2>2 DEF TreesSound
<1> QED BY <1>1, <1>2, <1>3, PTL DEF TreeSpec
=============================================================================
