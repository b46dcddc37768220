--------------------------- MODULE ConnectionPool ---------------------------
(***************************************************************************)
(* MySQLConnectionPool (test_libgo/DesignPattern/src): one pool per        *)
(* process, created by the first getInstance() under double-checked        *)
(* locking, and database connections lent out of it under a second mutex.  *)
(*                                                                         *)
(* getConnection and releaseConnection hold poolMutex_ from start to end   *)
(* and never wait inside it: one step each.  getInstance is split where    *)
(* another thread can see a difference.  Its look at instance_ outside the *)
(* mutex is a data race; a pointer is read whole and stores are seen in    *)
(* the order of the program, as an x86 build has it.                       *)
(***************************************************************************)
EXTENDS Naturals, Sequences, FiniteSets

CONSTANTS
  Clients,    \* threads that use the pool
  PoolSize,   \* poolSize, from the configuration file
  NoClient

ASSUME PoolAssumption == PoolSize \in Nat /\ NoClient \notin Clients

VARIABLES
  instance,  \* instance_: the pool made by this client, or NoClient
  imutex,    \* the holder of instanceMutex_, or NoClient
  pools,     \* the pool objects, by the client that made them
  cpc,       \* where each client is
  ptr,       \* the pointer getInstance gave each client, or NoClient
  held,      \* the connections each client has
  lost,      \* connections a client failed with: nobody has them any more
  exited     \* std::exit has been called

pvars == <<instance, imutex, pools, cpc, ptr, held, lost, exited>>

(* The connections a pool opens.                                           *)
Connections(c) == {c} \X (1..PoolSize)
NoPool == [conns |-> <<>>, free |-> 0]
Idle(c) == {pools[c].conns[i] : i \in DOMAIN pools[c].conns}

PInit ==
  /\ instance = NoClient /\ imutex = NoClient
  /\ pools = [c \in Clients |-> NoPool]
  /\ cpc = [c \in Clients |-> "start"]
  /\ ptr = [c \in Clients |-> NoClient]
  /\ held = [c \in Clients |-> {}]
  /\ lost = {}
  /\ exited = FALSE

Goto(c, from, to) == cpc[c] = from /\ cpc' = [cpc EXCEPT ![c] = to]

-----------------------------------------------------------------------------
(* getInstance                                                             *)

FirstLook(c) ==
  /\ Goto(c, "start", IF instance = NoClient THEN "lock" ELSE "get")
  /\ UNCHANGED <<instance, imutex, pools, ptr, held, lost, exited>>

Lock(c) ==
  /\ imutex = NoClient
  /\ Goto(c, "lock", "look")
  /\ imutex' = c
  /\ UNCHANGED <<instance, pools, ptr, held, lost, exited>>

(* Mutant: no second look, the pool is created.                            *)
NoSecondLook(c) ==
  /\ Goto(c, "look", "build")
  /\ UNCHANGED <<instance, imutex, pools, ptr, held, lost, exited>>

SecondLook(c) ==
  /\ Goto(c, "look", IF instance = NoClient THEN "build" ELSE "unlock")
  /\ UNCHANGED <<instance, imutex, pools, ptr, held, lost, exited>>

(* One turn of initPool's loop.                                            *)
Connect(c) ==
  /\ Goto(c, "build", "build")
  /\ Len(pools[c].conns) < PoolSize
  /\ pools' = [pools EXCEPT ![c].conns = Append(@, <<c, Len(@) + 1>>)]
  /\ UNCHANGED <<instance, imutex, ptr, held, lost, exited>>

(* The file or the database is not as it should be: the constructor ends   *)
(* the process.                                                            *)
BuildFails(c) ==
  /\ Goto(c, "build", "ended")
  /\ exited' = TRUE
  /\ UNCHANGED <<instance, imutex, pools, ptr, held, lost>>

(* Mutant: instance_ is set before the pool is filled.                     *)
PublishEarly(c) ==
  /\ Goto(c, "build", "unlock")
  /\ pools' = [pools EXCEPT ![c].free = PoolSize]
  /\ instance' = c
  /\ UNCHANGED <<imutex, ptr, held, lost, exited>>

(* freeConnections = poolSize; instance_.reset(...).                       *)
Publish(c) ==
  /\ Goto(c, "build", "unlock")
  /\ Len(pools[c].conns) = PoolSize
  /\ pools' = [pools EXCEPT ![c].free = PoolSize]
  /\ instance' = c
  /\ UNCHANGED <<imutex, ptr, held, lost, exited>>

Unlock(c) ==
  /\ Goto(c, "unlock", "get")
  /\ imutex' = NoClient
  /\ UNCHANGED <<instance, pools, ptr, held, lost, exited>>

(* return instance_.get().                                                 *)
GetInstance(c) ==
  /\ Goto(c, "get", "have")
  /\ ptr' = [ptr EXCEPT ![c] = instance]
  /\ UNCHANGED <<instance, imutex, pools, held, lost, exited>>

-----------------------------------------------------------------------------
(* getConnection, releaseConnection                                        *)

ButLast(s) == SubSeq(s, 1, Len(s) - 1)

GetConnection(c) ==
  /\ Goto(c, "have", "busy")
  /\ LET pool == pools[ptr[c]] IN
       /\ pool.conns # <<>>
       /\ held' = [held EXCEPT ![c] = {pool.conns[Len(pool.conns)]}]
       /\ pools' = [pools EXCEPT ![ptr[c]] =
                      [conns |-> ButLast(pool.conns), free |-> pool.free - 1]]
  /\ UNCHANGED <<instance, imutex, ptr, lost, exited>>

(* An empty pool throws: the caller has nothing, and may ask again.        *)
GetThrows(c) ==
  /\ Goto(c, "have", "start")
  /\ pools[ptr[c]].conns = <<>>
  /\ UNCHANGED <<instance, imutex, pools, ptr, held, lost, exited>>

ReleaseConnection(c) ==
  /\ Goto(c, "busy", "start")
  /\ \E conn \in held[c] :
       pools' = [pools EXCEPT ![ptr[c]] =
                   [conns |-> Append(@.conns, conn), free |-> @.free + 1]]
  /\ held' = [held EXCEPT ![c] = {}]
  /\ UNCHANGED <<instance, imutex, ptr, lost, exited>>

(* A statement fails: the exception passes releaseConnection by.           *)
UseThrows(c) ==
  /\ Goto(c, "busy", "start")
  /\ lost' = lost \union held[c]
  /\ held' = [held EXCEPT ![c] = {}]
  /\ UNCHANGED <<instance, imutex, pools, ptr, exited>>

-----------------------------------------------------------------------------
Creating(c) ==
  \/ FirstLook(c) \/ Lock(c) \/ SecondLook(c)
  \/ Connect(c) \/ BuildFails(c) \/ Publish(c)
  \/ Unlock(c) \/ GetInstance(c)

Using(c) ==
  \/ GetConnection(c) \/ GetThrows(c)
  \/ ReleaseConnection(c) \/ UseThrows(c)

PNext == ~exited /\ \E c \in Clients : Creating(c) \/ Using(c)

PSpec == PInit /\ [][PNext]_pvars

-----------------------------------------------------------------------------
(* The variables keep to the values the code can give them.                *)
PTypeOK ==
  /\ instance \in Clients \union {NoClient}
  /\ imutex \in Clients \union {NoClient}
  /\ pools \in [Clients -> [conns : Seq(Clients \X (1..PoolSize)), free : Nat]]
  /\ cpc \in [Clients -> {"start", "lock", "look", "build", "unlock", "get",
                          "have", "busy", "ended"}]
  /\ ptr \in [Clients -> Clients \union {NoClient}]
  /\ held \in [Clients -> SUBSET (Clients \X (1..PoolSize))]
  /\ lost \subseteq Clients \X (1..PoolSize)
  /\ exited \in BOOLEAN

(* However the first calls of getInstance race, all clients work on one    *)
(* pool, and it is complete before any of them can see it.                 *)
OneInstance ==
  \A c \in Clients :
    cpc[c] \in {"have", "busy"} =>
      /\ ptr[c] = instance /\ instance # NoClient
      /\ \A d \in Clients \ {instance} : pools[d] = NoPool

(* Every connection of the pool is at one place: idle in it, with one      *)
(* client, or lost with a client that failed; and freeConnections counts   *)
(* the idle ones.                                                          *)
Accounted(c) ==
  /\ pools[c].free = Len(pools[c].conns)
  /\ \A i, j \in DOMAIN pools[c].conns :
       pools[c].conns[i] = pools[c].conns[j] => i = j
  /\ Idle(c) \union lost \union UNION {held[d] : d \in Clients} = Connections(c)
  /\ \A d \in Clients :
       /\ held[d] \intersect (Idle(c) \union lost) = {}
       /\ \A e \in Clients \ {d} : held[d] \intersect held[e] = {}
  /\ Idle(c) \intersect lost = {}

PoolConserved == instance # NoClient => Accounted(instance)
=============================================================================
