------------------------------- MODULE Factory -------------------------------
(***************************************************************************)
(* GSGridStoreFactory (client.cpp): the settings of the factory, and the   *)
(* channels that the stores of one cluster, user and database share.  The  *)
(* calls of the factory hold its mutex; while they apply settings to a     *)
(* channel, other threads execute statements over it, and the resolver of  *)
(* the channel, under a mutex of its own, makes room in the pool for the   *)
(* addresses of a partition it learns.  Only                               *)
(* setPreferableConnectionPoolSize holds the mutex of neither the resolver *)
(* nor the channel.                                                        *)
(***************************************************************************)
EXTENDS Integers

CONSTANTS
  Thread, NoThread,
  Key,               \* the keys of channels
  SocketTypesOf,     \* what the transport properties of a key allow
  Timeout,           \* values of the time-outs; the least is the default
  Size,              \* values of maxConnectionPoolSize
  DEFAULT_MAX_SIZE,
  MaxAddresses       \* bound on the addresses a resolver knows

ASSUME FactoryAssumption ==
  /\ NoThread \notin Thread /\ Key # {}
  /\ Timeout \subseteq Nat /\ 0 \in Timeout
  /\ Size \subseteq Nat
  /\ DEFAULT_MAX_SIZE \in Nat /\ MaxAddresses \in Nat

VARIABLES
  owner,             \* the thread that holds the mutex of the factory
  config,            \* channelConfig_
  channelMap,        \* the keys of the channels
  channelConfig,     \* GridStoreChannel::config_ of each channel
  resolver,          \* its resolver: connectionConfig_,
                     \* preferableConnectionPoolSize_, cachedAddressSet_
  resolverMutex,     \* the thread that holds its mutex
  maxSize,           \* the maximum of its pool
  remaining,         \* the channels still to apply the settings to
  pc, at, size,      \* each thread: where it is, in which channel, and the
                     \* size it has found for the pool
  unapplied,         \* history: a call has failed after it changed config
  created,           \* history: the channels never applied to
  raced,             \* history: the channels where two threads have updated
                     \* the size of the pool at a time, and those that have
  short              \* learned the address of a master since the last update

channels == <<channelMap, channelConfig>>
threads == <<pc, at, size>>
history == <<unapplied, created, raced, short>>
vars == <<owner, config, channels, resolver, resolverMutex, maxSize, remaining,
          threads, history>>

(* Where a thread is while it does nothing. *)
AnyKey == CHOOSE k \in Key : TRUE

Unset == -1
Illegal == -2
NoSockets == "none"

(* The settings: the time-outs of NodeConnection::Config with the sockets a *)
(* connection may use, the time-outs of a channel, and the size of a pool.  *)
DefaultConfig ==
  [connection |-> [timeouts |-> 0, sockets |-> NoSockets],
   failover |-> 0, poolSize |-> Unset]

Init ==
  /\ owner = NoThread /\ config = DefaultConfig
  /\ channelMap = {} /\ channelConfig = [k \in Key |-> DefaultConfig]
  /\ resolver = [k \in Key |-> [connection |-> DefaultConfig.connection,
                                preferable |-> DEFAULT_MAX_SIZE, addresses |-> 0]]
  /\ resolverMutex = [k \in Key |-> NoThread]
  /\ maxSize = [k \in Key |-> DEFAULT_MAX_SIZE]
  /\ remaining = {}
  /\ pc = [t \in Thread |-> "idle"]
  /\ at = [t \in Thread |-> AnyKey] /\ size = [t \in Thread |-> 0]
  /\ unapplied = FALSE /\ created = {} /\ raced = {} /\ short = {}

-----------------------------------------------------------------------------
Goto(t, where) == pc' = [pc EXCEPT ![t] = where]

Larger(m, n) == IF m > n THEN m ELSE n

(* Mutant: the sockets come with the time-outs. *)
WithSockets(old, new) == new

(* NodeConnection::Config::set without the configuration of the sockets. *)
SetConnection(old, new) == [new EXCEPT !.sockets = old.sockets]

(* GridStoreChannel::Config::set, with its mutex. *)
SetChannel(old, new) ==
  [new EXCEPT !.connection = SetConnection(old.connection, new.connection)]

(* Config::create, with the sockets the key allows. *)
Create(k) == [config EXCEPT !.connection.sockets = SocketTypesOf[k]]

(* GridStoreChannel's constructor.  The pool keeps its default size. *)
NewChannel(t, k) ==
  /\ k \notin channelMap
  /\ channelMap' = channelMap \cup {k}
  /\ channelConfig' = [channelConfig EXCEPT ![k] = Create(k)]
  /\ resolver' = [resolver EXCEPT ![k].connection = Create(k).connection]
  /\ created' = created \cup {k}
  /\ UNCHANGED <<owner, remaining, pc>>

ApplyTo(t, keys) ==
  /\ owner' = t /\ remaining' = keys
  /\ Goto(t, "apply")

(* The channel of the key is created, or the settings are applied to it. *)
GetGridStore(t, k) ==
  /\ owner = NoThread /\ pc[t] = "idle"
  /\ \/ NewChannel(t, k)
     \/ /\ k \in channelMap
        /\ ApplyTo(t, {k})
        /\ UNCHANGED <<channels, resolver, created>>
  /\ UNCHANGED <<config, resolverMutex, maxSize, at, size, unapplied, raced, short>>

-----------------------------------------------------------------------------
Updated(p) ==
  \/ p.connection # config.connection.timeouts
  \/ p.failover # config.failover
  \/ p.poolSize \in Nat

(* A time-out that is not given is the one that is set.  Of the three       *)
(* values, an illegal size is found last, after the others have been taken. *)
Properties == [connection : Timeout, failover : Timeout, poolSize : Size \cup {Unset, Illegal}]

ConfigSet(p) ==
  [config EXCEPT !.connection.timeouts = p.connection, !.failover = p.failover,
                 !.poolSize = IF p.poolSize \in Nat THEN p.poolSize ELSE config.poolSize]

SetProperties(t, p) ==
  /\ owner = NoThread /\ pc[t] = "idle"
  /\ config' = ConfigSet(p)
  /\ \/ /\ p.poolSize = Illegal
        /\ unapplied' = (unapplied \/ config' # config)
        /\ UNCHANGED <<owner, remaining, pc>>
     \/ /\ p.poolSize # Illegal /\ Updated(p) /\ channelMap # {}
        /\ ApplyTo(t, channelMap)
        /\ unapplied' = FALSE
     \/ /\ p.poolSize # Illegal /\ ~ (Updated(p) /\ channelMap # {})
        /\ unapplied' = (unapplied /\ ~ Updated(p))
        /\ UNCHANGED <<owner, remaining, pc>>
  /\ UNCHANGED <<channels, resolver, resolverMutex, maxSize, at, size, created,
                 raced, short>>

-----------------------------------------------------------------------------
(* GridStoreChannel::apply, of one channel. *)

(* setConnectionConfig and setNotificationReceiveTimeoutMillis: each waits *)
(* for the mutex of the resolver.                                          *)
SetConnectionConfig(t, k) ==
  /\ pc[t] = "apply" /\ k \in remaining
  /\ resolverMutex[k] = NoThread
  /\ resolver' = [resolver EXCEPT
       ![k].connection = SetConnection(@, config.connection)]
  /\ at' = [at EXCEPT ![t] = k]
  /\ Goto(t, "prefer")
  /\ UNCHANGED <<owner, config, channels, resolverMutex, maxSize, remaining, size, history>>

(* The threads that are updating the size of the pool of a channel. *)
Updating(k) == {t \in Thread : pc[t] \in {"compute", "resize"} /\ at[t] = k}

Begin(t, k) ==
  raced' = IF Updating(k) = {} THEN raced \ {k} ELSE raced \cup {k}

SetPreferableConnectionPoolSize(t) ==
  LET k == at[t] IN
  /\ pc[t] = "prefer"
  /\ \/ /\ config.poolSize >= 0 /\ config.poolSize # resolver[k].preferable
        /\ resolver' = [resolver EXCEPT ![k].preferable = config.poolSize]
        /\ Begin(t, k)
        /\ Goto(t, "compute")
     \/ /\ config.poolSize < 0 \/ config.poolSize = resolver[k].preferable
        /\ Goto(t, "config")
        /\ UNCHANGED <<resolver, raced>>
  /\ UNCHANGED <<owner, config, channels, resolverMutex, maxSize, remaining,
                 at, size, unapplied, created, short>>

(* Mutant: the addresses that are known need no room. *)
PreferableSize(k) == resolver[k].preferable

PoolSize(k) == Larger(resolver[k].preferable, resolver[k].addresses)

(* updateConnectionPoolSize: the two values are read, and the pool is set. *)
UpdateConnectionPoolSize(t) ==
  /\ pc[t] = "compute"
  /\ size' = [size EXCEPT ![t] = PoolSize(at[t])]
  /\ short' = short \ {at[t]}
  /\ Goto(t, "resize")
  /\ UNCHANGED <<owner, config, channels, resolver, resolverMutex, maxSize,
                 remaining, at, unapplied, created, raced>>

SetMaxSize(t) ==
  LET k == at[t] IN
  /\ pc[t] = "resize"
  /\ maxSize' = [maxSize EXCEPT ![k] = size[t]]
  /\ size' = [size EXCEPT ![t] = 0]
  /\ \/ /\ owner = t
        /\ Goto(t, "config")
        /\ UNCHANGED <<resolverMutex, at>>
     \/ /\ resolverMutex[k] = t
        /\ resolverMutex' = [resolverMutex EXCEPT ![k] = NoThread]
        /\ Goto(t, "idle")
        /\ at' = [at EXCEPT ![t] = AnyKey]
  /\ UNCHANGED <<owner, config, channels, resolver, remaining, history>>

(* The settings of the channel itself are the last.  The next channel      *)
(* follows, or the call returns.                                           *)
SetConfig(t) ==
  LET k == at[t] IN
  /\ pc[t] = "config"
  /\ channelConfig' = [channelConfig EXCEPT ![k] = SetChannel(@, config)]
  /\ remaining' = remaining \ {k}
  /\ created' = created \ {k}
  /\ at' = [at EXCEPT ![t] = AnyKey]
  /\ IF remaining' = {}
     THEN owner' = NoThread /\ Goto(t, "idle")
     ELSE Goto(t, "apply") /\ UNCHANGED owner
  /\ UNCHANGED <<config, channelMap, resolver, resolverMutex, maxSize, size,
                 unapplied, raced, short>>

-----------------------------------------------------------------------------
(* A statement of another thread: the resolver learns of an address of a   *)
(* partition, or forgets them all with its master.  It holds its mutex     *)
(* until the pool has its size.                                            *)
Addresses(k) ==
  {0} \cup (IF resolver[k].addresses < MaxAddresses THEN {resolver[k].addresses + 1} ELSE {})

Resolve(t, k) ==
  /\ pc[t] = "idle" /\ k \in channelMap /\ resolverMutex[k] = NoThread
  /\ resolverMutex' = [resolverMutex EXCEPT ![k] = t]
  /\ \E n \in Addresses(k) : resolver' = [resolver EXCEPT ![k].addresses = n]
  /\ at' = [at EXCEPT ![t] = k]
  /\ Begin(t, k)
  /\ Goto(t, "compute")
  /\ UNCHANGED <<owner, config, channels, maxSize, remaining, size, unapplied,
                 created, short>>

(* The address of the master is learned as well, and the pool stays as it is. *)
LearnMaster(t, k) ==
  /\ pc[t] = "idle" /\ k \in channelMap /\ resolverMutex[k] = NoThread
  /\ resolver[k].addresses < MaxAddresses
  /\ resolver' = [resolver EXCEPT ![k].addresses = @ + 1]
  /\ short' = short \cup {k}
  /\ UNCHANGED <<owner, config, channels, resolverMutex, maxSize, remaining, threads,
                 unapplied, created, raced>>

-----------------------------------------------------------------------------
ThreadStep(t) ==
  \/ \E k \in Key : \/ GetGridStore(t, k) \/ SetConnectionConfig(t, k)
                    \/ Resolve(t, k) \/ LearnMaster(t, k)
  \/ \E p \in Properties : SetProperties(t, p)
  \/ SetPreferableConnectionPoolSize(t)
  \/ UpdateConnectionPoolSize(t) \/ SetMaxSize(t) \/ SetConfig(t)

Next == \E t \in Thread : ThreadStep(t)

Spec == Init /\ [][Next]_vars

-----------------------------------------------------------------------------
Connections == [timeouts : Timeout, sockets : {NoSockets} \cup {SocketTypesOf[k] : k \in Key}]
Configs == [connection : Connections, failover : Timeout, poolSize : Size \cup {Unset}]

TypeOK ==
  /\ owner \in Thread \cup {NoThread} /\ config \in Configs
  /\ channelMap \subseteq Key /\ channelConfig \in [Key -> Configs]
  /\ resolver \in [Key -> [connection : Connections, preferable : Nat,
                           addresses : 0 .. MaxAddresses]]
  /\ resolverMutex \in [Key -> Thread \cup {NoThread}]
  /\ maxSize \in [Key -> Nat] /\ remaining \subseteq channelMap
  /\ pc \in [Thread -> {"idle", "apply", "prefer", "compute", "resize", "config"}]
  /\ at \in [Thread -> Key] /\ size \in [Thread -> Nat]
  /\ unapplied \in BOOLEAN /\ created \subseteq channelMap /\ raced \subseteq channelMap
  /\ short \subseteq channelMap

(* Between the calls of the factory every channel has the settings of the  *)
(* factory, in its own configuration and in that of its resolver, and the  *)
(* sockets of its key, unless a call has changed settings and failed: then *)
(* they wait until a later call changes any.  Every variable has its type. *)
ConfigReflected ==
  /\ TypeOK
  /\ owner = NoThread /\ ~ unapplied =>
       \A k \in channelMap :
         /\ channelConfig[k] = Create(k)
         /\ resolver[k].connection = Create(k).connection

(* The pool of a channel has room for the size that is preferred and for   *)
(* every address the resolver knows, unless two threads have updated it at *)
(* a time or the address of a master came last; and the size preferred is  *)
(* that of the factory once a call has applied it.                         *)
PoolSizeFollows ==
  \A k \in channelMap :
    /\ Updating(k) = {} /\ k \notin raced \cup short =>
         maxSize[k] = Larger(resolver[k].preferable, resolver[k].addresses)
    /\ owner = NoThread /\ ~ unapplied /\ k \notin created =>
         resolver[k].preferable =
           IF config.poolSize = Unset THEN DEFAULT_MAX_SIZE ELSE config.poolSize
=============================================================================
