---------------------------- MODULE FactoryProofs ----------------------------
(***************************************************************************)
(* The safety properties of Factory for any threads, keys and settings.    *)
(* The call that holds the mutex of the factory applies its settings       *)
(* channel by channel, so that the invariant says of each channel how far  *)
(* it has come; and a size that is found for a pool is the right one as    *)
(* long as nobody else updates that pool, whoever else runs.               *)
(***************************************************************************)
EXTENDS Factory, TLAPS

(* Who holds which mutex, and what for. *)
LocksInv ==
  /\ owner = NoThread <=> remaining = {}
  /\ \A t \in Thread :
       /\ pc[t] = "idle" => owner # t
       /\ pc[t] \in {"apply", "prefer", "config"} => owner = t
       /\ pc[t] \in {"compute", "resize"} => owner = t \/ resolverMutex[at[t]] = t
       /\ owner = t /\ pc[t] # "apply" => at[t] \in remaining
       /\ \A k \in Key : resolverMutex[k] = t =>
            at[t] = k /\ pc[t] \in {"compute", "resize"} /\ owner # t

(* The call that holds the factory is in the channel of a key, past the     *)
(* settings of its connections, or past the size of its pool too.           *)
Applying(k, places) == \E t \in Thread : owner = t /\ at[t] = k /\ pc[t] \in places

PastConnections == {"prefer", "compute", "resize", "config"}
PastPoolSize == {"compute", "resize", "config"}

SocketsKept ==
  \A k \in channelMap :
    /\ channelConfig[k].connection.sockets = SocketTypesOf[k]
    /\ resolver[k].connection.sockets = SocketTypesOf[k]

ConfigApplied ==
  ~ unapplied => \A k \in channelMap :
    /\ k \notin remaining => channelConfig[k] = Create(k)
    /\ k \notin remaining \/ Applying(k, PastConnections) =>
         resolver[k].connection = Create(k).connection

PreferredSize ==
  IF config.poolSize = Unset THEN DEFAULT_MAX_SIZE ELSE config.poolSize

PoolSizeApplied ==
  /\ config.poolSize = Unset => \A k \in Key : resolver[k].preferable = DEFAULT_MAX_SIZE
  /\ \A k \in channelMap :
       \/ ~ unapplied /\ k \notin created /\ k \notin remaining
       \/ Applying(k, PastPoolSize)
       => resolver[k].preferable = PreferredSize

(* The size of a pool. *)
UpdatesAlone ==
  \A k \in Key \ raced : \A t, u \in Updating(k) : t = u

SizesCurrent ==
  \A k \in Key \ (raced \cup short) :
    /\ \A t \in Updating(k) : pc[t] = "resize" => size[t] = PoolSize(k)
    /\ Updating(k) = {} => maxSize[k] = PoolSize(k)

IInv ==
  /\ TypeOK /\ LocksInv /\ SocketsKept /\ ConfigApplied /\ PoolSizeApplied
  /\ UpdatesAlone /\ SizesCurrent

-----------------------------------------------------------------------------
(* The settings. *)

LEMMA SettingsTyped ==
  ASSUME TypeOK
  PROVE  /\ \A k \in Key : Create(k) \in Configs /\ Create(k).connection \in Connections
         /\ \A old, new \in Connections : SetConnection(old, new) \in Connections
         /\ \A old, new \in Configs : SetChannel(old, new) \in Configs
         /\ \A p \in Properties : ConfigSet(p) \in Configs
  <1>1. config.connection \in Connections
    BY DEF TypeOK, Configs
  <1>2. \A k \in Key : Create(k) \in Configs /\ Create(k).connection \in Connections
    BY <1>1 DEF TypeOK, Configs, Connections, Create
  <1>3. \A old, new \in Connections : SetConnection(old, new) \in Connections
    BY DEF Connections, SetConnection
  <1>4. \A old, new \in Configs : SetChannel(old, new) \in Configs
    BY <1>3 DEF Configs, SetChannel
  <1>5. ASSUME NEW p \in Properties
        PROVE  ConfigSet(p) \in Configs
    <2>1. p.connection \in Timeout /\ p.failover \in Timeout
      BY DEF Properties
    <2>2. p.poolSize \in Nat => p.poolSize \in Size
      BY DEF Properties, Unset, Illegal
    <2>3. config.poolSize \in Size \cup {Unset}
      BY DEF TypeOK, Configs
    <2> QED BY <1>1, <2>1, <2>2, <2>3 DEF ConfigSet, Configs, Connections, TypeOK
  <1> QED BY <1>2, <1>3, <1>4, <1>5

(* Settings that are set to a channel are those that it would be created    *)
(* with, as long as its sockets are those of its key.                       *)
LEMMA SettingsCreate ==
  ASSUME TypeOK, NEW k \in Key
  PROVE  /\ \A old \in Connections : old.sockets = SocketTypesOf[k] =>
              SetConnection(old, config.connection) = Create(k).connection
         /\ \A old \in Configs : old.connection.sockets = SocketTypesOf[k] =>
              SetChannel(old, config) = Create(k)
         /\ Create(k).connection.sockets = SocketTypesOf[k]
         /\ \A old, new \in Connections : SetConnection(old, new).sockets = old.sockets
         /\ \A old, new \in Configs :
              SetChannel(old, new).connection.sockets = old.connection.sockets
  BY DEF TypeOK, Configs, Connections, SetConnection, SetChannel, Create

(* The resolvers, whose parts are set one at a time. *)
LEMMA ResolverParts ==
  ASSUME TypeOK, NEW k \in Key
  PROVE  /\ resolver[k].connection \in Connections
         /\ resolver[k].preferable \in Nat
         /\ resolver[k].addresses \in 0 .. MaxAddresses
         /\ channelConfig[k] \in Configs /\ channelConfig[k].connection \in Connections
         /\ maxSize[k] \in Nat /\ PoolSize(k) \in Nat
  BY FactoryAssumption DEF TypeOK, Configs, PoolSize, Larger

Resolvers == [Key -> [connection : Connections, preferable : Nat,
                      addresses : 0 .. MaxAddresses]]

LEMMA SetPart ==
  ASSUME TypeOK, NEW k \in Key
  PROVE  /\ \A c \in Connections : [resolver EXCEPT ![k].connection = c] \in Resolvers
         /\ \A n \in Nat : [resolver EXCEPT ![k].preferable = n] \in Resolvers
         /\ \A n \in 0 .. MaxAddresses : [resolver EXCEPT ![k].addresses = n] \in Resolvers
  BY DEF TypeOK, Resolvers

LEMMA NextSplit ==
  ASSUME Next
  PROVE  \E t \in Thread :
           \/ \E k \in Key : \/ GetGridStore(t, k) \/ SetConnectionConfig(t, k)
                             \/ Resolve(t, k) \/ LearnMaster(t, k)
           \/ \E p \in Properties : SetProperties(t, p)
           \/ SetPreferableConnectionPoolSize(t)
           \/ UpdateConnectionPoolSize(t) \/ SetMaxSize(t) \/ SetConfig(t)
  BY DEF Next, ThreadStep

-----------------------------------------------------------------------------
(* Each part of the invariant is kept. *)

LEMMA TypeStep ==
  ASSUME IInv, [Next]_vars
  PROVE  TypeOK'
  <1> USE DEF IInv
  <1>1. ASSUME NEW t \in Thread, NEW k \in Key, GetGridStore(t, k)
        PROVE  TypeOK'
    <2>1. CASE NewChannel(t, k)
      <3>1. channelConfig' \in [Key -> Configs] /\ resolver' \in Resolvers
        BY <2>1, SettingsTyped, SetPart DEF NewChannel, TypeOK
      <3> QED BY <1>1, <2>1, <3>1 DEF GetGridStore, NewChannel, TypeOK, Resolvers
    <2>2. CASE k \in channelMap /\ ApplyTo(t, {k}) /\ UNCHANGED <<channels, resolver, created>>
      BY <1>1, <2>2 DEF GetGridStore, ApplyTo, Goto, channels, TypeOK
    <2> QED BY <1>1, <2>1, <2>2 DEF GetGridStore
  <1>2. ASSUME NEW t \in Thread, NEW p \in Properties, SetProperties(t, p)
        PROVE  TypeOK'
    <2>1. config' \in Configs
      BY <1>2, SettingsTyped DEF SetProperties
    <2>2. unapplied' \in BOOLEAN
      BY <1>2 DEF SetProperties, TypeOK
    <2>3. /\ owner' \in Thread \cup {NoThread} /\ remaining' \subseteq channelMap
          /\ pc' \in [Thread -> {"idle", "apply", "prefer", "compute", "resize", "config"}]
      BY <1>2 DEF SetProperties, ApplyTo, Goto, TypeOK
    <2> QED BY <1>2, <2>1, <2>2, <2>3 DEF SetProperties, channels, TypeOK
  <1>3. ASSUME NEW t \in Thread, NEW k \in Key, SetConnectionConfig(t, k)
        PROVE  TypeOK'
    <2>1. resolver' \in Resolvers
      <3>1. config.connection \in Connections
        BY DEF TypeOK, Configs
      <3> QED BY <1>3, <3>1, SettingsTyped, SetPart, ResolverParts DEF SetConnectionConfig
    <2> QED BY <1>3, <2>1 DEF SetConnectionConfig, Goto, channels, history, TypeOK, Resolvers
  <1>4. ASSUME NEW t \in Thread, SetPreferableConnectionPoolSize(t)
        PROVE  TypeOK'
    <2>1. at[t] \in Key /\ at[t] \in channelMap
      BY <1>4 DEF SetPreferableConnectionPoolSize, LocksInv, TypeOK
    <2>2. resolver' \in Resolvers
      <3>1. config.poolSize \in Size \cup {Unset}
        BY DEF TypeOK, Configs
      <3>2. config.poolSize >= 0 => config.poolSize \in Nat
        <4>1. CASE config.poolSize \in Size
          BY <4>1, FactoryAssumption
        <4>2. CASE config.poolSize = -1
          BY <4>2
        <4> QED BY <3>1, <4>1, <4>2 DEF Unset
      <3>3. CASE resolver' = [resolver EXCEPT ![at[t]].preferable = config.poolSize]
                 /\ config.poolSize >= 0
        BY <2>1, <3>2, <3>3, SetPart
      <3>4. CASE UNCHANGED resolver
        BY <3>4 DEF TypeOK, Resolvers
      <3> QED BY <1>4, <3>3, <3>4 DEF SetPreferableConnectionPoolSize
    <2>3. raced' \subseteq channelMap
      BY <1>4, <2>1 DEF SetPreferableConnectionPoolSize, Begin, TypeOK
    <2>4. pc' \in [Thread -> {"idle", "apply", "prefer", "compute", "resize", "config"}]
      BY <1>4 DEF SetPreferableConnectionPoolSize, Goto, TypeOK
    <2> QED BY <1>4, <2>2, <2>3, <2>4
        DEF SetPreferableConnectionPoolSize, channels, TypeOK, Resolvers
  <1>5. ASSUME NEW t \in Thread, UpdateConnectionPoolSize(t)
        PROVE  TypeOK'
    <2>1. PoolSize(at[t]) \in Nat
      BY ResolverParts DEF TypeOK
    <2> QED BY <1>5, <2>1 DEF UpdateConnectionPoolSize, Goto, channels, TypeOK
  <1>6. ASSUME NEW t \in Thread, SetMaxSize(t)
        PROVE  TypeOK'
    <2>1. AnyKey \in Key
      BY FactoryAssumption DEF AnyKey
    <2>2. /\ resolverMutex' \in [Key -> Thread \cup {NoThread}]
          /\ pc' \in [Thread -> {"idle", "apply", "prefer", "compute", "resize", "config"}]
          /\ at' \in [Thread -> Key]
      BY <1>6, <2>1 DEF SetMaxSize, Goto, TypeOK
    <2>3. maxSize' \in [Key -> Nat] /\ size' \in [Thread -> Nat]
      BY <1>6 DEF SetMaxSize, TypeOK
    <2> QED BY <1>6, <2>2, <2>3 DEF SetMaxSize, channels, history, TypeOK
  <1>7. ASSUME NEW t \in Thread, SetConfig(t)
        PROVE  TypeOK'
    <2>1. AnyKey \in Key /\ at' \in [Thread -> Key]
      BY <1>7, FactoryAssumption DEF AnyKey, SetConfig, TypeOK
    <2>2. channelConfig' \in [Key -> Configs]
      BY <1>7, SettingsTyped, ResolverParts DEF SetConfig, TypeOK
    <2>3. /\ owner' \in Thread \cup {NoThread}
          /\ pc' \in [Thread -> {"idle", "apply", "prefer", "compute", "resize", "config"}]
      BY <1>7 DEF SetConfig, Goto, TypeOK
    <2> QED BY <1>7, <2>1, <2>2, <2>3 DEF SetConfig, TypeOK
  <1>8. ASSUME NEW t \in Thread, NEW k \in Key, Resolve(t, k) \/ LearnMaster(t, k)
        PROVE  TypeOK'
    <2>1. Addresses(k) \subseteq 0 .. MaxAddresses
      BY ResolverParts, FactoryAssumption DEF Addresses
    <2>2. resolver' \in Resolvers
      <3>1. CASE Resolve(t, k)
        BY <2>1, <3>1, SetPart DEF Resolve
      <3>2. CASE LearnMaster(t, k)
        <4>1. resolver[k].addresses + 1 \in 0 .. MaxAddresses
          BY <3>2, ResolverParts, FactoryAssumption DEF LearnMaster
        <4> QED BY <3>2, <4>1, SetPart DEF LearnMaster
      <3> QED BY <1>8, <3>1, <3>2
    <2>3. raced' \subseteq channelMap /\ short' \subseteq channelMap
      BY <1>8 DEF Resolve, LearnMaster, Begin, TypeOK
    <2>4. CASE Resolve(t, k)
      BY <2>2, <2>3, <2>4 DEF Resolve, Goto, channels, TypeOK, Resolvers
    <2>5. CASE LearnMaster(t, k)
      BY <2>2, <2>3, <2>5 DEF LearnMaster, channels, threads, TypeOK, Resolvers
    <2> QED BY <1>8, <2>4, <2>5
  <1>9. CASE UNCHANGED vars
    BY <1>9 DEF vars, channels, threads, history, TypeOK
  <1> QED BY <1>1, <1>2, <1>3, <1>4, <1>5, <1>6, <1>7, <1>8, <1>9, NextSplit

LEMMA LocksStep ==
  ASSUME IInv, [Next]_vars
  PROVE  LocksInv'
  <1> USE DEF IInv
  <1>0. /\ NoThread \notin Thread /\ pc \in [Thread -> {"idle", "apply", "prefer",
             "compute", "resize", "config"}]
        /\ at \in [Thread -> Key] /\ resolverMutex \in [Key -> Thread \cup {NoThread}]
        /\ owner \in Thread \cup {NoThread} /\ remaining \subseteq channelMap
        /\ channelMap \subseteq Key
    BY FactoryAssumption DEF TypeOK
  <1>1. ASSUME NEW t \in Thread, NEW keys \in SUBSET Key, keys # {},
               owner = NoThread, pc[t] = "idle", ApplyTo(t, keys),
               UNCHANGED <<at, resolverMutex>>
        PROVE  LocksInv'
    BY <1>0, <1>1 DEF ApplyTo, Goto, LocksInv
  <1>2. ASSUME NEW t \in Thread, NEW k \in Key, GetGridStore(t, k)
        PROVE  LocksInv'
    <2>1. CASE NewChannel(t, k)
      BY <1>2, <2>1 DEF GetGridStore, NewChannel, LocksInv
    <2>2. CASE ApplyTo(t, {k})
      BY <1>1, <1>2, <2>2 DEF GetGridStore
    <2> QED BY <1>2, <2>1, <2>2 DEF GetGridStore
  <1>3. ASSUME NEW t \in Thread, NEW p \in Properties, SetProperties(t, p)
        PROVE  LocksInv'
    <2>1. CASE ApplyTo(t, channelMap) /\ channelMap # {}
      BY <1>0, <1>1, <1>3, <2>1 DEF SetProperties
    <2>2. CASE UNCHANGED <<owner, remaining, pc>>
      BY <1>3, <2>2 DEF SetProperties, LocksInv
    <2> QED BY <1>3, <2>1, <2>2 DEF SetProperties
  <1>4. ASSUME NEW t \in Thread, NEW k \in Key, SetConnectionConfig(t, k)
        PROVE  LocksInv'
    BY <1>0, <1>4 DEF SetConnectionConfig, Goto, LocksInv
  <1>5. ASSUME NEW t \in Thread, SetPreferableConnectionPoolSize(t)
        PROVE  LocksInv'
    BY <1>0, <1>5 DEF SetPreferableConnectionPoolSize, Goto, LocksInv
  <1>6. ASSUME NEW t \in Thread, UpdateConnectionPoolSize(t)
        PROVE  LocksInv'
    BY <1>0, <1>6 DEF UpdateConnectionPoolSize, Goto, LocksInv
  <1>7. ASSUME NEW t \in Thread, SetMaxSize(t)
        PROVE  LocksInv'
    <2>1. CASE owner = t /\ Goto(t, "config") /\ UNCHANGED <<resolverMutex, at>>
      BY <1>0, <1>7, <2>1 DEF SetMaxSize, Goto, LocksInv
    <2>2. CASE /\ resolverMutex[at[t]] = t
               /\ resolverMutex' = [resolverMutex EXCEPT ![at[t]] = NoThread]
               /\ Goto(t, "idle") /\ at' = [at EXCEPT ![t] = AnyKey]
      BY <1>0, <1>7, <2>2 DEF SetMaxSize, Goto, LocksInv
    <2> QED BY <1>7, <2>1, <2>2 DEF SetMaxSize
  <1>8. ASSUME NEW t \in Thread, SetConfig(t)
        PROVE  LocksInv'
    <2>1. CASE remaining' = {}
      BY <1>0, <1>8, <2>1 DEF SetConfig, Goto, LocksInv
    <2>2. CASE remaining' # {}
      BY <1>0, <1>8, <2>2 DEF SetConfig, Goto, LocksInv
    <2> QED BY <2>1, <2>2
  <1>9. ASSUME NEW t \in Thread, NEW k \in Key, Resolve(t, k) \/ LearnMaster(t, k)
        PROVE  LocksInv'
    <2>1. CASE Resolve(t, k)
      BY <1>0, <2>1 DEF Resolve, Goto, LocksInv
    <2>2. CASE LearnMaster(t, k)
      BY <2>2 DEF LearnMaster, threads, LocksInv
    <2> QED BY <1>9, <2>1, <2>2
  <1>10. CASE UNCHANGED vars
    BY <1>10 DEF vars, threads, LocksInv
  <1> QED BY <1>2, <1>3, <1>4, <1>5, <1>6, <1>7, <1>8, <1>9, <1>10, NextSplit

(* What the steps do with the resolvers: none but these changes one. *)
LEMMA ResolverSteps ==
  ASSUME IInv, NEW t \in Thread
  PROVE  /\ \A k \in Key : NewChannel(t, k) =>
              /\ resolver'[k].connection = Create(k).connection
              /\ \A j \in Key \ {k} : resolver'[j].connection = resolver[j].connection
              /\ \A j \in Key : /\ resolver'[j].preferable = resolver[j].preferable
                                /\ resolver'[j].addresses = resolver[j].addresses
         /\ \A k \in Key : SetConnectionConfig(t, k) =>
              /\ resolver'[k].connection =
                   SetConnection(resolver[k].connection, config.connection)
              /\ \A j \in Key \ {k} : resolver'[j].connection = resolver[j].connection
              /\ \A j \in Key : /\ resolver'[j].preferable = resolver[j].preferable
                                /\ resolver'[j].addresses = resolver[j].addresses
         /\ SetPreferableConnectionPoolSize(t) =>
              /\ \A j \in Key : /\ resolver'[j].connection = resolver[j].connection
                                /\ resolver'[j].addresses = resolver[j].addresses
              /\ \A j \in Key : \/ resolver'[j].preferable = resolver[j].preferable
                                \/ j = at[t] /\ resolver'[j].preferable = config.poolSize
         /\ \A k \in Key : Resolve(t, k) \/ LearnMaster(t, k) =>
              /\ \A j \in Key : /\ resolver'[j].connection = resolver[j].connection
                                /\ resolver'[j].preferable = resolver[j].preferable
              /\ \A j \in Key \ {k} : resolver'[j].addresses = resolver[j].addresses
  <1> USE DEF IInv
  <1>0. resolver \in Resolvers
    BY DEF TypeOK, Resolvers
  <1>1. ASSUME NEW k \in Key, NewChannel(t, k)
        PROVE  /\ resolver'[k].connection = Create(k).connection
               /\ \A j \in Key \ {k} : resolver'[j].connection = resolver[j].connection
               /\ \A j \in Key : /\ resolver'[j].preferable = resolver[j].preferable
                                 /\ resolver'[j].addresses = resolver[j].addresses
    BY <1>0, <1>1 DEF NewChannel, Resolvers
  <1>2. ASSUME NEW k \in Key, SetConnectionConfig(t, k)
        PROVE  /\ resolver'[k].connection =
                    SetConnection(resolver[k].connection, config.connection)
               /\ \A j \in Key \ {k} : resolver'[j].connection = resolver[j].connection
               /\ \A j \in Key : /\ resolver'[j].preferable = resolver[j].preferable
                                 /\ resolver'[j].addresses = resolver[j].addresses
    BY <1>0, <1>2 DEF SetConnectionConfig, Resolvers
  <1>3. ASSUME SetPreferableConnectionPoolSize(t)
        PROVE  /\ \A j \in Key : /\ resolver'[j].connection = resolver[j].connection
                                 /\ resolver'[j].addresses = resolver[j].addresses
               /\ \A j \in Key : \/ resolver'[j].preferable = resolver[j].preferable
                                 \/ j = at[t] /\ resolver'[j].preferable = config.poolSize
    <2>1. CASE UNCHANGED resolver
      BY <2>1
    <2>2. CASE resolver' = [resolver EXCEPT ![at[t]].preferable = config.poolSize]
      BY <1>0, <2>2 DEF Resolvers
    <2> QED BY <1>3, <2>1, <2>2 DEF SetPreferableConnectionPoolSize
  <1>4. ASSUME NEW k \in Key, Resolve(t, k) \/ LearnMaster(t, k)
        PROVE  /\ \A j \in Key : /\ resolver'[j].connection = resolver[j].connection
                                 /\ resolver'[j].preferable = resolver[j].preferable
               /\ \A j \in Key \ {k} : resolver'[j].addresses = resolver[j].addresses
    <2>1. PICK n : resolver' = [resolver EXCEPT ![k].addresses = n]
      BY <1>4 DEF Resolve, LearnMaster
    <2> QED BY <1>0, <2>1 DEF Resolvers
  <1> QED BY <1>1, <1>2, <1>3, <1>4

LEMMA SocketsStep ==
  ASSUME IInv, [Next]_vars
  PROVE  SocketsKept'
  <1> USE DEF IInv, SocketsKept
  <1>0. channelMap \subseteq Key /\ channelConfig \in [Key -> Configs]
    BY DEF TypeOK
  <1>1. ASSUME NEW t \in Thread, NEW k \in Key, GetGridStore(t, k)
        PROVE  SocketsKept'
    <2>1. CASE NewChannel(t, k)
      <3>1. /\ channelMap' = channelMap \cup {k}
            /\ channelConfig'[k].connection.sockets = SocketTypesOf[k]
            /\ \A j \in Key \ {k} : channelConfig'[j] = channelConfig[j]
        BY <1>0, <2>1, SettingsCreate DEF NewChannel
      <3>2. /\ resolver'[k].connection.sockets = SocketTypesOf[k]
            /\ \A j \in Key \ {k} : resolver'[j].connection = resolver[j].connection
        BY <2>1, SettingsCreate, ResolverSteps
      <3> QED BY <1>0, <3>1, <3>2
    <2> QED BY <1>1, <2>1 DEF GetGridStore, channels
  <1>2. ASSUME NEW t \in Thread, NEW k \in Key, SetConnectionConfig(t, k)
        PROVE  SocketsKept'
    <2>1. /\ resolver'[k].connection.sockets = resolver[k].connection.sockets
          /\ UNCHANGED <<channelMap, channelConfig>>
      <3>1. config.connection \in Connections
        BY DEF TypeOK, Configs
      <3> QED BY <1>2, <3>1, SettingsCreate, ResolverSteps, ResolverParts
          DEF SetConnectionConfig, channels
    <2> QED BY <1>0, <1>2, <2>1, ResolverSteps
  <1>3. ASSUME NEW t \in Thread, SetConfig(t)
        PROVE  SocketsKept'
    <2>1. at[t] \in Key /\ config \in Configs
      BY DEF TypeOK
    <2>2. /\ \A j \in Key : channelConfig'[j].connection.sockets =
                              channelConfig[j].connection.sockets
          /\ UNCHANGED <<channelMap, resolver>>
      BY <1>0, <1>3, <2>1, SettingsCreate, ResolverParts DEF SetConfig
    <2> QED BY <1>0, <2>2
  <1>4. ASSUME NEW t \in Thread,
               \/ SetPreferableConnectionPoolSize(t)
               \/ \E k \in Key : Resolve(t, k) \/ LearnMaster(t, k)
        PROVE  SocketsKept'
    <2>1. UNCHANGED <<channelMap, channelConfig>>
      BY <1>4 DEF SetPreferableConnectionPoolSize, Resolve, LearnMaster, channels
    <2> QED BY <1>0, <1>4, <2>1, ResolverSteps
  <1>5. ASSUME NEW t \in Thread,
               \/ \E p \in Properties : SetProperties(t, p)
               \/ UpdateConnectionPoolSize(t) \/ SetMaxSize(t)
        PROVE  SocketsKept'
    BY <1>5 DEF SetProperties, UpdateConnectionPoolSize, SetMaxSize, channels
  <1>6. CASE UNCHANGED vars
    BY <1>6 DEF vars, channels
  <1> QED BY <1>1, <1>2, <1>3, <1>4, <1>5, <1>6, NextSplit

(* Properties that change nothing. *)
LEMMA NotUpdated ==
  ASSUME TypeOK, NEW p \in Properties, ~ Updated(p)
  PROVE  ConfigSet(p) = config
  <1>1. /\ p.connection = config.connection.timeouts /\ p.failover = config.failover
        /\ p.poolSize \notin Nat
    BY DEF Updated
  <1> QED BY <1>1 DEF ConfigSet, TypeOK, Configs, Connections

(* While a call holds the factory nothing but its own steps moves it on. *)
LEMMA ApplyingSteps ==
  ASSUME IInv, NEW t \in Thread, NEW k \in Key
  PROVE  /\ owner = NoThread => \A places : ~ Applying(k, places)
         /\ UpdateConnectionPoolSize(t) \/ SetMaxSize(t)
            \/ (\E j \in Key : Resolve(t, j) \/ LearnMaster(t, j)) =>
              /\ Applying(k, PastConnections)' => Applying(k, PastConnections)
              /\ Applying(k, PastPoolSize)' => Applying(k, PastPoolSize)
         /\ SetPreferableConnectionPoolSize(t) =>
              /\ Applying(k, PastConnections)' => Applying(k, PastConnections)
              /\ Applying(k, PastPoolSize)' => k = at[t]
  <1> USE DEF IInv
  <1>0. /\ NoThread \notin Thread /\ at \in [Thread -> Key]
        /\ pc \in [Thread -> {"idle", "apply", "prefer", "compute", "resize", "config"}]
    BY FactoryAssumption DEF TypeOK
  <1>1. owner = NoThread => \A places : ~ Applying(k, places)
    BY <1>0 DEF Applying
  <1>2. ASSUME UpdateConnectionPoolSize(t)
        PROVE  /\ Applying(k, PastConnections)' => Applying(k, PastConnections)
               /\ Applying(k, PastPoolSize)' => Applying(k, PastPoolSize)
    BY <1>0, <1>2 DEF UpdateConnectionPoolSize, Goto, Applying, PastConnections, PastPoolSize
  <1>3. ASSUME SetMaxSize(t)
        PROVE  /\ Applying(k, PastConnections)' => Applying(k, PastConnections)
               /\ Applying(k, PastPoolSize)' => Applying(k, PastPoolSize)
    BY <1>0, <1>3 DEF SetMaxSize, Goto, Applying, PastConnections, PastPoolSize
  <1>4. ASSUME NEW j \in Key, Resolve(t, j) \/ LearnMaster(t, j)
        PROVE  /\ Applying(k, PastConnections)' => Applying(k, PastConnections)
               /\ Applying(k, PastPoolSize)' => Applying(k, PastPoolSize)
    <2>1. CASE Resolve(t, j)
      BY <1>0, <2>1 DEF Resolve, Goto, Applying, LocksInv
    <2>2. CASE LearnMaster(t, j)
      BY <2>2 DEF LearnMaster, threads, Applying
    <2> QED BY <1>4, <2>1, <2>2
  <1>5. ASSUME SetPreferableConnectionPoolSize(t)
        PROVE  /\ Applying(k, PastConnections)' => Applying(k, PastConnections)
               /\ Applying(k, PastPoolSize)' => k = at[t]
    BY <1>0, <1>5 DEF SetPreferableConnectionPoolSize, Goto, Applying, LocksInv,
       PastConnections, PastPoolSize
  <1> QED BY <1>1, <1>2, <1>3, <1>4, <1>5

(* The steps after which the settings are applied as far as before. *)
LEMMA ConfigKept ==
  ASSUME TypeOK, ConfigApplied, config' = config,
         \/ UNCHANGED <<channelMap, channelConfig>>
            /\ \A j \in Key : resolver'[j].connection = resolver[j].connection
         \/ channelMap' = {},
         remaining \subseteq remaining' \/ channelMap' = {},
         ~ unapplied' => ~ unapplied,
         \A k \in Key : Applying(k, PastConnections)' => Applying(k, PastConnections)
  PROVE  ConfigApplied'
  <1>1. \A k \in Key : Create(k)' = Create(k)
    BY DEF Create
  <1>2. channelMap \subseteq Key
    BY DEF TypeOK
  <1> QED BY <1>1, <1>2 DEF ConfigApplied

LEMMA ConfigAppliedStep ==
  ASSUME IInv, [Next]_vars
  PROVE  ConfigApplied'
  <1> USE DEF IInv
  <1>0. /\ channelMap \subseteq Key /\ channelConfig \in [Key -> Configs]
        /\ NoThread \notin Thread /\ at \in [Thread -> Key]
        /\ pc \in [Thread -> {"idle", "apply", "prefer", "compute", "resize", "config"}]
    BY FactoryAssumption DEF TypeOK
  <1>1. ASSUME NEW t \in Thread, NEW keys, ApplyTo(t, keys)
        PROVE  \A k : ~ Applying(k, PastConnections)'
    BY <1>0, <1>1 DEF ApplyTo, Goto, Applying, PastConnections
  <1>2. ASSUME NEW t \in Thread, NEW k \in Key, GetGridStore(t, k)
        PROVE  ConfigApplied'
    <2>0. owner = NoThread /\ remaining = {} /\ UNCHANGED <<config, unapplied>>
      BY <1>2 DEF GetGridStore, LocksInv
    <2>1. CASE NewChannel(t, k)
      <3>1. \A j \in Key : Create(j)' = Create(j)
        BY <2>0 DEF Create
      <3>2. /\ channelMap' = channelMap \cup {k} /\ channelConfig'[k] = Create(k)
            /\ \A j \in Key \ {k} : channelConfig'[j] = channelConfig[j]
        BY <1>0, <2>1 DEF NewChannel
      <3>3. /\ resolver'[k].connection = Create(k).connection
            /\ \A j \in Key \ {k} : resolver'[j].connection = resolver[j].connection
        BY <2>1, ResolverSteps
      <3> QED BY <1>0, <2>0, <3>1, <3>2, <3>3 DEF ConfigApplied
    <2>2. CASE k \in channelMap /\ ApplyTo(t, {k}) /\ UNCHANGED <<channels, resolver, created>>
      BY <1>1, <2>0, <2>2, ConfigKept DEF channels
    <2> QED BY <1>2, <2>1, <2>2 DEF GetGridStore
  <1>3. ASSUME NEW t \in Thread, NEW p \in Properties, SetProperties(t, p)
        PROVE  ConfigApplied'
    <2>0. /\ owner = NoThread /\ config' = ConfigSet(p)
          /\ UNCHANGED <<channelMap, channelConfig, resolver, at>>
      BY <1>3 DEF SetProperties, channels
    <2>1. CASE UNCHANGED <<owner, remaining, pc>>
      <3>1. \A k \in Key : Applying(k, PastConnections)' => Applying(k, PastConnections)
        BY <2>0, <2>1 DEF Applying
      <3>2. CASE p.poolSize = Illegal
        <4>1. unapplied' = (unapplied \/ config' # config) 
          BY <1>3, <3>2, <2>1 DEF SetProperties
        <4>2. CASE config' = config
          BY <2>0, <2>1, <3>1, <4>1, <4>2, ConfigKept
        <4>3. CASE config' # config
          BY <4>1, <4>3 DEF ConfigApplied
        <4> QED BY <4>2, <4>3
      <3>3. CASE p.poolSize # Illegal
        <4>1. /\ ~ Updated(p) \/ channelMap = {}
              /\ unapplied' = (unapplied /\ ~ Updated(p))
          BY <1>0, <1>3, <2>0, <2>1, <3>3 DEF SetProperties, ApplyTo
        <4>2. CASE ~ Updated(p)
          BY <2>0, <2>1, <3>1, <4>1, <4>2, NotUpdated, ConfigKept
        <4>3. CASE channelMap = {}
          BY <2>0, <4>3 DEF ConfigApplied
        <4> QED BY <4>1, <4>2, <4>3
      <3> QED BY <3>2, <3>3
    <2>2. CASE ApplyTo(t, channelMap)
      BY <1>1, <2>0, <2>2 DEF ApplyTo, ConfigApplied
    <2> QED BY <1>3, <2>1, <2>2 DEF SetProperties
  <1>4. ASSUME NEW t \in Thread, NEW k \in Key, SetConnectionConfig(t, k)
        PROVE  ConfigApplied'
    <2>1. /\ UNCHANGED <<config, channelMap, channelConfig, remaining, unapplied, owner>>
          /\ pc[t] = "apply" /\ k \in remaining /\ at' = [at EXCEPT ![t] = k]
      BY <1>4 DEF SetConnectionConfig, channels, history
    <2>2. k \in channelMap /\ owner = t
      BY <2>1 DEF TypeOK, LocksInv
    <2>3. resolver'[k].connection = Create(k).connection
      BY <1>4, <2>2, ResolverSteps, ResolverParts, SettingsCreate DEF SocketsKept
    <2>4. \A j \in Key : Applying(j, PastConnections)' => j = k
      BY <1>0, <2>1, <2>2 DEF Applying
    <2>5. \A j \in Key : Create(j)' = Create(j)
      BY <2>1 DEF Create
    <2> QED BY <1>0, <1>4, <2>1, <2>3, <2>4, <2>5, ResolverSteps DEF ConfigApplied
  <1>5. ASSUME NEW t \in Thread, SetConfig(t)
        PROVE  ConfigApplied'
    <2> DEFINE k == at[t]
    <2>1. /\ UNCHANGED <<config, channelMap, resolver, unapplied>>
          /\ remaining' = remaining \ {k} /\ pc[t] = "config"
          /\ channelConfig' = [channelConfig EXCEPT ![k] = SetChannel(@, config)]
      BY <1>5 DEF SetConfig
    <2>2. owner = t /\ k \in channelMap /\ k \in Key
      BY <1>0, <2>1 DEF LocksInv, TypeOK
    <2>3. /\ channelConfig'[k] = Create(k)
          /\ \A j \in Key \ {k} : channelConfig'[j] = channelConfig[j]
      BY <1>0, <2>1, <2>2, SettingsCreate DEF SocketsKept
    <2>4. Applying(k, PastConnections)
      BY <2>1, <2>2 DEF Applying, PastConnections
    <2>5. \A j \in Key : ~ Applying(j, PastConnections)'
      BY <1>0, <1>5, <2>2 DEF SetConfig, Goto, Applying, PastConnections
    <2>6. \A j \in Key : Create(j)' = Create(j)
      BY <2>1 DEF Create
    <2> HIDE DEF k
    <2> QED BY <1>0, <2>1, <2>2, <2>3, <2>4, <2>5, <2>6 DEF ConfigApplied
  <1>6. ASSUME NEW t \in Thread,
               \/ SetPreferableConnectionPoolSize(t)
               \/ \E k \in Key : Resolve(t, k) \/ LearnMaster(t, k)
        PROVE  ConfigApplied'
    <2>1. UNCHANGED <<config, channelMap, channelConfig, remaining, unapplied>>
      BY <1>6 DEF SetPreferableConnectionPoolSize, Resolve, LearnMaster, channels
    <2>2. \A j \in Key : resolver'[j].connection = resolver[j].connection
      BY <1>6, ResolverSteps
    <2>3. \A j \in Key : Applying(j, PastConnections)' => Applying(j, PastConnections)
      BY <1>6, ApplyingSteps
    <2> QED BY <2>1, <2>2, <2>3, ConfigKept
  <1>7. ASSUME NEW t \in Thread, UpdateConnectionPoolSize(t) \/ SetMaxSize(t)
        PROVE  ConfigApplied'
    <2>1. UNCHANGED <<config, channelMap, channelConfig, resolver, remaining, unapplied>>
      BY <1>7 DEF UpdateConnectionPoolSize, SetMaxSize, channels, history
    <2>2. \A j \in Key : Applying(j, PastConnections)' => Applying(j, PastConnections)
      BY <1>7, ApplyingSteps
    <2> QED BY <2>1, <2>2, ConfigKept
  <1>8. CASE UNCHANGED vars
    BY <1>8, ConfigKept DEF vars, channels, threads, history, Applying
  <1> QED BY <1>2, <1>3, <1>4, <1>5, <1>6, <1>7, <1>8, NextSplit

LEMMA PoolSizeKept ==
  ASSUME TypeOK, PoolSizeApplied, config'.poolSize = config.poolSize,
         UNCHANGED channelMap,
         \A j \in Key : resolver'[j].preferable = resolver[j].preferable,
         remaining \subseteq remaining', created \subseteq created',
         ~ unapplied' => ~ unapplied,
         \A k \in Key : Applying(k, PastPoolSize)' => Applying(k, PastPoolSize)
  PROVE  PoolSizeApplied'
  <1>1. channelMap \subseteq Key /\ PreferredSize' = PreferredSize
    BY DEF TypeOK, PreferredSize
  <1> QED BY <1>1 DEF PoolSizeApplied

LEMMA PoolSizeAppliedStep ==
  ASSUME IInv, [Next]_vars
  PROVE  PoolSizeApplied'
  <1> USE DEF IInv
  <1>0. /\ channelMap \subseteq Key /\ NoThread \notin Thread /\ at \in [Thread -> Key]
        /\ pc \in [Thread -> {"idle", "apply", "prefer", "compute", "resize", "config"}]
    BY FactoryAssumption DEF TypeOK
  <1>1. ASSUME NEW t \in Thread, NEW keys, ApplyTo(t, keys)
        PROVE  \A k : ~ Applying(k, PastPoolSize)'
    BY <1>0, <1>1 DEF ApplyTo, Goto, Applying, PastPoolSize
  <1>2. ASSUME NEW t \in Thread, NEW k \in Key, GetGridStore(t, k)
        PROVE  PoolSizeApplied'
    <2>0. owner = NoThread /\ remaining = {} /\ UNCHANGED <<config, unapplied>>
      BY <1>2 DEF GetGridStore, LocksInv
    <2>1. CASE NewChannel(t, k)
      <3>1. \A j \in Key : ~ Applying(j, PastPoolSize)'
        BY <1>0, <2>0, <2>1 DEF NewChannel, Applying
      <3>2. PreferredSize' = PreferredSize
        BY <2>0 DEF PreferredSize
      <3> QED BY <1>0, <2>0, <2>1, <3>1, <3>2, ResolverSteps DEF NewChannel, PoolSizeApplied
    <2>2. CASE k \in channelMap /\ ApplyTo(t, {k}) /\ UNCHANGED <<channels, resolver, created>>
      BY <1>1, <2>0, <2>2, PoolSizeKept DEF channels
    <2> QED BY <1>2, <2>1, <2>2 DEF GetGridStore
  <1>3. ASSUME NEW t \in Thread, NEW p \in Properties, SetProperties(t, p)
        PROVE  PoolSizeApplied'
    <2>0. /\ owner = NoThread /\ config' = ConfigSet(p)
          /\ UNCHANGED <<channelMap, resolver, at, created>>
      BY <1>3 DEF SetProperties, channels
    <2>1. config'.poolSize = IF p.poolSize \in Nat THEN p.poolSize ELSE config.poolSize
      BY <2>0 DEF ConfigSet, TypeOK, Configs
    <2>2. CASE UNCHANGED <<owner, remaining, pc>>
      <3>1. \A k \in Key : Applying(k, PastPoolSize)' => Applying(k, PastPoolSize)
        BY <2>0, <2>2 DEF Applying
      <3>2. CASE p.poolSize = Illegal
        <4>1. (~ unapplied' => ~ unapplied) /\ config'.poolSize = config.poolSize
          <5>1. ~ unapplied' => ~ unapplied
            BY <1>3, <3>2 DEF SetProperties
          <5>2. Illegal \notin Nat
            BY DEF Illegal
          <5> QED BY <2>1, <3>2, <5>1, <5>2
        <4> QED BY <2>0, <2>2, <3>1, <4>1, PoolSizeKept
      <3>3. CASE p.poolSize # Illegal
        <4>1. /\ ~ Updated(p) \/ channelMap = {}
              /\ unapplied' = (unapplied /\ ~ Updated(p))
          BY <1>0, <1>3, <2>0, <2>2, <3>3 DEF SetProperties, ApplyTo
        <4>2. CASE ~ Updated(p)
          BY <2>0, <2>2, <3>1, <4>1, <4>2, NotUpdated, PoolSizeKept
        <4>3. CASE channelMap = {}
          <5>1. Unset \notin Nat
            BY DEF Unset
          <5>2. config'.poolSize = Unset => config.poolSize = Unset
            BY <2>1, <5>1
          <5> QED BY <2>0, <4>3, <5>2 DEF PoolSizeApplied
        <4> QED BY <4>1, <4>2, <4>3
      <3> QED BY <3>2, <3>3
    <2>3. CASE ApplyTo(t, channelMap)
      BY <1>0, <1>1, <2>0, <2>1, <2>3 DEF ApplyTo, PoolSizeApplied, Unset
    <2> QED BY <1>3, <2>2, <2>3 DEF SetProperties
  <1>4. ASSUME NEW t \in Thread, NEW k \in Key, SetConnectionConfig(t, k)
        PROVE  PoolSizeApplied'
    <2>1. /\ UNCHANGED <<config, channelMap, remaining, unapplied, created, owner>>
          /\ pc[t] = "apply" /\ pc'[t] = "prefer"
      BY <1>0, <1>4 DEF SetConnectionConfig, channels, history, Goto
    <2>2. owner = t
      BY <2>1 DEF LocksInv
    <2>3. \A j \in Key : ~ Applying(j, PastPoolSize)'
      BY <2>1, <2>2 DEF Applying, PastPoolSize
    <2> QED BY <1>4, <2>1, <2>3, ResolverSteps, PoolSizeKept
  <1>5. ASSUME NEW t \in Thread, SetPreferableConnectionPoolSize(t)
        PROVE  PoolSizeApplied'
    <2> DEFINE k == at[t]
    <2>1. UNCHANGED <<config, channelMap, remaining, unapplied, created>> /\ k \in Key
      BY <1>0, <1>5 DEF SetPreferableConnectionPoolSize, channels
    <2>2. \A j \in Key : Applying(j, PastPoolSize)' => j = k
      BY <1>5, ApplyingSteps
    <2>3. PreferredSize' = PreferredSize
      BY <2>1 DEF PreferredSize
    <2>4. \A j \in Key \ {k} : resolver'[j].preferable = resolver[j].preferable
      BY <1>5, ResolverSteps
    <2>5. config.poolSize \in Size \cup {Unset}
      BY DEF TypeOK, Configs
    <2>6. CASE config.poolSize = Unset
      <3>1. UNCHANGED resolver
        BY <1>5, <2>6 DEF SetPreferableConnectionPoolSize, Unset
      <3> QED BY <1>0, <2>1, <2>2, <2>3, <2>6, <3>1 DEF PoolSizeApplied, PreferredSize
    <2>7. CASE config.poolSize # Unset
      <3>1. config.poolSize \in Nat
        BY <2>5, <2>7, FactoryAssumption
      <3>2. resolver'[k].preferable = config.poolSize
        <4>1. resolver \in Resolvers
          BY DEF TypeOK, Resolvers
        <4> QED BY <1>5, <2>1, <3>1, <4>1 DEF SetPreferableConnectionPoolSize, Resolvers
      <3> HIDE DEF k
      <3> QED BY <1>0, <2>1, <2>2, <2>3, <2>4, <2>7, <3>2 DEF PoolSizeApplied, PreferredSize
    <2> QED BY <2>6, <2>7
  <1>6. ASSUME NEW t \in Thread, SetConfig(t)
        PROVE  PoolSizeApplied'
    <2> DEFINE k == at[t]
    <2>1. /\ UNCHANGED <<config, channelMap, resolver, unapplied>>
          /\ remaining' = remaining \ {k} /\ created' = created \ {k} /\ pc[t] = "config"
      BY <1>6 DEF SetConfig
    <2>2. owner = t /\ k \in Key
      BY <1>0, <2>1 DEF LocksInv
    <2>3. Applying(k, PastPoolSize)
      BY <2>1, <2>2 DEF Applying, PastPoolSize
    <2>4. \A j \in Key : ~ Applying(j, PastPoolSize)'
      BY <1>0, <1>6, <2>2 DEF SetConfig, Goto, Applying, PastPoolSize
    <2>5. PreferredSize' = PreferredSize
      BY <2>1 DEF PreferredSize
    <2> HIDE DEF k
    <2> QED BY <1>0, <2>1, <2>2, <2>3, <2>4, <2>5 DEF PoolSizeApplied
  <1>7. ASSUME NEW t \in Thread, NEW k \in Key, Resolve(t, k) \/ LearnMaster(t, k)
        PROVE  PoolSizeApplied'
    <2>1. UNCHANGED <<config, channelMap, remaining, unapplied, created>>
      BY <1>7 DEF Resolve, LearnMaster, channels
    <2> QED BY <1>7, <2>1, ResolverSteps, ApplyingSteps, PoolSizeKept
  <1>8. ASSUME NEW t \in Thread, UpdateConnectionPoolSize(t) \/ SetMaxSize(t)
        PROVE  PoolSizeApplied'
    <2>1. UNCHANGED <<config, channelMap, resolver, remaining, unapplied, created>>
      BY <1>8 DEF UpdateConnectionPoolSize, SetMaxSize, channels, history
    <2> QED BY <1>8, <2>1, ApplyingSteps, PoolSizeKept
  <1>9. CASE UNCHANGED vars
    BY <1>9, PoolSizeKept DEF vars, channels, threads, history, Applying
  <1> QED BY <1>2, <1>3, <1>4, <1>5, <1>6, <1>7, <1>8, <1>9, NextSplit

(* Who updates the size of a pool. *)
LEMMA UpdatingSteps ==
  ASSUME IInv, NEW t \in Thread, NEW k \in Key
  PROVE  /\ GetGridStore(t, k) => \A j : Updating(j)' = Updating(j)
         /\ (\E p \in Properties : SetProperties(t, p)) => \A j : Updating(j)' = Updating(j)
         /\ SetConnectionConfig(t, k) => \A j : Updating(j)' = Updating(j)
         /\ SetPreferableConnectionPoolSize(t) =>
              /\ \A j : j # at[t] => Updating(j)' = Updating(j)
              /\ \A j : j = at[t] => Updating(j)' \subseteq Updating(j) \cup {t}
              /\ pc'[t] = "config" => \A j : Updating(j)' = Updating(j)
         /\ UpdateConnectionPoolSize(t) => \A j : Updating(j)' = Updating(j)
         /\ SetMaxSize(t) =>
              /\ \A j : j # at[t] => Updating(j)' = Updating(j)
              /\ \A j : j = at[t] => Updating(j)' = Updating(j) \ {t}
         /\ SetConfig(t) => \A j : Updating(j)' = Updating(j)
         /\ Resolve(t, k) => /\ \A j : j # k => Updating(j)' = Updating(j)
                             /\ Updating(k)' = Updating(k) \cup {t}
         /\ LearnMaster(t, k) => \A j : Updating(j)' = Updating(j)
  <1>0. /\ at \in [Thread -> Key]
        /\ pc \in [Thread -> {"idle", "apply", "prefer", "compute", "resize", "config"}]
    BY DEF IInv, TypeOK
  <1>1. GetGridStore(t, k) => \A j : Updating(j)' = Updating(j)
    BY <1>0 DEF GetGridStore, NewChannel, ApplyTo, Goto, Updating
  <1>2. (\E p \in Properties : SetProperties(t, p)) => \A j : Updating(j)' = Updating(j)
    BY <1>0 DEF SetProperties, ApplyTo, Goto, Updating
  <1>3. SetConnectionConfig(t, k) => \A j : Updating(j)' = Updating(j)
    BY <1>0 DEF SetConnectionConfig, Goto, Updating
  <1>4. SetPreferableConnectionPoolSize(t) =>
              /\ \A j : j # at[t] => Updating(j)' = Updating(j)
              /\ \A j : j = at[t] => Updating(j)' \subseteq Updating(j) \cup {t}
              /\ pc'[t] = "config" => \A j : Updating(j)' = Updating(j)
    <2> SUFFICES ASSUME SetPreferableConnectionPoolSize(t)
                 PROVE  /\ \A j : j # at[t] => Updating(j)' = Updating(j)
                        /\ \A j : j = at[t] => Updating(j)' \subseteq Updating(j) \cup {t}
                        /\ pc'[t] = "config" => \A j : Updating(j)' = Updating(j)
      OBVIOUS
    <2>1. /\ at' = at /\ pc[t] = "prefer"
          /\ pc' = [pc EXCEPT ![t] = "compute"] \/ pc' = [pc EXCEPT ![t] = "config"]
      BY DEF SetPreferableConnectionPoolSize, Goto
    <2>2. \A j : j # at[t] => Updating(j)' = Updating(j)
      BY <1>0, <2>1 DEF Updating
    <2> QED BY <1>0, <2>1, <2>2 DEF Updating
  <1>5. UpdateConnectionPoolSize(t) => \A j : Updating(j)' = Updating(j)
    BY <1>0 DEF UpdateConnectionPoolSize, Goto, Updating
  <1>6. SetMaxSize(t) =>
              /\ \A j : j # at[t] => Updating(j)' = Updating(j)
              /\ \A j : j = at[t] => Updating(j)' = Updating(j) \ {t}
    BY <1>0 DEF SetMaxSize, Goto, Updating
  <1>7. SetConfig(t) => \A j : Updating(j)' = Updating(j)
    BY <1>0 DEF SetConfig, Goto, Updating
  <1>8. Resolve(t, k) => /\ \A j : j # k => Updating(j)' = Updating(j)
                         /\ Updating(k)' = Updating(k) \cup {t}
    BY <1>0 DEF Resolve, Goto, Updating
  <1>9. LearnMaster(t, k) => \A j : Updating(j)' = Updating(j)
    BY DEF LearnMaster, threads, Updating
  <1> QED BY <1>1, <1>2, <1>3, <1>4, <1>5, <1>6, <1>7, <1>8, <1>9

LEMMA UpdatesAloneStep ==
  ASSUME IInv, [Next]_vars
  PROVE  UpdatesAlone'
  <1> USE DEF IInv, UpdatesAlone
  <1>1. ASSUME NEW t \in Thread, NEW k \in Key,
               \/ GetGridStore(t, k) \/ SetConnectionConfig(t, k) \/ LearnMaster(t, k)
               \/ \E p \in Properties : SetProperties(t, p)
               \/ UpdateConnectionPoolSize(t) \/ SetConfig(t)
        PROVE  UpdatesAlone'
    <2>1. raced' = raced
      BY <1>1 DEF GetGridStore, SetConnectionConfig, LearnMaster, SetProperties,
         UpdateConnectionPoolSize, SetConfig, history
    <2> QED BY <1>1, <2>1, UpdatingSteps
  <1>2. ASSUME NEW t \in Thread, NEW k \in Key, Begin(t, k),
               \A j \in Key \ {k} : Updating(j)' = Updating(j),
               Updating(k)' \subseteq Updating(k) \cup {t}
        PROVE  UpdatesAlone'
    BY <1>2 DEF Begin
  <1>3. ASSUME NEW t \in Thread, SetPreferableConnectionPoolSize(t)
        PROVE  UpdatesAlone'
    <2>0. PICK k \in Key : k = at[t]
      BY DEF TypeOK
    <2>1. /\ \A j \in Key \ {k} : Updating(j)' = Updating(j)
          /\ Updating(k)' \subseteq Updating(k) \cup {t}
          /\ pc'[t] = "config" => \A j : Updating(j)' = Updating(j)
      BY <1>3, <2>0, UpdatingSteps
    <2>2. CASE Begin(t, at[t])
      BY <1>2, <2>0, <2>1, <2>2
    <2>3. CASE Goto(t, "config") /\ UNCHANGED raced
      <3>1. pc'[t] = "config"
        BY <2>3 DEF Goto, TypeOK
      <3> QED BY <2>1, <2>3, <3>1
    <2> QED BY <1>3, <2>2, <2>3 DEF SetPreferableConnectionPoolSize
  <1>4. ASSUME NEW t \in Thread, NEW k \in Key, Resolve(t, k)
        PROVE  UpdatesAlone'
    <2>1. /\ \A j \in Key \ {k} : Updating(j)' = Updating(j)
          /\ Updating(k)' \subseteq Updating(k) \cup {t}
      BY <1>4, UpdatingSteps
    <2> QED BY <1>2, <1>4, <2>1 DEF Resolve
  <1>5. ASSUME NEW t \in Thread, SetMaxSize(t)
        PROVE  UpdatesAlone'
    <2>0. PICK k \in Key : k = at[t]
      BY DEF TypeOK
    <2>1. raced' = raced
      BY <1>5 DEF SetMaxSize, history
    <2>2. \A j \in Key : Updating(j)' \subseteq Updating(j)
      BY <1>5, <2>0, UpdatingSteps
    <2> QED BY <2>1, <2>2
  <1>6. CASE UNCHANGED vars
    BY <1>6 DEF vars, threads, history, Updating
  <1>7. Key # {}
    BY FactoryAssumption
  <1> QED BY <1>1, <1>3, <1>4, <1>5, <1>6, <1>7, NextSplit

(* The pools that a step has nothing to do with. *)
SameSize(k) ==
  /\ k \in raced => k \in raced'
  /\ k \in short => k \in short'
  /\ Updating(k)' = Updating(k)
  /\ resolver'[k].preferable = resolver[k].preferable
  /\ k \in short' \/ resolver'[k].addresses = resolver[k].addresses
  /\ maxSize'[k] = maxSize[k]
  /\ \A t \in Updating(k) : size'[t] = size[t] /\ (pc'[t] = "resize" => pc[t] = "resize")

Current(k) ==
  k \notin raced \cup short =>
    /\ \A t \in Updating(k) : pc[t] = "resize" => size[t] = PoolSize(k)
    /\ Updating(k) = {} => maxSize[k] = PoolSize(k)

LEMMA SameSizeCurrent ==
  ASSUME NEW k \in Key, SizesCurrent, SameSize(k)
  PROVE  Current(k)'
  <1>1. Current(k)
    BY DEF SizesCurrent, Current
  <1>2. ASSUME k \notin raced' \cup short'
        PROVE  k \notin raced \cup short /\ PoolSize(k)' = PoolSize(k)
    BY <1>2 DEF SameSize, PoolSize
  <1> QED BY <1>1, <1>2 DEF Current, SameSize

LEMMA SizesCurrentStep ==
  ASSUME IInv, [Next]_vars
  PROVE  SizesCurrent'
  <1> USE DEF IInv
  <1>0. /\ at \in [Thread -> Key] /\ size \in [Thread -> Nat] /\ maxSize \in [Key -> Nat]
        /\ pc \in [Thread -> {"idle", "apply", "prefer", "compute", "resize", "config"}]
    BY DEF TypeOK
  <1> SUFFICES ASSUME NEW k \in Key
               PROVE  Current(k)'
    BY DEF SizesCurrent, Current
  <1>1. ASSUME NEW t \in Thread, NEW j \in Key,
               GetGridStore(t, j) \/ SetConnectionConfig(t, j)
        PROVE  Current(k)'
    <2>1. /\ UNCHANGED <<raced, short, maxSize, size>>
          /\ \A u \in Thread : pc'[u] = "resize" => pc[u] = "resize"
      BY <1>0, <1>1 DEF GetGridStore, NewChannel, ApplyTo, SetConnectionConfig, history, Goto
    <2>2. /\ resolver'[k].preferable = resolver[k].preferable
          /\ resolver'[k].addresses = resolver[k].addresses
      BY <1>1, ResolverSteps DEF GetGridStore
    <2>3. Updating(k)' = Updating(k)
      BY <1>1, UpdatingSteps
    <2> QED BY <2>1, <2>2, <2>3, SameSizeCurrent DEF SameSize, Updating
  <1>2. ASSUME NEW t \in Thread, (\E p \in Properties : SetProperties(t, p)) \/ SetConfig(t)
        PROVE  Current(k)'
    <2>1. /\ UNCHANGED <<raced, short, maxSize, size, resolver>>
          /\ \A u \in Thread : pc'[u] = "resize" => pc[u] = "resize"
      BY <1>0, <1>2 DEF SetProperties, ApplyTo, SetConfig, history, Goto
    <2> QED BY <1>2, <2>1, UpdatingSteps, SameSizeCurrent DEF SameSize, Updating
  <1>3. ASSUME NEW t \in Thread, NEW j \in Key, LearnMaster(t, j)
        PROVE  Current(k)'
    <2>1. UNCHANGED <<raced, maxSize, size, pc>> /\ short' = short \cup {j}
      BY <1>3 DEF LearnMaster, threads
    <2>2. /\ resolver'[k].preferable = resolver[k].preferable
          /\ k # j => resolver'[k].addresses = resolver[k].addresses
      BY <1>3, ResolverSteps
    <2> QED BY <1>3, <2>1, <2>2, UpdatingSteps, SameSizeCurrent DEF SameSize
  (* An update begins. *)
  <1>4. ASSUME NEW t \in Thread, Begin(t, k), pc'[t] = "compute",
               Updating(k)' \subseteq Updating(k) \cup {t}, t \in Updating(k)'
        PROVE  Current(k)'
    BY <1>4 DEF Begin, Current
  <1>5. ASSUME NEW t \in Thread, SetPreferableConnectionPoolSize(t)
        PROVE  Current(k)'
    <2>1. /\ UNCHANGED <<at, short, maxSize, size>>
          /\ \A u \in Thread : pc'[u] = "resize" => pc[u] = "resize"
      BY <1>0, <1>5 DEF SetPreferableConnectionPoolSize, Goto
    <2>2. CASE k = at[t] /\ Begin(t, k) /\ Goto(t, "compute")
      BY <1>0, <1>4, <1>5, <2>1, <2>2, UpdatingSteps DEF Goto, Updating
    <2>3. CASE k # at[t] /\ Begin(t, at[t]) /\ Goto(t, "compute")
      BY <1>5, <2>1, <2>3, UpdatingSteps, ResolverSteps, SameSizeCurrent
         DEF SameSize, Begin, Updating
    <2>4. CASE Goto(t, "config") /\ UNCHANGED <<resolver, raced>>
      <3>1. pc'[t] = "config"
        BY <1>0, <2>4 DEF Goto
      <3> QED BY <1>5, <2>1, <2>4, <3>1, UpdatingSteps, SameSizeCurrent DEF SameSize, Updating
    <2> QED BY <1>5, <2>2, <2>3, <2>4 DEF SetPreferableConnectionPoolSize
  <1>6. ASSUME NEW t \in Thread, NEW j \in Key, Resolve(t, j)
        PROVE  Current(k)'
    <2>1. /\ UNCHANGED <<short, maxSize, size>> /\ Begin(t, j)
          /\ \A u \in Thread : pc'[u] = "resize" => pc[u] = "resize"
          /\ pc'[t] = "compute"
      BY <1>0, <1>6 DEF Resolve, Goto
    <2>2. CASE k = j
      BY <1>4, <1>6, <2>1, <2>2, UpdatingSteps
    <2>3. CASE k # j
      BY <1>6, <2>1, <2>3, UpdatingSteps, ResolverSteps, SameSizeCurrent
         DEF SameSize, Begin, Updating
    <2> QED BY <2>2, <2>3
  (* The size is found, and set. *)
  <1>7. ASSUME NEW t \in Thread, UpdateConnectionPoolSize(t)
        PROVE  Current(k)'
    <2>1. /\ UNCHANGED <<at, raced, maxSize, resolver>> /\ short' = short \ {at[t]}
          /\ \A u \in Thread \ {t} : size'[u] = size[u] /\ pc'[u] = pc[u]
          /\ size'[t] = PoolSize(at[t]) /\ t \in Updating(at[t])
      BY <1>0, <1>7 DEF UpdateConnectionPoolSize, Goto, Updating
    <2>2. CASE k = at[t]
      <3>1. k \notin raced => \A u \in Updating(k) : u = t
        BY <2>1, <2>2 DEF UpdatesAlone
      <3> QED BY <1>7, <2>1, <2>2, <3>1, UpdatingSteps DEF Current, PoolSize
    <2>3. CASE k # at[t]
      BY <1>7, <2>1, <2>3, UpdatingSteps, SameSizeCurrent DEF SameSize, Updating
    <2> QED BY <2>2, <2>3
  <1>8. ASSUME NEW t \in Thread, SetMaxSize(t)
        PROVE  Current(k)'
    <2>1. /\ UNCHANGED <<raced, short, resolver>>
          /\ maxSize' = [maxSize EXCEPT ![at[t]] = size[t]]
          /\ \A u \in Thread \ {t} : size'[u] = size[u] /\ pc'[u] = pc[u]
          /\ t \in Updating(at[t]) /\ pc[t] = "resize"
      BY <1>0, <1>8 DEF SetMaxSize, Goto, Updating, history
    <2>2. CASE k = at[t]
      <3>1. k \notin raced => Updating(k)' = {}
        <4>1. Updating(k)' = Updating(k) \ {t} /\ t \in Updating(k)
          BY <1>8, <2>1, <2>2, UpdatingSteps
        <4> QED BY <4>1 DEF UpdatesAlone
      <3>2. k \notin raced \cup short => maxSize'[k] = PoolSize(k)
        BY <1>0, <2>1, <2>2 DEF SizesCurrent
      <3> QED BY <2>1, <3>1, <3>2 DEF Current, PoolSize
    <2>3. CASE k # at[t]
      <3>1. t \notin Updating(k)
        BY <2>3 DEF Updating
      <3>2. Updating(k)' = Updating(k) /\ maxSize'[k] = maxSize[k]
        BY <1>0, <1>8, <2>1, <2>3, UpdatingSteps
      <3>3. \A u \in Updating(k) : u \in Thread \ {t}
        BY <3>1 DEF Updating
      <3> QED BY <2>1, <3>2, <3>3, SameSizeCurrent DEF SameSize
    <2> QED BY <2>2, <2>3
  <1>9. CASE UNCHANGED vars
    BY <1>9, SameSizeCurrent DEF vars, threads, history, SameSize, Updating
  <1> QED BY <1>1, <1>2, <1>3, <1>5, <1>6, <1>7, <1>8, <1>9, NextSplit

LEMMA InitIInv == Init => IInv
  <1> SUFFICES ASSUME Init PROVE IInv
    OBVIOUS
  <1>0. AnyKey \in Key
    BY FactoryAssumption DEF AnyKey
  <1>1. DefaultConfig \in Configs /\ DefaultConfig.connection \in Connections
    BY FactoryAssumption DEF DefaultConfig, Configs, Connections
  <1>2. /\ resolver \in Resolvers
        /\ \A k \in Key : resolver[k].preferable = DEFAULT_MAX_SIZE /\ resolver[k].addresses = 0
    BY <1>1, FactoryAssumption DEF Init, Resolvers
  <1>3. TypeOK
    <2>1. /\ channelConfig \in [Key -> Configs] /\ maxSize \in [Key -> Nat]
          /\ at \in [Thread -> Key] /\ size \in [Thread -> Nat]
          /\ resolverMutex \in [Key -> Thread \cup {NoThread}]
          /\ pc \in [Thread -> {"idle", "apply", "prefer", "compute", "resize", "config"}]
      BY <1>0, <1>1, FactoryAssumption DEF Init
    <2>2. unapplied \in BOOLEAN
      BY DEF Init
    <2> QED BY <1>1, <1>2, <2>1, <2>2 DEF Init, TypeOK, Resolvers
  <1>4. LocksInv
    BY FactoryAssumption DEF Init, LocksInv
  <1>5. \A k \in Key : Updating(k) = {} /\ PoolSize(k) = DEFAULT_MAX_SIZE
    BY <1>2, FactoryAssumption DEF Init, Updating, PoolSize, Larger
  <1>6. UpdatesAlone /\ SizesCurrent
    BY <1>5 DEF Init, UpdatesAlone, SizesCurrent
  <1> QED BY <1>2, <1>3, <1>4, <1>6
      DEF Init, IInv, SocketsKept, ConfigApplied, PoolSizeApplied

LEMMA Inductive == Spec => []IInv
  <1>1. IInv /\ [Next]_vars => IInv'
    BY TypeStep, LocksStep, SocketsStep, ConfigAppliedStep, PoolSizeAppliedStep,
       UpdatesAloneStep, SizesCurrentStep DEF IInv
  <1> QED BY <1>1, InitIInv, PTL DEF Spec

-----------------------------------------------------------------------------
(* The mutex of the factory and those of the resolvers are each held by one *)
(* thread, for what it is doing; every variable of the factory has its type.*)
THEOREM FactoryTypeCorrect == Spec => [](TypeOK /\ LocksInv)
  BY Inductive, PTL DEF IInv

(* After setProperties and getGridStore every channel has the settings of   *)
(* the factory, in both of the places that GridStoreChannel::apply sets,    *)
(* whatever the other threads were doing.                                   *)
THEOREM FactoryConfigReflected == Spec => []ConfigReflected
  <1>1. IInv => ConfigReflected
    BY DEF IInv, ConfigReflected, ConfigApplied, LocksInv
  <1> QED BY <1>1, Inductive, PTL

(* updateConnectionPoolSize leaves the pool with room for what is preferred *)
(* and for the addresses known, unless two threads were at it or an address *)
(* of a master came later; and the factory's size reaches every channel.    *)
THEOREM FactoryPoolSizeFollows == Spec => []PoolSizeFollows
  <1>1. IInv => PoolSizeFollows
    <2> SUFFICES ASSUME IInv PROVE PoolSizeFollows
      OBVIOUS
    <2>1. channelMap \subseteq Key
      BY DEF IInv, TypeOK
    <2>2. \A k \in channelMap : Updating(k) = {} /\ k \notin raced \cup short =>
            maxSize[k] = Larger(resolver[k].preferable, resolver[k].addresses)
      BY <2>1 DEF IInv, SizesCurrent, PoolSize
    <2>3. \A k \in channelMap : owner = NoThread /\ ~ unapplied /\ k \notin created =>
            resolver[k].preferable = PreferredSize
      BY DEF IInv, LocksInv, PoolSizeApplied
    <2> QED BY <2>2, <2>3 DEF PoolSizeFollows, PreferredSize
  <1> QED BY <1>1, Inductive, PTL
=============================================================================
