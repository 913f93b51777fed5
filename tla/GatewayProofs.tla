--------------------------- MODULE GatewayProofs ----------------------------
(***************************************************************************)
(* Proofs about the services of the gateway, for any values of the         *)
(* constants that satisfy what DeviceServices assumes of them.  For each   *)
(* component there is an inductive invariant, named IInv after its prefix: *)
(* it holds at the start (...InitInvariant), is preserved by every step of *)
(* the component (...InvariantStep) and implies what is checked (...Kept). *)
(* The theorems of the composition are in DeviceServicesProofs.            *)
(***************************************************************************)
EXTENDS DeviceServices, FiniteSetTheorems, TLAPS

-----------------------------------------------------------------------------
(* The settings of the gateway (settings/db.rs, http/handlers.rs).  A save in  *)
(* progress has, for each key, either written it or has it yet to write.       *)

\* A save in progress: the statements it has left are among those that write the
\* configuration w it wants, and what they do not write has its value already.
ConfigField == {"network", "routes", "all"}
ConfigInsert(p) == [op |-> "insert", peer |-> p]
ConfigOwes(td, s) == \E i \in 1..Len(td) : td[i] = s
ConfigWrites(w) == {Config!Set(k, w[k]) : k \in ConfigField}
                   \cup {Config!Set("codename", n) : n \in ConfigName}
                   \cup {Config!SetModule(k, w.radio[k]) : k \in Config!RadioKey}
                   \cup {Config!Clear} \cup {ConfigInsert(p) : p \in w.peers}
ConfigOrdered(td) ==
  \A i, j \in 1..Len(td) :
    /\ td[j] = Config!Clear =>
         /\ td[i] = Config!Clear => i = j
         /\ td[i].op = "insert" => j < i
         /\ td[i].op = "set" => i < j
    /\ td[j].op = "module" /\ td[i].op # "module" => i < j
ConfigValue(st, k) == IF st[k] = None THEN ConfigDefault[k] ELSE st[k]
ConfigModuleValue(ms, k) == IF ms[k] = None THEN ConfigDefault.radio[k] ELSE ms[k]
ConfigWritten(st, ms, ps, td, w) ==
  /\ \A k \in ConfigField :
       ConfigValue(st, k) = w[k] \/ ConfigOwes(td, Config!Set(k, w[k]))
  /\ \A k \in Config!RadioKey :
       \/ ConfigModuleValue(ms, k) = w.radio[k]
       \/ ConfigOwes(td, Config!SetModule(k, w.radio[k]))
  /\ \A p \in w.peers :
       ConfigOwes(td, ConfigInsert(p)) \/ (p \in ps /\ ~ConfigOwes(td, Config!Clear))
  /\ ConfigOwes(td, Config!Clear) \/ ps \subseteq w.peers

\* A request for one module or for the codename writes nothing else.
ConfigNarrow(td, j) ==
  /\ j.kind \in {"radio", "save_module"} => \A i \in 1..Len(td) :
       \E h \in Config!Half : td[i].op = "module" /\ td[i].key = <<j.module, h>>
  /\ j.kind = "codename" => \A i \in 1..Len(td) : td[i] = Config!Set("codename", j.name)

\* How far the save has come: at the settings, at the peers or at the modules.
ConfigUntouched(ms, was) ==
  \A k \in Config!RadioKey : ConfigModuleValue(ms, k) = was.radio[k]
ConfigHasFields(st, w) == \A k \in ConfigField : ConfigValue(st, k) = w[k]
ConfigAt(st, ms, ps, td, w, was) ==
  \/ ConfigOwes(td, Config!Clear) /\ ps = was.peers /\ ConfigUntouched(ms, was)
  \/ ~ConfigOwes(td, Config!Clear) /\ ConfigHasFields(st, w) /\ ConfigUntouched(ms, was)
  \/ ~ConfigOwes(td, Config!Clear) /\ ConfigHasFields(st, w) /\ ps = w.peers

\* What is in the tables in the meantime is of one of the two configurations.
ConfigBetween(st, ms, ps, td, w, was) ==
  /\ \A k \in ConfigField : ConfigValue(st, k) \in {was[k], w[k]}
  /\ \A k \in Config!RadioKey : ConfigModuleValue(ms, k) \in {was.radio[k], w.radio[k]}
  /\ ConfigAt(st, ms, ps, td, w, was)

ConfigSaving(st, ms, ps, td, w, was) ==
  /\ td \in Seq(ConfigWrites(w)) /\ ConfigOrdered(td)
  /\ ConfigWritten(st, ms, ps, td, w) /\ ConfigBetween(st, ms, ps, td, w, was)

\* The requests at their steps.
ConfigJobFits(p, j) ==
  /\ p # "idle" => j \in Config!Request
  /\ p = "policy" => j.kind \in {"settings", "access"}
  /\ p = "routes" => j.kind \in {"settings", "routes"}
  /\ p \in {"tune"} \cup Config!Half => j.kind \in {"radio", "save_module"}
ConfigIsVpn(v) == v = [all |-> v.all, peers |-> v.peers, routes |-> v.routes]
ConfigStepsKept ==
  /\ holder \in Client \cup {None}
  /\ config_job \in [Client -> Config!Request \cup {Config!Idle}]
  /\ todo = [c \in Client |-> todo[c]]
  /\ settings = [k \in Config!Key |-> settings[k]]
  /\ modules = [k \in Config!RadioKey |-> modules[k]]
  /\ radio = [k \in Config!RadioKey |-> radio[k]]
  /\ \A c \in Client : ConfigJobFits(pc[c], config_job[c])
  /\ vpn # Config!NoVpn => ConfigIsVpn(vpn)
  /\ \A c \in Client : pc[c] \in {"policy", "routes"} => ConfigIsVpn(vpn)

ConfigDatabaseKept ==
  /\ holder = None => Config!LoadConfig = meant
  /\ \A c \in Client : pc[c] = "saving" =>
       /\ ConfigSaving(settings, modules, peers, todo[c],
                       Config!Wanted(config_job[c], meant), meant)
       /\ ConfigNarrow(todo[c], config_job[c])

\* The runtime: a part that is not excused is as meant, or one request alone has
\* the value that is meant and has yet to apply it.
ConfigPartOf(w, x) ==
  IF x = "policy" THEN [all |-> w.all, peers |-> w.peers]
  ELSE IF x = "routes" THEN w.routes ELSE [h \in Config!Half |-> w.radio[<<x, h>>]]
ConfigFollowed(x) ==
  (x \in ConfigModule \/ vpn # Config!NoVpn) /\ (\A c \in Client : x \notin Config!Pending(c))
    => Config!Live(x) = ConfigPartOf(meant, x)
ConfigBrings(c, x) ==
  x \in Config!Pending(c) =>
    /\ ConfigPartOf(Config!Wanted(config_job[c], meant), x) = ConfigPartOf(meant, x)
    /\ \A d \in Client \ {c} : x \notin Config!Pending(d)
    /\ pc[c] = "routes" /\ x = "policy" => Config!Live(x) = ConfigPartOf(meant, x)
    /\ pc[c] = "modulation" =>
         radio[<<x, "radio_config">>] = meant.radio[<<x, "radio_config">>]
ConfigRuntimeKept ==
  up = "serving" =>
    \A x \in Config!Part \ excused :
      ConfigFollowed(x) /\ \A c \in Client : ConfigBrings(c, x)

ConfigIInv ==
  /\ Config!TypeOK
  /\ ConfigStepsKept
  /\ ConfigDatabaseKept
  /\ ConfigRuntimeKept

-----------------------------------------------------------------------------
(* Sequences of statements *)

\* A finite set as a sequence, as SetToSeq makes it.
LEMMA ConfigSeqOfSet ==
  ASSUME NEW S, IsFiniteSet(S)
  PROVE  /\ Config!SetToSeq(S) \in Seq(S)
         /\ \A x \in S : \E i \in 1..Len(Config!SetToSeq(S)) : Config!SetToSeq(S)[i] = x
<1> DEFINE n == Cardinality(S)
<1>1. n \in Nat /\ IsFiniteSet(1..n) /\ Cardinality(1..n) = n
  BY FS_CardinalityType, FS_Interval
<1>2. ExistsBijection(1..n, S)
  BY FS_CardinalityType
<1>3. Config!Cardinality(S) = n /\ \A f : Config!IsInjective(f) <=> IsInjective(f)
  BY DEF Config!Cardinality, Cardinality, Config!IsInjective, IsInjective
<1>4. \E f \in [1..n -> S] : IsInjective(f)
  BY <1>2 DEF ExistsBijection, Bijection, Injection, IsInjective
<1>5. Config!SetToSeq(S) \in [1..n -> S] /\ Config!IsInjective(Config!SetToSeq(S))
  BY <1>3, <1>4 DEF Config!SetToSeq
<1>6. Config!SetToSeq(S) \in Injection(1..n, S)
  BY <1>3, <1>5 DEF Injection, IsInjective
<1>7. Config!SetToSeq(S) \in Surjection(1..n, S)
  BY <1>1, <1>6, FS_Injection
<1> QED BY <1>1, <1>5, <1>7 DEF Surjection

LEMMA ConfigConcatenated ==
  ASSUME NEW S, NEW s \in Seq(S), NEW t \in Seq(S)
  PROVE  /\ s \o t \in Seq(S) /\ Len(s \o t) = Len(s) + Len(t)
         /\ \A i \in 1..Len(s \o t) :
              \/ i \in 1..Len(s) /\ (s \o t)[i] = s[i]
              \/ i > Len(s) /\ \E j \in 1..Len(t) : (s \o t)[i] = t[j]
         /\ \A x : ConfigOwes(s, x) \/ ConfigOwes(t, x) => ConfigOwes(s \o t, x)
<1>1. s \o t \in Seq(S) /\ Len(s \o t) = Len(s) + Len(t)
  OBVIOUS
<1>2. \A i \in 1..Len(s) : i \in 1..Len(s \o t) /\ (s \o t)[i] = s[i]
  BY <1>1
<1>3. \A j \in 1..Len(t) : Len(s) + j \in 1..Len(s \o t) /\ (s \o t)[Len(s) + j] = t[j]
  BY <1>1
<1>4. \A i \in 1..Len(s \o t) :
        \/ i \in 1..Len(s) /\ (s \o t)[i] = s[i]
        \/ i > Len(s) /\ \E j \in 1..Len(t) : (s \o t)[i] = t[j]
  <2>1. ASSUME NEW i \in 1..Len(s \o t), i > Len(s)
        PROVE  i - Len(s) \in 1..Len(t) /\ (s \o t)[i] = t[i - Len(s)]
    BY <1>1, <2>1
  <2>2. ASSUME NEW i \in 1..Len(s \o t), ~(i > Len(s)) PROVE i \in 1..Len(s)
    BY <1>1, <2>2
  <2> QED BY <1>2, <2>1, <2>2
<1>5. \A x : ConfigOwes(s, x) \/ ConfigOwes(t, x) => ConfigOwes(s \o t, x)
  BY <1>2, <1>3 DEF ConfigOwes
<1> QED BY <1>1, <1>4, <1>5

\* The statements of the peers, and of the radio modules.
LEMMA ConfigInsertsWritten ==
  ASSUME NEW ps \in SUBSET ConfigPeer
  PROVE  /\ Config!Inserts(ps) \in Seq({ConfigInsert(p) : p \in ps})
         /\ \A p \in ps : ConfigOwes(Config!Inserts(ps), ConfigInsert(p))
<1> DEFINE s == Config!SetToSeq(ps)
<1>1. IsFiniteSet(ps)
  BY ConfigAssumption, FS_Subset
<1>2. s \in Seq(ps) /\ \A x \in ps : \E i \in 1..Len(s) : s[i] = x
  BY <1>1, ConfigSeqOfSet
<1>3. Config!Inserts(ps) = [i \in 1..Len(s) |-> ConfigInsert(s[i])]
  BY DEF Config!Inserts, ConfigInsert
<1> HIDE DEF s
<1>4. Config!Inserts(ps) \in Seq({ConfigInsert(p) : p \in ps})
  <2>1. Len(s) \in Nat /\ \A i \in 1..Len(s) : s[i] \in ps
    BY <1>2
  <2> QED BY <1>3, <2>1
<1>5. /\ Len(Config!Inserts(ps)) = Len(s)
      /\ \A i \in 1..Len(s) : Config!Inserts(ps)[i] = ConfigInsert(s[i])
  BY <1>2, <1>3
<1> QED BY <1>2, <1>4, <1>5 DEF ConfigOwes

LEMMA ConfigModulesWritten ==
  ASSUME NEW w
  PROVE  /\ Config!AllModules(w) \in Seq({Config!SetModule(k, w.radio[k]) : k \in Config!RadioKey})
         /\ \A k \in Config!RadioKey :
              ConfigOwes(Config!AllModules(w), Config!SetModule(k, w.radio[k]))
<1> DEFINE s == Config!SetToSeq(ConfigModule)
           S == {Config!SetModule(k, w.radio[k]) : k \in Config!RadioKey}
           A == Config!AllModules(w)
<1>1. s \in Seq(ConfigModule) /\ \A x \in ConfigModule : \E i \in 1..Len(s) : s[i] = x
  BY ConfigAssumption, ConfigSeqOfSet
<1>2. \A m \in ConfigModule :
        /\ Config!ModuleStatements(w, m)[1]
             = Config!SetModule(<<m, "radio_config">>, w.radio[<<m, "radio_config">>])
        /\ Config!ModuleStatements(w, m)[2]
             = Config!SetModule(<<m, "modulation">>, w.radio[<<m, "modulation">>])
        /\ Config!ModuleStatements(w, m)[1] \in S /\ Config!ModuleStatements(w, m)[2] \in S
  BY DEF Config!ModuleStatements, Config!RadioKey, Config!Half
<1>3. A = [i \in 1..(2 * Len(s)) |-> Config!ModuleStatements(w, s[(i + 1) \div 2])[2 - (i % 2)]]
  BY DEF Config!AllModules
<1> HIDE DEF s, S, A
<1>4. \A i \in 1..(2 * Len(s)) : (i + 1) \div 2 \in 1..Len(s) /\ 2 - (i % 2) \in {1, 2}
  BY <1>1
<1>5. A \in Seq(S)
  <2>1. \A i \in 1..(2 * Len(s)) : A[i] \in S
    <3> TAKE i \in 1..(2 * Len(s))
    <3>1. PICK y \in {1, 2} : A[i] = Config!ModuleStatements(w, s[(i + 1) \div 2])[y]
      BY <1>3, <1>4
    <3>2. s[(i + 1) \div 2] \in ConfigModule
      BY <1>1, <1>4
    <3> QED BY <1>2, <3>1, <3>2
  <2>2. 2 * Len(s) \in Nat
    BY <1>1
  <2> QED BY <1>3, <2>1, <2>2
<1>6. ASSUME NEW m \in ConfigModule, NEW h \in Config!Half
      PROVE  ConfigOwes(A, Config!SetModule(<<m, h>>, w.radio[<<m, h>>]))
  <2>1. PICK j \in 1..Len(s) : s[j] = m
    BY <1>1
  <2>2. Len(A) = 2 * Len(s) /\ j \in Nat /\ j >= 1 /\ j <= Len(s) /\ Len(s) \in Nat
    BY <1>1, <1>3
  <2>3. CASE h = "radio_config"
    <3>1. /\ 2 * j - 1 \in 1..(2 * Len(s))
          /\ (2 * j - 1 + 1) \div 2 = j
          /\ (2 * j - 1) % 2 = 1
      BY <2>2
    <3>2. A[2 * j - 1] = Config!ModuleStatements(w, m)[1]
      BY <1>3, <2>1, <3>1
    <3> QED BY <1>2, <2>2, <2>3, <3>1, <3>2 DEF ConfigOwes
  <2>4. CASE h = "modulation"
    <3>1. 2 * j \in 1..(2 * Len(s)) /\ (2 * j + 1) \div 2 = j /\ (2 * j) % 2 = 0
      BY <2>2
    <3>2. A[2 * j] = Config!ModuleStatements(w, m)[2]
      BY <1>3, <2>1, <3>1
    <3> QED BY <1>2, <2>2, <2>4, <3>1, <3>2 DEF ConfigOwes
  <2> QED BY <2>3, <2>4 DEF Config!Half
<1> QED BY <1>5, <1>6 DEF Config!RadioKey, S, A

LEMMA ConfigFieldsPresent ==
  ASSUME NEW w, Config!IsConfig(w) PROVE \A k \in ConfigField : w[k] # None
BY DEF Config!IsConfig, ConfigField

\* A whole configuration: every value of it is written, the peers after the
\* table was emptied.
LEMMA ConfigSaveWritesAll ==
  ASSUME NEW w, Config!IsConfig(w)
  PROVE  /\ Config!SaveConfig(w) \in Seq(ConfigWrites(w))
         /\ ConfigOrdered(Config!SaveConfig(w))
         /\ \A k \in ConfigField : ConfigOwes(Config!SaveConfig(w), Config!Set(k, w[k]))
         /\ \A k \in Config!RadioKey :
              ConfigOwes(Config!SaveConfig(w), Config!SetModule(k, w.radio[k]))
         /\ ConfigOwes(Config!SaveConfig(w), Config!Clear)
         /\ \A p \in w.peers : ConfigOwes(Config!SaveConfig(w), ConfigInsert(p))
<1> DEFINE H == <<Config!Set("network", w.network), Config!Set("routes", w.routes),
                  Config!Set("all", w.all), Config!Clear>>
           I == Config!Inserts(w.peers)
           M == Config!AllModules(w)
           S == ConfigWrites(w)
<1>1. w.network = w["network"] /\ w.routes = w["routes"] /\ w.all = w["all"]
  OBVIOUS
<1>2. /\ \A k \in ConfigField : Config!Set(k, w[k]) \in S
      /\ Config!Clear \in S
      /\ \A p \in w.peers : ConfigInsert(p) \in S
      /\ \A k \in Config!RadioKey : Config!SetModule(k, w.radio[k]) \in S
  BY DEF ConfigWrites
<1>3. H \in Seq(S) /\ Len(H) = 4
  BY <1>1, <1>2 DEF ConfigField
<1>4. w.peers \in SUBSET ConfigPeer
  BY DEF Config!IsConfig
<1>5. I \in Seq(S) /\ (\A p \in w.peers : ConfigOwes(I, ConfigInsert(p)))
      /\ \A i \in 1..Len(I) : I[i].op = "insert"
  <2>1. /\ I \in Seq({ConfigInsert(p) : p \in w.peers})
        /\ \A p \in w.peers : ConfigOwes(I, ConfigInsert(p))
    BY <1>4, ConfigInsertsWritten
  <2>2. {ConfigInsert(p) : p \in w.peers} \subseteq S
    BY <1>2
  <2> HIDE DEF I
  <2>3. \A i \in 1..Len(I) : I[i].op = "insert"
    BY <2>1 DEF ConfigInsert
  <2> QED BY <2>1, <2>2, <2>3
<1>6. M \in Seq(S) /\ (\A k \in Config!RadioKey : ConfigOwes(M, Config!SetModule(k, w.radio[k])))
      /\ \A i \in 1..Len(M) : M[i].op = "module"
  <2>1. /\ M \in Seq({Config!SetModule(k, w.radio[k]) : k \in Config!RadioKey})
        /\ \A k \in Config!RadioKey : ConfigOwes(M, Config!SetModule(k, w.radio[k]))
    BY ConfigModulesWritten
  <2>2. {Config!SetModule(k, w.radio[k]) : k \in Config!RadioKey} \subseteq S
    BY <1>2
  <2> HIDE DEF M
  <2>3. \A i \in 1..Len(M) : M[i].op = "module"
    BY <2>1 DEF Config!SetModule
  <2> QED BY <2>1, <2>2, <2>3
<1>7. /\ H[1] = Config!Set("network", w["network"]) /\ H[2] = Config!Set("routes", w["routes"])
      /\ H[3] = Config!Set("all", w["all"]) /\ H[4] = Config!Clear
      /\ \A i \in 1..4 : i # 4 => H[i].op = "set"
  BY <1>1 DEF Config!Set
<1>8. /\ (\A k \in ConfigField : ConfigOwes(H, Config!Set(k, w[k])))
      /\ ConfigOwes(H, Config!Clear)
  BY <1>3, <1>7 DEF ConfigField, ConfigOwes
<1>9. Config!SaveConfig(w) = (H \o I) \o M
  BY DEF Config!SaveConfig
<1> HIDE DEF H, I, M, S
<1>10. /\ H \o I \in Seq(S) /\ Len(H \o I) = Len(H) + Len(I)
       /\ \A i \in 1..Len(H \o I) :
            \/ i \in 1..Len(H) /\ (H \o I)[i] = H[i]
            \/ i > Len(H) /\ \E j \in 1..Len(I) : (H \o I)[i] = I[j]
       /\ \A x : ConfigOwes(H, x) \/ ConfigOwes(I, x) => ConfigOwes(H \o I, x)
  BY <1>3, <1>5, ConfigConcatenated
<1> DEFINE HI == H \o I
<1>11. /\ (H \o I) \o M \in Seq(S)
       /\ \A i \in 1..Len((H \o I) \o M) :
            \/ i \in 1..Len(H \o I) /\ ((H \o I) \o M)[i] = (H \o I)[i]
            \/ i > Len(H \o I) /\ \E j \in 1..Len(M) : ((H \o I) \o M)[i] = M[j]
       /\ \A x : ConfigOwes(H \o I, x) \/ ConfigOwes(M, x) =>
            ConfigOwes((H \o I) \o M, x)
  <2>1. M \in Seq(S) /\ HI \in Seq(S)
    BY <1>6, <1>10
  <2> HIDE DEF HI
  <2>2. /\ HI \o M \in Seq(S)
        /\ \A i \in 1..Len(HI \o M) :
             \/ i \in 1..Len(HI) /\ (HI \o M)[i] = HI[i]
             \/ i > Len(HI) /\ \E j \in 1..Len(M) : (HI \o M)[i] = M[j]
        /\ \A x : ConfigOwes(HI, x) \/ ConfigOwes(M, x) => ConfigOwes(HI \o M, x)
    BY <2>1, ConfigConcatenated
  <2> QED BY <2>2 DEF HI
<1> DEFINE td == (H \o I) \o M
<1> DEFINE n == Len(H \o I)
<1>12. /\ n \in Nat /\ n >= 4
       /\ \A i \in 1..Len(td) :
            \/ i \in 1..4 /\ td[i] = H[i]
            \/ i > 4 /\ i <= n /\ td[i].op = "insert"
            \/ i > n /\ td[i].op = "module"
  <2>1. n = 4 + Len(I) /\ Len(I) \in Nat
    BY <1>3, <1>5, <1>10
  <2>2. ASSUME NEW i \in 1..Len(td)
        PROVE  \/ i \in 1..4 /\ td[i] = H[i]
               \/ i > 4 /\ i <= n /\ td[i].op = "insert"
               \/ i > n /\ td[i].op = "module"
    <3>1. CASE i \in 1..n /\ td[i] = (H \o I)[i]
      BY <1>3, <1>5, <1>10, <3>1
    <3>2. CASE i > n /\ \E j \in 1..Len(M) : td[i] = M[j]
      BY <1>6, <2>1, <3>2
    <3> QED BY <1>11, <3>1, <3>2
  <2> QED BY <2>1, <2>2
<1>13. ConfigOrdered(td)
  <2> HIDE DEF td, n
  <2>1. Config!Clear.op = "clear"
    BY DEF Config!Clear
  <2>2. ASSUME NEW i \in 1..Len(td)
        PROVE  \/ i \in 1..3 /\ td[i].op = "set"
               \/ i = 4 /\ td[i].op = "clear"
               \/ i > 4 /\ i <= n /\ td[i].op = "insert"
               \/ i > n /\ td[i].op = "module"
    <3>1. CASE i \in 1..4 /\ td[i] = H[i]
      <4>1. i \in 1..3 \/ i = 4
        BY <3>1
      <4> QED BY <1>7, <2>1, <3>1, <4>1
    <3> QED BY <1>12, <3>1
  <2>3. ASSUME NEW i \in 1..Len(td), NEW j \in 1..Len(td), td[j] = Config!Clear
        PROVE  /\ td[i] = Config!Clear => i = j
               /\ td[i].op = "insert" => j < i
               /\ td[i].op = "set" => i < j
    <3>1. j = 4
      BY <2>1, <2>2, <2>3
    <3> QED BY <2>1, <2>2, <3>1
  <2>4. ASSUME NEW i \in 1..Len(td), NEW j \in 1..Len(td),
               td[j].op = "module", td[i].op # "module"
        PROVE  i < j
    <3>1. j > n
      BY <2>2, <2>4
    <3>2. i <= n
      BY <1>12, <2>2, <2>4
    <3> QED BY <1>12, <3>1, <3>2
  <2> QED BY <2>3, <2>4 DEF ConfigOrdered
<1> QED BY <1>5, <1>6, <1>8, <1>9, <1>10, <1>11, <1>13 DEF S

\* Taking the first statement of a sequence.
LEMMA ConfigTailOwes ==
  ASSUME NEW S, NEW td \in Seq(S), td # <<>>
  PROVE  /\ Head(td) = td[1] /\ Head(td) \in S /\ Tail(td) \in Seq(S)
         /\ 1 \in 1..Len(td)
         /\ \A i \in 1..Len(Tail(td)) :
              i + 1 \in 1..Len(td) /\ i + 1 # 1 /\ Tail(td)[i] = td[i + 1]
         /\ \A s : ConfigOwes(td, s) => s = Head(td) \/ ConfigOwes(Tail(td), s)
         /\ \A s : ConfigOwes(Tail(td), s) => ConfigOwes(td, s)
<1>1. /\ Head(td) = td[1] /\ Head(td) \in S /\ Tail(td) \in Seq(S)
      /\ Len(td) \in Nat /\ Len(td) >= 1 /\ Len(Tail(td)) = Len(td) - 1
  OBVIOUS
<1>2. \A i \in 1..Len(Tail(td)) :
        i + 1 \in 1..Len(td) /\ i + 1 # 1 /\ Tail(td)[i] = td[i + 1]
  BY <1>1
<1>3. \A i \in 1..Len(td) : i = 1 \/ (i - 1 \in 1..Len(Tail(td)) /\ Tail(td)[i - 1] = td[i])
  <2>1. ASSUME NEW i \in 1..Len(td), i # 1
        PROVE  i - 1 \in 1..Len(Tail(td)) /\ Tail(td)[i - 1] = td[i]
    <3>1. i - 1 \in 1..Len(Tail(td)) /\ (i - 1) + 1 = i
      BY <1>1, <2>1
    <3> QED BY <1>2, <3>1
  <2> QED BY <2>1
<1>4. \A s : ConfigOwes(td, s) => s = Head(td) \/ ConfigOwes(Tail(td), s)
  BY <1>1, <1>3 DEF ConfigOwes
<1>5. \A s : ConfigOwes(Tail(td), s) => ConfigOwes(td, s)
  BY <1>2 DEF ConfigOwes
<1> QED BY <1>1, <1>2, <1>4, <1>5

-----------------------------------------------------------------------------
(* Requests *)

LEMMA ConfigRequests ==
  ASSUME NEW j \in Config!Request
  PROVE  /\ j.kind \in {"settings", "save_settings", "routes", "access", "radio",
                        "save_module", "codename"}
         /\ j.kind \in {"settings", "save_settings"} => Config!IsConfig(j.config)
         /\ j.kind = "routes" => j.routes # None
         /\ j.kind = "access" => j.all # None /\ j.peers \subseteq ConfigPeer
         /\ j.kind \in {"radio", "save_module"} =>
              j.module \in ConfigModule /\ j.value # None
BY ConfigAssumption DEF Config!Request

LEMMA ConfigWantedIs ==
  ASSUME NEW j \in Config!Request, NEW was
  PROVE  /\ j.kind \in {"settings", "save_settings"} => Config!Wanted(j, was) = j.config
         /\ j.kind = "routes" =>
              Config!Wanted(j, was) = [was EXCEPT !.routes = j.routes]
         /\ j.kind = "access" =>
              Config!Wanted(j, was) = [was EXCEPT !.all = j.all, !.peers = j.peers]
         /\ j.kind \in {"radio", "save_module"} =>
              Config!Wanted(j, was) = [was EXCEPT !.radio =
                [k \in Config!RadioKey |-> IF k[1] = j.module THEN j.value ELSE was.radio[k]]]
         /\ j.kind = "codename" => Config!Wanted(j, was) = was
BY ConfigRequests DEF Config!Wanted

\* What a request wants is a configuration, and it differs in its own part only.
LEMMA ConfigWantedIsConfig ==
  ASSUME NEW j \in Config!Request, NEW was, Config!IsConfig(was)
  PROVE  /\ Config!IsConfig(Config!Wanted(j, was))
         /\ j.kind = "routes" => Config!Wanted(j, was) = 
              [network |-> was.network, routes |-> j.routes, all |-> was.all,
               peers |-> was.peers, radio |-> was.radio]
         /\ j.kind = "access" => Config!Wanted(j, was) =
              [network |-> was.network, routes |-> was.routes, all |-> j.all,
               peers |-> j.peers, radio |-> was.radio]
         /\ j.kind \in {"radio", "save_module"} => Config!Wanted(j, was) =
              [network |-> was.network, routes |-> was.routes, all |-> was.all,
               peers |-> was.peers, radio |->
                 [k \in Config!RadioKey |-> IF k[1] = j.module THEN j.value ELSE was.radio[k]]]
<1>1. was = [network |-> was.network, routes |-> was.routes, all |-> was.all,
             peers |-> was.peers, radio |-> was.radio]
  BY DEF Config!IsConfig
<1>2. CASE j.kind \in {"settings", "save_settings", "codename"}
  BY <1>2, ConfigRequests, ConfigWantedIs
<1> DEFINE W == Config!Wanted(j, was)
<1>3. CASE j.kind = "routes"
  <2>1. W = [was EXCEPT !.routes = j.routes]
    BY <1>3, ConfigWantedIs
  <2>2. W = [network |-> W.network, routes |-> W.routes, all |-> W.all,
             peers |-> W.peers, radio |-> W.radio]
    BY <1>1, <2>1
  <2>3. W = [network |-> was.network, routes |-> j.routes, all |-> was.all,
             peers |-> was.peers, radio |-> was.radio]
    BY <1>1, <2>1, <2>2
  <2>4. j.routes # None
    BY <1>3, ConfigRequests
  <2> HIDE DEF W
  <2>5. Config!IsConfig(W)
    BY <2>3, <2>4 DEF Config!IsConfig
  <2> QED BY <1>3, <2>3, <2>5 DEF W
<1>4. CASE j.kind = "access"
  <2>1. W = [was EXCEPT !.all = j.all, !.peers = j.peers]
    BY <1>4, ConfigWantedIs
  <2>2. W = [network |-> W.network, routes |-> W.routes, all |-> W.all,
             peers |-> W.peers, radio |-> W.radio]
    BY <1>1, <2>1
  <2>3. W = [network |-> was.network, routes |-> was.routes, all |-> j.all,
             peers |-> j.peers, radio |-> was.radio]
    BY <1>1, <2>1, <2>2
  <2>4. j.all # None /\ j.peers \subseteq ConfigPeer
    BY <1>4, ConfigRequests
  <2> HIDE DEF W
  <2>5. Config!IsConfig(W)
    BY <2>3, <2>4 DEF Config!IsConfig
  <2> QED BY <1>4, <2>3, <2>5 DEF W
<1>5. CASE j.kind \in {"radio", "save_module"}
  <2> DEFINE r == [k \in Config!RadioKey |-> IF k[1] = j.module THEN j.value ELSE was.radio[k]]
  <2>1. W = [was EXCEPT !.radio = r]
    BY <1>5, ConfigWantedIs
  <2>2. \A k \in Config!RadioKey : r[k] # None
    BY <1>5, ConfigRequests DEF Config!IsConfig
  <2>3. r = [k \in Config!RadioKey |-> r[k]]
    OBVIOUS
  <2>4. W = [network |-> was.network, routes |-> was.routes, all |-> was.all,
             peers |-> was.peers, radio |-> r]
    <3> HIDE DEF r
    <3>1. W = [network |-> W.network, routes |-> W.routes, all |-> W.all,
               peers |-> W.peers, radio |-> W.radio]
      BY <1>1, <2>1
    <3> QED BY <1>1, <2>1, <3>1
  <2>5. Config!IsConfig(W)
    <3> HIDE DEF r, W
    <3> QED BY <2>2, <2>3, <2>4 DEF Config!IsConfig
  <2> QED BY <1>5, <2>4, <2>5
<1> QED BY <1>2, <1>3, <1>4, <1>5, ConfigRequests

-----------------------------------------------------------------------------
(* Saving *)

\* Performing the first of the statements that are left.
LEMMA ConfigPerformed ==
  ASSUME NEW w, Config!IsConfig(w), NEW was, NEW td, td # <<>>,
         ConfigSaving(settings, modules, peers, td, w, was), Config!Perform(Head(td)),
         settings = [k \in Config!Key |-> settings[k]],
         modules = [k \in Config!RadioKey |-> modules[k]]
  PROVE  /\ ConfigSaving(settings', modules', peers', Tail(td), w, was)
         /\ settings' = [k \in Config!Key |-> settings'[k]]
         /\ modules' = [k \in Config!RadioKey |-> modules'[k]]
         /\ peers' \subseteq peers \cup w.peers
<1> DEFINE h == Head(td)
           tl == Tail(td)
           S == ConfigWrites(w)
<1>1. td \in Seq(S)
  BY DEF ConfigSaving
<1>2. /\ h = td[1] /\ h \in S /\ tl \in Seq(S) /\ 1 \in 1..Len(td)
      /\ \A i \in 1..Len(tl) : i + 1 \in 1..Len(td) /\ i + 1 # 1 /\ tl[i] = td[i + 1]
      /\ \A s : ConfigOwes(td, s) => s = h \/ ConfigOwes(tl, s)
      /\ \A s : ConfigOwes(tl, s) => ConfigOwes(td, s)
  <2> HIDE DEF S
  <2> QED BY <1>1, ConfigTailOwes
<1>3. ConfigOrdered(tl)
  <2>1. ConfigOrdered(td)
    BY DEF ConfigSaving
  <2>2. ASSUME NEW i \in 1..Len(tl), NEW j \in 1..Len(tl)
        PROVE  /\ tl[j] = Config!Clear =>
                    /\ tl[i] = Config!Clear => i = j
                    /\ tl[i].op = "insert" => j < i
                    /\ tl[i].op = "set" => i < j
               /\ tl[j].op = "module" /\ tl[i].op # "module" => i < j
    <3>1. /\ tl[j] = td[j + 1] /\ tl[i] = td[i + 1]
          /\ i + 1 \in 1..Len(td) /\ j + 1 \in 1..Len(td)
      BY <1>2
    <3>2. /\ td[j + 1] = Config!Clear =>
               /\ td[i + 1] = Config!Clear => i + 1 = j + 1
               /\ td[i + 1].op = "insert" => j + 1 < i + 1
               /\ td[i + 1].op = "set" => i + 1 < j + 1
          /\ td[j + 1].op = "module" /\ td[i + 1].op # "module" => i + 1 < j + 1
      BY <2>1, <3>1 DEF ConfigOrdered
    <3>3. i \in Int /\ j \in Int
      OBVIOUS
    <3> HIDE DEF tl
    <3> QED BY <3>1, <3>2, <3>3
  <2> HIDE DEF tl
  <2> QED BY <2>2 DEF ConfigOrdered
<1>4. /\ \A k \in ConfigField :
           ConfigValue(settings, k) = w[k] \/ ConfigOwes(td, Config!Set(k, w[k]))
      /\ \A k \in Config!RadioKey :
           \/ ConfigModuleValue(modules, k) = w.radio[k]
           \/ ConfigOwes(td, Config!SetModule(k, w.radio[k]))
      /\ \A p \in w.peers :
           \/ ConfigOwes(td, ConfigInsert(p))
           \/ (p \in peers /\ ~ConfigOwes(td, Config!Clear))
      /\ ConfigOwes(td, Config!Clear) \/ peers \subseteq w.peers
      /\ \A k \in ConfigField : ConfigValue(settings, k) \in {was[k], w[k]}
      /\ \A k \in Config!RadioKey :
           ConfigModuleValue(modules, k) \in {was.radio[k], w.radio[k]}
      /\ ConfigAt(settings, modules, peers, td, w, was)
  BY DEF ConfigSaving, ConfigWritten, ConfigBetween
<1>5. \A k \in ConfigField : w[k] # None /\ k \in Config!Key /\ k # "codename"
  BY ConfigFieldsPresent DEF ConfigField, Config!Key
<1>6. \A k \in Config!RadioKey : w.radio[k] # None
  BY DEF Config!IsConfig
<1>7. Config!Clear.op = "clear" /\ w.all = w["all"] /\ "all" \in ConfigField
  BY DEF Config!Clear, ConfigField
<1> HIDE DEF h, tl, S
<1>8. CASE \E k \in ConfigField : h = Config!Set(k, w[k])
  <2>1. PICK k \in ConfigField : h = Config!Set(k, w[k])
    BY <1>8
  <2>2. h.op = "set" /\ h.key = k /\ h.value = w[k]
    BY <2>1 DEF Config!Set
  <2>3. /\ settings' = [settings EXCEPT ![k] = w[k]]
        /\ modules' = modules
        /\ peers' = peers
    BY <2>2 DEF Config!Perform, h
  <2>4. ConfigValue(settings', k) = w[k]
    BY <1>5, <2>3 DEF ConfigValue
  <2>5. \A f \in ConfigField : f # k =>
          ConfigValue(settings', f) = ConfigValue(settings, f)
    BY <1>5, <2>3 DEF ConfigValue
  <2>6. \A f \in ConfigField :
          ConfigValue(settings', f) = w[f] \/ ConfigOwes(tl, Config!Set(f, w[f]))
    <3> TAKE f \in ConfigField
    <3>1. f # k => Config!Set(f, w[f]) # h
      BY <2>2 DEF Config!Set
    <3> QED BY <1>2, <1>4, <2>4, <2>5, <3>1
  <2>7. \A f \in ConfigField : ConfigValue(settings', f) \in {was[f], w[f]}
    BY <1>4, <2>4, <2>5
  <2>8. /\ \A p \in w.peers : ConfigInsert(p) # h
        /\ \A f \in Config!RadioKey : Config!SetModule(f, w.radio[f]) # h
        /\ Config!Clear # h
    BY <1>7, <2>2 DEF ConfigInsert, Config!SetModule
  <2>9. ConfigWritten(settings', modules', peers', tl, w)
    BY <1>2, <1>4, <2>3, <2>6, <2>8 DEF ConfigWritten
  <2>10. ConfigBetween(settings', modules', peers', tl, w, was)
    <3>1. ConfigOwes(tl, Config!Clear) <=> ConfigOwes(td, Config!Clear)
      BY <1>2, <2>8
    <3>2. ConfigHasFields(settings, w) => ConfigHasFields(settings', w)
      BY <2>4, <2>5 DEF ConfigHasFields
    <3>3. ConfigAt(settings', modules', peers', tl, w, was)
      BY <1>4, <2>3, <3>1, <3>2 DEF ConfigAt
    <3> QED BY <1>4, <2>3, <2>7, <3>3 DEF ConfigBetween
  <2> QED BY <1>2, <1>3, <2>3, <2>9, <2>10 DEF ConfigSaving, S, tl
<1>9. CASE \E n \in ConfigName : h = Config!Set("codename", n)
  <2>1. h.op = "set" /\ h.key = "codename"
    BY <1>9 DEF Config!Set
  <2>2. /\ settings' = [settings EXCEPT !["codename"] = h.value]
        /\ modules' = modules /\ peers' = peers
    BY <2>1 DEF Config!Perform, h
  <2>3. \A f \in ConfigField : ConfigValue(settings', f) = ConfigValue(settings, f)
    BY <1>5, <2>2 DEF ConfigValue
  <2>4. /\ \A p \in w.peers : ConfigInsert(p) # h
        /\ \A f \in Config!RadioKey : Config!SetModule(f, w.radio[f]) # h
        /\ \A f \in ConfigField : Config!Set(f, w[f]) # h
        /\ Config!Clear # h
    BY <1>5, <1>7, <2>1 DEF ConfigInsert, Config!SetModule, Config!Set
  <2>5. ConfigWritten(settings', modules', peers', tl, w)
    BY <1>2, <1>4, <2>2, <2>3, <2>4 DEF ConfigWritten
  <2>6. ConfigBetween(settings', modules', peers', tl, w, was)
    <3>1. ConfigOwes(tl, Config!Clear) <=> ConfigOwes(td, Config!Clear)
      BY <1>2, <2>4
    <3>2. ConfigHasFields(settings, w) => ConfigHasFields(settings', w)
      BY <2>3 DEF ConfigHasFields
    <3>3. ConfigAt(settings', modules', peers', tl, w, was)
      BY <1>4, <2>2, <3>1, <3>2 DEF ConfigAt
    <3> QED BY <1>4, <2>2, <2>3, <3>3 DEF ConfigBetween
  <2> QED BY <1>2, <1>3, <2>2, <2>5, <2>6 DEF ConfigSaving, S, tl
<1>10. CASE \E k \in Config!RadioKey : h = Config!SetModule(k, w.radio[k])
  <2>1. PICK k \in Config!RadioKey : h = Config!SetModule(k, w.radio[k])
    BY <1>10
  <2>2. h.op = "module" /\ h.key = k /\ h.value = w.radio[k]
    BY <2>1 DEF Config!SetModule
  <2>3. /\ modules' = [modules EXCEPT ![k] = w.radio[k]]
        /\ settings' = settings /\ peers' = peers
    BY <2>2 DEF Config!Perform, h
  <2>4. \A f \in Config!RadioKey :
          ConfigModuleValue(modules', f)
            = IF f = k THEN w.radio[k] ELSE ConfigModuleValue(modules, f)
    BY <1>6, <2>3 DEF ConfigModuleValue
  <2>5. \A f \in Config!RadioKey :
          \/ ConfigModuleValue(modules', f) = w.radio[f]
          \/ ConfigOwes(tl, Config!SetModule(f, w.radio[f]))
    <3> TAKE f \in Config!RadioKey
    <3>1. f # k => Config!SetModule(f, w.radio[f]) # h
      BY <2>2 DEF Config!SetModule
    <3> QED BY <1>2, <1>4, <2>4, <3>1
  <2>6. /\ \A p \in w.peers : ConfigInsert(p) # h
        /\ \A f \in ConfigField : Config!Set(f, w[f]) # h
        /\ Config!Clear # h
    BY <1>7, <2>2 DEF ConfigInsert, Config!Set
  <2>7. ConfigWritten(settings', modules', peers', tl, w)
    BY <1>2, <1>4, <2>3, <2>5, <2>6 DEF ConfigWritten
  <2>8. \A i \in 1..Len(td) : td[i].op = "module"
    <3>1. ASSUME NEW i \in 1..Len(td), td[i].op # "module" PROVE FALSE
      <4>1. i < 1
        BY <1>2, <2>2, <3>1 DEF ConfigSaving, ConfigOrdered
      <4> QED BY <4>1
    <3> QED BY <3>1
  <2>9. /\ \A f \in ConfigField : ~ConfigOwes(td, Config!Set(f, w[f]))
        /\ ~ConfigOwes(td, Config!Clear)
        /\ \A p \in w.peers : ~ConfigOwes(td, ConfigInsert(p))
    <3>1. /\ \A f \in ConfigField : Config!Set(f, w[f]).op # "module"
          /\ Config!Clear.op # "module"
          /\ \A p \in w.peers : ConfigInsert(p).op # "module"
      BY DEF Config!Set, Config!Clear, ConfigInsert
    <3> QED BY <2>8, <3>1 DEF ConfigOwes
  <2>10. ConfigHasFields(settings', w) /\ peers' = w.peers /\ ~ConfigOwes(tl, Config!Clear)
    <3>1. \A f \in ConfigField : ConfigValue(settings, f) = w[f]
      BY <1>4, <2>9
    <3>2. peers \subseteq w.peers /\ \A p \in w.peers : p \in peers
      BY <1>4, <2>9
    <3>3. peers = w.peers
      BY <3>2
    <3> QED BY <1>2, <2>3, <2>9, <3>1, <3>3 DEF ConfigHasFields
  <2>11. ConfigBetween(settings', modules', peers', tl, w, was)
    <3>1. ConfigAt(settings', modules', peers', tl, w, was)
      BY <2>10 DEF ConfigAt
    <3>2. \A f \in Config!RadioKey :
            ConfigModuleValue(modules', f) \in {was.radio[f], w.radio[f]}
      BY <1>4, <2>4
    <3> QED BY <1>4, <2>3, <3>1, <3>2 DEF ConfigBetween
  <2> QED BY <1>2, <1>3, <2>3, <2>7, <2>11 DEF ConfigSaving, S, tl
<1>11. CASE h = Config!Clear
  <2>1. settings' = settings /\ modules' = modules /\ peers' = {}
    BY <1>7, <1>11 DEF Config!Perform, h
  <2>2. ~ConfigOwes(tl, Config!Clear)
    <3>1. ASSUME NEW i \in 1..Len(tl), tl[i] = Config!Clear PROVE FALSE
      <4>1. /\ i + 1 \in 1..Len(td)
            /\ i + 1 # 1
            /\ td[i + 1] = Config!Clear
            /\ td[1] = Config!Clear
        BY <1>2, <1>11, <3>1
      <4> QED BY <1>2, <4>1 DEF ConfigSaving, ConfigOrdered
    <3> QED BY <3>1 DEF ConfigOwes
  <2>3. ConfigOwes(td, Config!Clear)
    BY <1>2, <1>11 DEF ConfigOwes
  <2>4. /\ \A p \in w.peers : ConfigInsert(p) # h
        /\ \A f \in Config!RadioKey : Config!SetModule(f, w.radio[f]) # h
        /\ \A f \in ConfigField : Config!Set(f, w[f]) # h
    BY <1>7, <1>11 DEF ConfigInsert, Config!SetModule, Config!Set
  <2>5. ConfigWritten(settings', modules', peers', tl, w)
    BY <1>2, <1>4, <2>1, <2>3, <2>4 DEF ConfigWritten
  <2>6. ConfigHasFields(settings, w)
    <3>1. \A i \in 1..Len(td) : td[i].op # "set"
      <4>1. ASSUME NEW i \in 1..Len(td), td[i].op = "set" PROVE FALSE
        <5>1. td[1] = Config!Clear
          BY <1>2, <1>11
        <5>2. i < 1
          BY <1>2, <4>1, <5>1 DEF ConfigSaving, ConfigOrdered
        <5> QED BY <5>2
      <4> QED BY <4>1
    <3>2. \A f \in ConfigField : Config!Set(f, w[f]).op = "set"
      BY DEF Config!Set
    <3>3. \A f \in ConfigField : ~ConfigOwes(td, Config!Set(f, w[f]))
      BY <3>1, <3>2 DEF ConfigOwes
    <3> QED BY <1>4, <3>3 DEF ConfigHasFields
  <2>7. ConfigBetween(settings', modules', peers', tl, w, was)
    <3>1. ConfigUntouched(modules, was)
      BY <1>4, <2>3 DEF ConfigAt
    <3>2. ConfigAt(settings', modules', peers', tl, w, was)
      BY <2>1, <2>2, <2>6, <3>1 DEF ConfigAt
    <3> QED BY <1>4, <2>1, <3>2 DEF ConfigBetween
  <2> QED BY <1>2, <1>3, <2>1, <2>5, <2>7 DEF ConfigSaving, S, tl
<1>12. CASE \E p \in w.peers : h = ConfigInsert(p)
  <2>1. PICK p \in w.peers : h = ConfigInsert(p)
    BY <1>12
  <2>2. h.op = "insert" /\ h.peer = p
    BY <2>1 DEF ConfigInsert
  <2>3. settings' = settings /\ modules' = modules /\ peers' = peers \cup {p}
    BY <2>2 DEF Config!Perform, h
  <2>4. ~ConfigOwes(td, Config!Clear)
    <3>1. ASSUME NEW i \in 1..Len(td), td[i] = Config!Clear PROVE FALSE
      <4>1. i < 1
        BY <1>2, <2>2, <3>1 DEF ConfigSaving, ConfigOrdered
      <4> QED BY <4>1
    <3> QED BY <3>1 DEF ConfigOwes
  <2>5. /\ \A f \in Config!RadioKey : Config!SetModule(f, w.radio[f]) # h
        /\ \A f \in ConfigField : Config!Set(f, w[f]) # h
        /\ \A q \in w.peers : q # p => ConfigInsert(q) # h
    BY <2>2 DEF ConfigInsert, Config!SetModule, Config!Set
  <2>6. ConfigWritten(settings', modules', peers', tl, w)
    BY <1>2, <1>4, <2>3, <2>4, <2>5 DEF ConfigWritten
  <2>7. ConfigBetween(settings', modules', peers', tl, w, was)
    <3>1. ~ConfigOwes(tl, Config!Clear)
      BY <1>2, <2>4
    <3>2. peers = w.peers => peers' = w.peers
      BY <2>3
    <3>3. ConfigAt(settings', modules', peers', tl, w, was)
      BY <1>4, <2>3, <2>4, <3>1, <3>2 DEF ConfigAt
    <3> QED BY <1>4, <2>3, <3>3 DEF ConfigBetween
  <2> QED BY <1>2, <1>3, <2>3, <2>6, <2>7 DEF ConfigSaving, S, tl
<1> QED BY <1>2, <1>8, <1>9, <1>10, <1>11, <1>12 DEF S, ConfigWrites

\* The configuration as the properties read it.
LEMMA ConfigLoadedConfig ==
  /\ Config!LoadConfig = [network |-> ConfigValue(settings, "network"),
                          routes |-> ConfigValue(settings, "routes"),
                          all |-> ConfigValue(settings, "all"),
                          peers |-> peers,
                          radio |-> [k \in Config!RadioKey |-> ConfigModuleValue(modules, k)]]
  /\ peers \subseteq ConfigPeer => Config!IsConfig(Config!LoadConfig)
<1>1. Config!LoadConfig = [network |-> ConfigValue(settings, "network"),
                           routes |-> ConfigValue(settings, "routes"),
                           all |-> ConfigValue(settings, "all"),
                           peers |-> peers,
                           radio |-> [k \in Config!RadioKey |-> ConfigModuleValue(modules, k)]]
  BY DEF Config!LoadConfig, Config!Loaded, ConfigValue, ConfigModuleValue
<1>2. \A k \in ConfigField : ConfigDefault[k] # None
  BY ConfigFieldsPresent, ConfigAssumption
<1>3. /\ ConfigValue(settings, "network") # None /\ ConfigValue(settings, "routes") # None
      /\ ConfigValue(settings, "all") # None
  BY <1>2 DEF ConfigValue, ConfigField
<1>4. \A k \in Config!RadioKey : ConfigModuleValue(modules, k) # None
  BY ConfigAssumption DEF ConfigModuleValue, Config!IsConfig
<1>5. peers \subseteq ConfigPeer => Config!IsConfig(Config!LoadConfig)
  BY <1>1, <1>3, <1>4 DEF Config!IsConfig
<1> QED BY <1>1, <1>5

\* With no statement left the configuration is the one that was to be saved.
ConfigConfigOf(st, ms, ps) ==
  [network |-> ConfigValue(st, "network"), routes |-> ConfigValue(st, "routes"),
   all |-> ConfigValue(st, "all"), peers |-> ps,
   radio |-> [k \in Config!RadioKey |-> ConfigModuleValue(ms, k)]]
LEMMA ConfigSaveDone ==
  ASSUME NEW st, NEW ms, NEW ps, NEW w, Config!IsConfig(w), NEW td, Len(td) = 0,
         ConfigWritten(st, ms, ps, td, w)
  PROVE  ConfigConfigOf(st, ms, ps) = w
<1>1. \A s : ~ConfigOwes(td, s)
  BY DEF ConfigOwes
<1>2. /\ \A k \in ConfigField : ConfigValue(st, k) = w[k]
      /\ \A k \in Config!RadioKey : ConfigModuleValue(ms, k) = w.radio[k]
      /\ ps = w.peers
  BY <1>1 DEF ConfigWritten
<1>3. /\ ConfigValue(st, "network") = w.network /\ ConfigValue(st, "routes") = w.routes
      /\ ConfigValue(st, "all") = w.all
  BY <1>2 DEF ConfigField
<1>4. [k \in Config!RadioKey |-> ConfigModuleValue(ms, k)] = [k \in Config!RadioKey |-> w.radio[k]]
  BY <1>2
<1> QED BY <1>2, <1>3, <1>4 DEF Config!IsConfig, ConfigConfigOf

\* What a save has left at its start.
LEMMA ConfigSaveStarts ==
  ASSUME NEW j \in Config!Request, Config!LoadConfig = meant, Config!IsConfig(meant)
  PROVE  /\ ConfigSaving(settings, modules, peers, Config!Statements(j),
                         Config!Wanted(j, meant), meant)
         /\ ConfigNarrow(Config!Statements(j), j)
<1> DEFINE w == Config!Wanted(j, meant)
           td == Config!Statements(j)
<1>1. Config!IsConfig(w)
  BY ConfigWantedIsConfig
<1>2. /\ meant.network = ConfigValue(settings, "network")
      /\ meant.routes = ConfigValue(settings, "routes")
      /\ meant.all = ConfigValue(settings, "all") /\ meant.peers = peers
      /\ meant.radio = [k \in Config!RadioKey |-> ConfigModuleValue(modules, k)]
  BY ConfigLoadedConfig
<1>3. CASE j.kind \in {"settings", "save_settings", "routes", "access"}
  <2>1. td = Config!SaveConfig(w)
    BY <1>3 DEF Config!Statements
  <2> HIDE DEF td, w
  <2>2. /\ td \in Seq(ConfigWrites(w)) /\ ConfigOrdered(td)
        /\ \A k \in ConfigField : ConfigOwes(td, Config!Set(k, w[k]))
        /\ \A k \in Config!RadioKey : ConfigOwes(td, Config!SetModule(k, w.radio[k]))
        /\ ConfigOwes(td, Config!Clear)
        /\ \A p \in w.peers : ConfigOwes(td, ConfigInsert(p))
    BY <1>1, <2>1, ConfigSaveWritesAll
  <2>3. ConfigWritten(settings, modules, peers, td, w)
    BY <2>2 DEF ConfigWritten
  <2>4. ConfigAt(settings, modules, peers, td, w, meant)
    BY <1>2, <2>2 DEF ConfigAt, ConfigUntouched
  <2>5. ConfigBetween(settings, modules, peers, td, w, meant)
    BY <1>2, <2>4 DEF ConfigBetween, ConfigField
  <2> QED BY <1>3, <2>2, <2>3, <2>5 DEF ConfigSaving, ConfigNarrow, td, w
<1>4. CASE j.kind \in {"radio", "save_module"}
  <2>1. td = Config!ModuleStatements(w, j.module)
    BY <1>4 DEF Config!Statements
  <2>2. j.module \in ConfigModule
    BY <1>4, ConfigRequests
  <2> DEFINE a == Config!SetModule(<<j.module, "radio_config">>,
                                   w.radio[<<j.module, "radio_config">>])
             b == Config!SetModule(<<j.module, "modulation">>,
                                   w.radio[<<j.module, "modulation">>])
  <2>3. td = <<a, b>>
    BY <2>1 DEF Config!ModuleStatements
  <2>4. a \in ConfigWrites(w) /\ b \in ConfigWrites(w) /\ a.op = "module" /\ b.op = "module"
        /\ a.key = <<j.module, "radio_config">> /\ b.key = <<j.module, "modulation">>
    BY <2>2 DEF ConfigWrites, Config!RadioKey, Config!Half, Config!SetModule
  <2>5. w = [network |-> meant.network, routes |-> meant.routes, all |-> meant.all,
             peers |-> meant.peers, radio |->
               [k \in Config!RadioKey |-> IF k[1] = j.module THEN j.value ELSE meant.radio[k]]]
    BY <1>4, ConfigWantedIsConfig
  <2>6. \A k \in Config!RadioKey : ConfigModuleValue(modules, k) = w.radio[k]
                             \/ Config!SetModule(k, w.radio[k]) \in {a, b}
    <3> TAKE k \in Config!RadioKey
    <3>1. CASE k[1] = j.module
      <4>1. k \in {<<j.module, "radio_config">>, <<j.module, "modulation">>}
        BY <3>1 DEF Config!RadioKey, Config!Half
      <4> QED BY <4>1
    <3>2. CASE k[1] # j.module
      BY <1>2, <2>5, <3>2
    <3> QED BY <3>1, <3>2
  <2> HIDE DEF td, w, a, b
  <2>7. /\ td \in Seq(ConfigWrites(w)) /\ Len(td) = 2 /\ td[1] = a /\ td[2] = b
        /\ ConfigOwes(td, a) /\ ConfigOwes(td, b)
    BY <2>3, <2>4 DEF ConfigOwes
  <2>8. \A i \in 1..Len(td) : td[i].op = "module"
    BY <2>4, <2>7
  <2>9. Config!Clear.op = "clear"
    BY DEF Config!Clear
  <2>10. ConfigOrdered(td) /\ ~ConfigOwes(td, Config!Clear)
    <3>1. \A i \in 1..Len(td) : td[i] # Config!Clear
      BY <2>8, <2>9
    <3> QED BY <2>8, <3>1 DEF ConfigOrdered, ConfigOwes
  <2>11. ConfigValue(settings, "network") = w.network
         /\ ConfigValue(settings, "routes") = w.routes
         /\ ConfigValue(settings, "all") = w.all /\ peers = w.peers
    BY <1>2, <2>5
  <2>12. \A k \in ConfigField : ConfigValue(settings, k) = w[k]
    BY <2>11 DEF ConfigField
  <2>13. ConfigWritten(settings, modules, peers, td, w)
         /\ ConfigBetween(settings, modules, peers, td, w, meant)
    <3>1. \A k \in Config!RadioKey : ConfigModuleValue(modules, k) = meant.radio[k]
      BY <1>2
    <3>2. ConfigAt(settings, modules, peers, td, w, meant)
      BY <2>10, <2>11, <2>12 DEF ConfigAt, ConfigHasFields
    <3>3. ConfigBetween(settings, modules, peers, td, w, meant)
      BY <2>12, <3>1, <3>2 DEF ConfigBetween
    <3> QED BY <2>6, <2>7, <2>10, <2>11, <2>12, <3>3 DEF ConfigWritten
  <2>14. ConfigNarrow(td, j)
    BY <1>4, <2>4, <2>7 DEF ConfigNarrow, Config!Half
  <2> QED BY <2>7, <2>10, <2>13, <2>14 DEF ConfigSaving, td, w
<1>5. CASE j.kind = "codename"
  <2>1. td = <<Config!Set("codename", j.name)>> /\ w = meant /\ j.name \in ConfigName
    <3>1. td = <<Config!Set("codename", j.name)>>
      BY <1>5 DEF Config!Statements
    <3>2. w = meant
      BY <1>5, ConfigWantedIs
    <3>3. j.name \in ConfigName
      BY <1>5 DEF Config!Request
    <3> QED BY <3>1, <3>2, <3>3
  <2> HIDE DEF td, w
  <2>2. Config!Set("codename", j.name) \in ConfigWrites(w)
    BY <2>1 DEF ConfigWrites
  <2>3. /\ td \in Seq(ConfigWrites(w))
        /\ Len(td) = 1
        /\ td[1] = Config!Set("codename", j.name)
    BY <2>1, <2>2
  <2>4. Config!Set("codename", j.name).op = "set" /\ Config!Clear.op = "clear"
    BY DEF Config!Set, Config!Clear
  <2>5. ConfigOrdered(td) /\ ~ConfigOwes(td, Config!Clear)
    <3>1. \A i \in 1..Len(td) : td[i].op = "set" /\ td[i] # Config!Clear
      BY <2>3, <2>4
    <3> QED BY <3>1 DEF ConfigOrdered, ConfigOwes
  <2>6. \A k \in ConfigField : ConfigValue(settings, k) = w[k]
    BY <1>2, <2>1 DEF ConfigField
  <2>7. ConfigWritten(settings, modules, peers, td, w)
        /\ ConfigBetween(settings, modules, peers, td, w, meant)
    <3>1. /\ peers = w.peers
          /\ \A k \in Config!RadioKey : ConfigModuleValue(modules, k) = w.radio[k]
      BY <1>2, <2>1
    <3>2. ConfigAt(settings, modules, peers, td, w, meant)
      BY <2>5, <2>6, <3>1 DEF ConfigAt, ConfigHasFields
    <3>3. ConfigBetween(settings, modules, peers, td, w, meant)
      BY <2>6, <3>1, <3>2 DEF ConfigBetween
    <3> QED BY <2>5, <2>6, <3>1, <3>3 DEF ConfigWritten
  <2>8. ConfigNarrow(td, j)
    BY <1>5, <2>3 DEF ConfigNarrow
  <2> QED BY <2>3, <2>5, <2>7, <2>8 DEF ConfigSaving, td, w
<1> QED BY <1>3, <1>4, <1>5, ConfigRequests

\* What a request brings to a part of the runtime it applies itself to.
ConfigBrought(j, x) ==
  IF j.kind \in {"radio", "save_module"} THEN [h \in Config!Half |-> j.value]
  ELSE IF x = "routes" THEN (IF j.kind = "routes" THEN j.routes ELSE j.config.routes)
  ELSE Config!PolicyOf(j)

\* A request changes the parts it applies and the parts it leaves to the
\* database; to the former it brings its own value, whatever was there before.
LEMMA ConfigWantedParts ==
  ASSUME NEW j \in Config!Request, NEW was, Config!IsConfig(was), NEW x \in Config!Part
  PROVE  /\ x \in Config!Applied(j) => ConfigPartOf(Config!Wanted(j, was), x) = ConfigBrought(j, x)
         /\ x \notin Config!Applied(j) \cup Config!Unapplied(j)
              => ConfigPartOf(Config!Wanted(j, was), x) = ConfigPartOf(was, x)
<1> DEFINE W == Config!Wanted(j, was)
<1>1. x \in {"policy", "routes"} \/ (x \in ConfigModule /\ x # "policy" /\ x # "routes")
  BY ConfigAssumption DEF Config!Part
<1>2. CASE j.kind \in {"settings", "save_settings"}
  <2>1. W = j.config
    BY <1>2, ConfigWantedIs
  <2>2. j.kind = "settings" =>
          Config!Applied(j) = {"policy", "routes"} /\ Config!Unapplied(j) = ConfigModule
    BY DEF Config!Applied, Config!Unapplied
  <2>3. j.kind = "save_settings" =>
          Config!Applied(j) = {} /\ Config!Unapplied(j) = Config!Part
    BY DEF Config!Applied, Config!Unapplied
  <2> QED
    BY <1>1, <1>2, <2>1, <2>2, <2>3
       DEF ConfigPartOf, ConfigBrought, Config!PolicyOf
<1>3. CASE j.kind = "routes"
  <2>1. /\ W.routes = j.routes
        /\ W.all = was.all
        /\ W.peers = was.peers
        /\ W.radio = was.radio
    BY <1>3, ConfigWantedIsConfig
  <2>2. Config!Applied(j) = {"routes"}
    BY <1>3 DEF Config!Applied
  <2> HIDE DEF W
  <2>3. x \in Config!Applied(j) => ConfigPartOf(W, x) = ConfigBrought(j, x)
    BY <1>3, <2>1, <2>2 DEF ConfigPartOf, ConfigBrought
  <2>4. x \notin Config!Applied(j) => ConfigPartOf(W, x) = ConfigPartOf(was, x)
    BY <1>1, <2>1, <2>2 DEF ConfigPartOf
  <2> QED BY <2>3, <2>4 DEF W
<1>4. CASE j.kind = "access"
  <2>1. /\ W.routes = was.routes
        /\ W.all = j.all
        /\ W.peers = j.peers
        /\ W.radio = was.radio
    BY <1>4, ConfigWantedIsConfig
  <2>2. Config!Applied(j) = {"policy"}
    BY <1>4 DEF Config!Applied
  <2> HIDE DEF W
  <2>3. x \in Config!Applied(j) => ConfigPartOf(W, x) = ConfigBrought(j, x)
    BY <1>4, <2>1, <2>2 DEF ConfigPartOf, ConfigBrought, Config!PolicyOf
  <2>4. x \notin Config!Applied(j) => ConfigPartOf(W, x) = ConfigPartOf(was, x)
    BY <1>1, <2>1, <2>2 DEF ConfigPartOf
  <2> QED BY <2>3, <2>4 DEF W
<1>5. CASE j.kind \in {"radio", "save_module"}
  <2>1. W.routes = was.routes /\ W.all = was.all /\ W.peers = was.peers
        /\ W.radio = [k \in Config!RadioKey |-> IF k[1] = j.module THEN j.value ELSE was.radio[k]]
    BY <1>5, ConfigWantedIsConfig
  <2>2. Config!Applied(j) = {j.module} /\ j.module \in ConfigModule
    BY <1>5, ConfigRequests DEF Config!Applied
  <2> HIDE DEF W
  <2>3. x \in ConfigModule => \A h \in Config!Half : <<x, h>> \in Config!RadioKey
                                /\ W.radio[<<x, h>>] = IF x = j.module THEN j.value
                                                       ELSE was.radio[<<x, h>>]
    BY <2>1 DEF Config!RadioKey
  <2>4. x \in Config!Applied(j) => ConfigPartOf(W, x) = ConfigBrought(j, x)
    BY <1>1, <1>5, <2>2, <2>3, ConfigAssumption DEF ConfigPartOf, ConfigBrought
  <2>5. x \notin Config!Applied(j) => ConfigPartOf(W, x) = ConfigPartOf(was, x)
    BY <1>1, <2>1, <2>2, <2>3 DEF ConfigPartOf
  <2> QED BY <2>4, <2>5 DEF W
<1>6. CASE j.kind = "codename"
  <2>1. W = was /\ Config!Applied(j) = {}
    BY <1>6, ConfigWantedIs DEF Config!Applied
  <2> QED BY <2>1
<1> QED BY <1>2, <1>3, <1>4, <1>5, <1>6, ConfigRequests

\* What a save that fails has left of the parts it does not concern.
LEMMA ConfigSpared ==
  ASSUME NEW j \in Config!Request, Config!IsConfig(meant), NEW td, ConfigNarrow(td, j),
         ConfigWritten(settings, modules, peers, td, Config!Wanted(j, meant)),
         NEW x \in Config!Part,
         \/ j.kind \in {"radio", "save_module"} /\ x # j.module
         \/ j.kind = "codename"
  PROVE  ConfigPartOf(Config!LoadConfig, x) = ConfigPartOf(meant, x)
<1> DEFINE w == Config!Wanted(j, meant)
<1>1. x \in {"policy", "routes"} \/ (x \in ConfigModule /\ x # "policy" /\ x # "routes")
  BY ConfigAssumption DEF Config!Part
<1>2. /\ w.routes = meant.routes /\ w.all = meant.all /\ w.peers = meant.peers
      /\ x \in ConfigModule =>
           \A h \in Config!Half : w.radio[<<x, h>>] = meant.radio[<<x, h>>]
  <2>1. CASE j.kind = "codename"
    BY <2>1, ConfigWantedIs
  <2>2. CASE j.kind \in {"radio", "save_module"} /\ x # j.module
    <3>1. w.routes = meant.routes /\ w.all = meant.all /\ w.peers = meant.peers
          /\ w.radio = [k \in Config!RadioKey |-> IF k[1] = j.module THEN j.value
                                                  ELSE meant.radio[k]]
      BY <2>2, ConfigWantedIsConfig
    <3> HIDE DEF w
    <3> QED BY <2>2, <3>1 DEF Config!RadioKey
  <2> QED BY <2>1, <2>2
<1>3. /\ \A k \in ConfigField : ~ConfigOwes(td, Config!Set(k, w[k]))
      /\ ~ConfigOwes(td, Config!Clear)
      /\ \A p \in w.peers : ~ConfigOwes(td, ConfigInsert(p))
      /\ x \in ConfigModule =>
           \A h \in Config!Half :
             ~ConfigOwes(td, Config!SetModule(<<x, h>>, w.radio[<<x, h>>]))
  <2> HIDE DEF w
  <2>1. CASE j.kind = "codename"
    <3>1. \A i \in 1..Len(td) : td[i].op = "set" /\ td[i].key = "codename"
      BY <2>1 DEF ConfigNarrow, Config!Set
    <3> QED
      BY <3>1
         DEF ConfigOwes, Config!Set, Config!Clear, ConfigInsert, Config!SetModule,
             ConfigField
  <2>2. CASE j.kind \in {"radio", "save_module"} /\ x # j.module
    <3>1. \A i \in 1..Len(td) :
            td[i].op = "module" /\ \E h \in Config!Half : td[i].key = <<j.module, h>>
      BY <2>2 DEF ConfigNarrow
    <3>2. \A h \in Config!Half : \A v : Config!SetModule(<<x, h>>, v).key = <<x, h>>
      BY DEF Config!SetModule
    <3>3. \A h \in Config!Half : \A v : ~ConfigOwes(td, Config!SetModule(<<x, h>>, v))
      BY <2>2, <3>1, <3>2 DEF ConfigOwes
    <3>4. \A k, v : Config!Set(k, v).op = "set"
      BY DEF Config!Set
    <3>5. Config!Clear.op = "clear" /\ \A p : ConfigInsert(p).op = "insert"
      BY DEF Config!Clear, ConfigInsert
    <3> QED BY <3>1, <3>3, <3>4, <3>5 DEF ConfigOwes
  <2> QED BY <2>1, <2>2
<1>4. /\ \A k \in ConfigField : ConfigValue(settings, k) = w[k]
      /\ peers = w.peers
      /\ x \in ConfigModule =>
           \A h \in Config!Half :
             ConfigModuleValue(modules, <<x, h>>) = w.radio[<<x, h>>]
  <2> HIDE DEF w
  <2>1. x \in ConfigModule => \A h \in Config!Half : <<x, h>> \in Config!RadioKey
    BY DEF Config!RadioKey
  <2>2. \A p \in w.peers : p \in peers
    BY <1>3 DEF ConfigWritten, w
  <2>3. peers \subseteq w.peers
    BY <1>3 DEF ConfigWritten, w
  <2>4. \A k \in ConfigField : ConfigValue(settings, k) = w[k]
    BY <1>3 DEF ConfigWritten, w
  <2>5. \A k \in Config!RadioKey :
          \/ ConfigModuleValue(modules, k) = w.radio[k]
          \/ ConfigOwes(td, Config!SetModule(k, w.radio[k]))
    BY DEF ConfigWritten, w
  <2> QED BY <1>3, <2>1, <2>2, <2>3, <2>4, <2>5
<1>5. /\ Config!LoadConfig.routes = meant.routes /\ Config!LoadConfig.all = meant.all
      /\ Config!LoadConfig.peers = meant.peers
      /\ x \in ConfigModule =>
           \A h \in Config!Half :
             Config!LoadConfig.radio[<<x, h>>] = meant.radio[<<x, h>>]
  <2>1. /\ w["routes"] = w.routes
        /\ w["all"] = w.all
        /\ "routes" \in ConfigField
        /\ "all" \in ConfigField
    BY DEF ConfigField
  <2>2. x \in ConfigModule => \A h \in Config!Half : <<x, h>> \in Config!RadioKey
    BY DEF Config!RadioKey
  <2> HIDE DEF w
  <2>3. /\ Config!LoadConfig.routes = ConfigValue(settings, "routes")
        /\ Config!LoadConfig.all = ConfigValue(settings, "all")
        /\ Config!LoadConfig.peers = peers
        /\ Config!LoadConfig.radio = [k \in Config!RadioKey |-> ConfigModuleValue(modules, k)]
    BY ConfigLoadedConfig
  <2> QED BY <1>2, <1>4, <2>1, <2>2, <2>3
<1> QED BY <1>1, <1>5 DEF ConfigPartOf

-----------------------------------------------------------------------------
(* The steps preserve the invariant *)

\* What leaves the tables alone and starts no save.
LEMMA ConfigDatabaseFrame ==
  ASSUME ConfigDatabaseKept, UNCHANGED <<settings, modules, peers, meant, holder>>,
         \A d \in Client : pc'[d] = "saving" =>
           pc[d] = "saving" /\ todo'[d] = todo[d] /\ config_job'[d] = config_job[d]
  PROVE  ConfigDatabaseKept'
<1>1. Config!LoadConfig' = Config!LoadConfig
  BY DEF Config!LoadConfig, Config!Loaded
<1>2. ASSUME NEW d \in Client, pc'[d] = "saving"
      PROVE  /\ ConfigSaving(settings', modules', peers', todo'[d],
                             Config!Wanted(config_job'[d], meant'), meant')
             /\ ConfigNarrow(todo'[d], config_job'[d])
  BY <1>2 DEF ConfigDatabaseKept
<1> QED BY <1>1, <1>2 DEF ConfigDatabaseKept

\* What leaves the runtime alone and changes nothing in what is to be applied.
LEMMA ConfigRuntimeFrame ==
  ASSUME ConfigRuntimeKept, UNCHANGED <<up, vpn, radio, meant, excused>>,
         \A d \in Client :
           /\ Config!Pending(d)' = Config!Pending(d)
           /\ config_job'[d] = config_job[d] \/ Config!Pending(d) = {}
           /\ pc'[d] = pc[d] \/ pc'[d] \notin {"routes", "modulation"}
  PROVE  ConfigRuntimeKept'
<1> SUFFICES ASSUME up = "serving", NEW x \in Config!Part \ excused
             PROVE  ConfigFollowed(x)' /\ \A d \in Client : ConfigBrings(d, x)'
  BY DEF ConfigRuntimeKept
<1>1. ConfigFollowed(x) /\ \A d \in Client : ConfigBrings(d, x)
  BY DEF ConfigRuntimeKept
<1>2. Config!Live(x)' = Config!Live(x)
  BY DEF Config!Live
<1>3. ConfigFollowed(x)'
  BY <1>1, <1>2 DEF ConfigFollowed
<1>4. ASSUME NEW d \in Client PROVE ConfigBrings(d, x)'
  BY <1>1, <1>2 DEF ConfigBrings
<1> QED BY <1>3, <1>4

LEMMA ConfigVpnIsThere == \A v : ConfigIsVpn(v) => v # Config!NoVpn
<1>1. DOMAIN Config!NoVpn = {"running"}
  BY DEF Config!NoVpn
<1>2. \A v : ConfigIsVpn(v) => DOMAIN v = {"all", "peers", "routes"}
  BY DEF ConfigIsVpn
<1> QED BY <1>1, <1>2

LEMMA ConfigNothingUnderWay ==
  ASSUME Config!TypeOK, ConfigStepsKept, up # "serving"
  PROVE  (\A c \in Client : pc[c] = "idle" /\ Config!Pending(c) = {}) /\ holder = None
<1>1. \A c \in Client : pc[c] = "idle"
  BY DEF Config!TypeOK
<1>2. \A c \in Client : holder # c
  BY <1>1 DEF Config!TypeOK
<1> QED BY <1>1, <1>2 DEF ConfigStepsKept, Config!Pending, Config!Half

LEMMA ConfigBootStep == ASSUME ConfigIInv, Config!Boot PROVE ConfigIInv'
<1>1. UNCHANGED <<modules, peers, vpn, radio, holder, tuner, pc, config_job, todo, meant,
                  excused>>
      /\ up = "down" /\ up' = "booting"
  BY DEF Config!Boot
<1>2. PICK n \in ConfigName :
        settings' = [settings EXCEPT !["codename"] = IF @ = None THEN n ELSE @,
                                     !["seed"] = IF @ = None THEN n ELSE @]
  BY DEF Config!Boot, Config!CreateIdentity
<1>3. (\A c \in Client : pc[c] = "idle") /\ holder = None
  BY <1>1, ConfigNothingUnderWay DEF ConfigIInv
<1>4. /\ settings' = [k \in Config!Key |-> settings'[k]] /\ DOMAIN settings' = Config!Key
      /\ \A k \in ConfigField : settings'[k] = settings[k]
  BY <1>2 DEF ConfigIInv, ConfigStepsKept, Config!TypeOK, Config!Key, ConfigField
<1>5. Config!TypeOK'
  BY <1>1, <1>3, <1>4 DEF ConfigIInv, Config!TypeOK
<1>6. ConfigStepsKept'
  BY <1>1, <1>4 DEF ConfigIInv, ConfigStepsKept
<1>7. ConfigDatabaseKept'
  <2>1. Config!LoadConfig' = Config!LoadConfig
    BY <1>1, <1>4 DEF Config!LoadConfig, Config!Loaded, ConfigField
  <2> QED BY <1>1, <1>3, <2>1 DEF ConfigIInv, ConfigDatabaseKept
<1>8. ConfigRuntimeKept'
  BY <1>1 DEF ConfigRuntimeKept
<1> QED BY <1>5, <1>6, <1>7, <1>8 DEF ConfigIInv

LEMMA ConfigServeStep == ASSUME ConfigIInv, Config!Serve PROVE ConfigIInv'
<1>1. UNCHANGED <<settings, modules, peers, holder, tuner, pc, config_job, todo, meant>>
      /\ up = "booting" /\ up' = "serving"
  BY DEF Config!Serve
<1>2. (\A c \in Client : pc[c] = "idle" /\ Config!Pending(c) = {}) /\ holder = None
  BY <1>1, ConfigNothingUnderWay DEF ConfigIInv
<1>3. Config!LoadConfig = meant /\ Config!LoadConfig.peers = peers
  BY <1>2, ConfigLoadedConfig DEF ConfigIInv, ConfigDatabaseKept
<1>4. meant.radio = [k \in Config!RadioKey |-> meant.radio[k]]
  BY DEF ConfigIInv, Config!TypeOK, Config!IsConfig
<1>5. PICK ok \in BOOLEAN :
        /\ radio' = IF ok THEN Config!LoadConfig.radio ELSE radio
        /\ vpn' = Config!NoVpn \/ vpn' = [all |-> Config!LoadConfig.all, peers |-> peers,
                                         routes |-> Config!LoadConfig.routes]
        /\ excused' = IF ok THEN {} ELSE ConfigModule
        /\ ~ok => vpn' = Config!NoVpn
  BY DEF Config!Serve, Config!BootedRadio, Config!StartedVpn
<1>6. radio' = [k \in Config!RadioKey |-> radio'[k]]
  BY <1>3, <1>4, <1>5 DEF ConfigIInv, ConfigStepsKept
<1>7. vpn' # Config!NoVpn =>
        vpn' = [all |-> vpn'.all, peers |-> vpn'.peers, routes |-> vpn'.routes]
  BY <1>5
<1>8. Config!TypeOK'
  <2>1. excused' \subseteq Config!Part
    BY <1>5 DEF Config!Part
  <2>2. DOMAIN radio' = Config!RadioKey
    BY <1>6
  <2> QED BY <1>1, <2>1, <2>2 DEF ConfigIInv, Config!TypeOK
<1>9. ConfigStepsKept'
  <2>1. \A c \in Client : pc'[c] \notin {"policy", "routes"}
    BY <1>1, <1>2
  <2> QED BY <1>1, <1>6, <1>7, <2>1 DEF ConfigIInv, ConfigStepsKept, ConfigIsVpn
<1>10. ConfigDatabaseKept'
  BY <1>1, ConfigDatabaseFrame DEF ConfigIInv
<1>11. ConfigRuntimeKept'
  <2> SUFFICES ASSUME NEW x \in Config!Part, x \notin excused'
               PROVE  ConfigFollowed(x)' /\ \A c \in Client : ConfigBrings(c, x)'
    BY DEF ConfigRuntimeKept
  <2>1. \A c \in Client : Config!Pending(c)' = {}
    BY <1>1, <1>2 DEF Config!Pending
  <2>2. CASE x \in ConfigModule
    <3>1. radio' = meant.radio /\ x # "policy" /\ x # "routes"
      BY <1>3, <1>5, <2>2, ConfigAssumption
    <3>2. Config!Live(x)' = ConfigPartOf(meant', x)
      BY <1>1, <3>1 DEF Config!Live, ConfigPartOf
    <3> QED BY <2>1, <3>2 DEF ConfigFollowed, ConfigBrings
  <2>3. CASE x = "policy" /\ vpn' # Config!NoVpn
    <3>1. vpn'.all = meant.all /\ vpn'.peers = meant.peers
      BY <1>3, <1>5, <2>3
    <3>2. Config!Live(x)' = ConfigPartOf(meant', x)
      BY <1>1, <2>3, <3>1 DEF Config!Live, ConfigPartOf
    <3> QED BY <2>1, <3>2 DEF ConfigFollowed, ConfigBrings
  <2>4. CASE x = "routes" /\ vpn' # Config!NoVpn
    <3>1. vpn'.routes = meant.routes
      BY <1>3, <1>5, <2>4
    <3>2. Config!Live(x)' = ConfigPartOf(meant', x)
      BY <1>1, <2>4, <3>1 DEF Config!Live, ConfigPartOf
    <3> QED BY <2>1, <3>2 DEF ConfigFollowed, ConfigBrings
  <2>5. CASE vpn' = Config!NoVpn /\ x \notin ConfigModule
    BY <2>1, <2>5 DEF ConfigFollowed, ConfigBrings
  <2> QED BY <2>2, <2>3, <2>4, <2>5 DEF Config!Part
<1> QED BY <1>8, <1>9, <1>10, <1>11 DEF ConfigIInv

LEMMA ConfigStopStep == ASSUME ConfigIInv, Config!Stop PROVE ConfigIInv'
<1>1. /\ UNCHANGED <<settings, modules, peers, radio, excused>>
      /\ up' = "down" /\ vpn' = Config!NoVpn /\ holder' = None /\ tuner' = None
      /\ pc' = [c \in Client |-> "idle"] /\ config_job' = [c \in Client |-> Config!Idle]
      /\ todo' = [c \in Client |-> <<>>] /\ meant' = Config!LoadConfig
  BY DEF Config!Stop
<1>2. \A c \in Client : pc'[c] = "idle" /\ config_job'[c] = Config!Idle
  BY <1>1
<1>3. Config!TypeOK'
  <2>1. Config!IsConfig(meant')
    BY <1>1, ConfigLoadedConfig DEF ConfigIInv, Config!TypeOK
  <2>2. \A c \in Client : c # None
    BY ConfigAssumption
  <2>3. pc' \in [Client -> Config!Steps]
    BY <1>1 DEF Config!Steps
  <2>4. \A c \in Client : (holder' = c) = (pc'[c] = "saving")
    BY <1>1, <1>2, <2>2
  <2>5. \A c \in Client : (tuner' = c) = (pc'[c] \in Config!Half)
    BY <1>1, <1>2, <2>2 DEF Config!Half
  <2> QED BY <1>1, <1>2, <2>1, <2>3, <2>4, <2>5 DEF ConfigIInv, Config!TypeOK
<1>4. ConfigStepsKept'
  BY <1>1, <1>2 DEF ConfigIInv, ConfigStepsKept, ConfigJobFits, Config!Half
<1>5. ConfigDatabaseKept'
  <2>1. Config!LoadConfig' = meant'
    BY <1>1 DEF Config!LoadConfig, Config!Loaded
  <2> QED BY <1>2, <2>1 DEF ConfigDatabaseKept
<1>6. ConfigRuntimeKept'
  BY <1>1 DEF ConfigRuntimeKept
<1> QED BY <1>3, <1>4, <1>5, <1>6 DEF ConfigIInv

LEMMA ConfigArriveStep ==
  ASSUME ConfigIInv, NEW c \in Client, Config!Arrive(c) PROVE ConfigIInv'
<1>1. /\ UNCHANGED <<settings, modules, peers, up, vpn, radio, holder, tuner, todo, meant,
                     excused>>
      /\ up = "serving" /\ pc[c] = "idle" /\ pc' = [pc EXCEPT ![c] = "waiting"]
  BY DEF Config!Arrive
<1>2. PICK j \in Config!Request : config_job' = [config_job EXCEPT ![c] = j]
  BY DEF Config!Arrive
<1>3. pc'[c] = "waiting" /\ config_job'[c] = j
      /\ \A d \in Client : d # c => pc'[d] = pc[d] /\ config_job'[d] = config_job[d]
  BY <1>1, <1>2 DEF ConfigIInv, Config!TypeOK, ConfigStepsKept
<1>4. Config!TypeOK'
  <2>1. pc' \in [Client -> Config!Steps]
    BY <1>1 DEF ConfigIInv, Config!TypeOK, Config!Steps
  <2>2. \A d \in Client : (holder' = d) = (pc'[d] = "saving")
    BY <1>1, <1>3 DEF ConfigIInv, Config!TypeOK
  <2>3. \A d \in Client : (tuner' = d) = (pc'[d] \in Config!Half)
    BY <1>1, <1>3 DEF ConfigIInv, Config!TypeOK, Config!Half
  <2> QED BY <1>1, <1>3, <2>1, <2>2, <2>3 DEF ConfigIInv, Config!TypeOK
<1>5. ConfigStepsKept'
  <2>1. config_job' \in [Client -> Config!Request \cup {Config!Idle}]
    BY <1>2 DEF ConfigIInv, ConfigStepsKept
  <2>2. \A d \in Client : ConfigJobFits(pc'[d], config_job'[d])
    BY <1>3 DEF ConfigIInv, ConfigStepsKept, ConfigJobFits, Config!Half
  <2> QED BY <1>1, <1>3, <2>1, <2>2 DEF ConfigIInv, ConfigStepsKept
<1>6. ConfigDatabaseKept'
  BY <1>1, <1>3, ConfigDatabaseFrame DEF ConfigIInv
<1>7. ConfigRuntimeKept'
  <2>1. \A d \in Client : Config!Pending(d)' = Config!Pending(d)
    BY <1>1, <1>3 DEF Config!Pending, Config!Half
  <2>2. Config!Pending(c) = {}
    BY <1>1 DEF Config!Pending, Config!Half
  <2> QED BY <1>1, <1>3, <2>1, <2>2, ConfigRuntimeFrame DEF ConfigIInv
<1> QED BY <1>4, <1>5, <1>6, <1>7 DEF ConfigIInv

LEMMA ConfigBeginStep ==
  ASSUME ConfigIInv, NEW c \in Client, Config!BeginSave(c) PROVE ConfigIInv'
<1>1. /\ UNCHANGED <<settings, modules, peers, up, vpn, radio, tuner, config_job, meant,
                     excused>>
      /\ pc[c] = "waiting" /\ holder = None /\ holder' = c
      /\ pc' = [pc EXCEPT ![c] = "saving"]
      /\ todo' = [todo EXCEPT ![c] = Config!Statements(config_job[c])]
  BY DEF Config!BeginSave
<1>2. pc'[c] = "saving" /\ todo'[c] = Config!Statements(config_job[c])
      /\ \A d \in Client : d # c => pc'[d] = pc[d] /\ todo'[d] = todo[d]
  BY <1>1 DEF ConfigIInv, Config!TypeOK, ConfigStepsKept
<1>3. \A d \in Client : pc[d] # "saving"
  BY <1>1, ConfigAssumption DEF ConfigIInv, Config!TypeOK
<1>4. Config!TypeOK'
  <2>1. pc' \in [Client -> Config!Steps]
    BY <1>1 DEF ConfigIInv, Config!TypeOK, Config!Steps
  <2>2. \A d \in Client : (holder' = d) = (pc'[d] = "saving")
    BY <1>1, <1>2, <1>3
  <2>3. \A d \in Client : (tuner' = d) = (pc'[d] \in Config!Half)
    BY <1>1, <1>2 DEF ConfigIInv, Config!TypeOK, Config!Half
  <2> QED BY <1>1, <1>2, <2>1, <2>2, <2>3 DEF ConfigIInv, Config!TypeOK
<1>5. ConfigStepsKept'
  <2>1. \A d \in Client : ConfigJobFits(pc'[d], config_job'[d])
    BY <1>1, <1>2 DEF ConfigIInv, ConfigStepsKept, ConfigJobFits, Config!Half
  <2>2. todo' = [d \in Client |-> todo'[d]]
    BY <1>1 DEF ConfigIInv, ConfigStepsKept
  <2> QED BY <1>1, <1>2, <2>1, <2>2 DEF ConfigIInv, ConfigStepsKept
<1>6. ConfigDatabaseKept'
  <2>1. config_job[c] \in Config!Request
    BY <1>1 DEF ConfigIInv, ConfigStepsKept, ConfigJobFits
  <2>2. Config!LoadConfig = meant /\ Config!IsConfig(meant)
    BY <1>1 DEF ConfigIInv, ConfigDatabaseKept, Config!TypeOK
  <2>3. /\ ConfigSaving(settings, modules, peers, Config!Statements(config_job[c]),
                        Config!Wanted(config_job[c], meant), meant)
        /\ ConfigNarrow(Config!Statements(config_job[c]), config_job[c])
    BY <2>1, <2>2, ConfigSaveStarts
  <2>4. holder' # None
    BY <1>1, ConfigAssumption
  <2>5. ASSUME NEW d \in Client, pc'[d] = "saving"
        PROVE  /\ ConfigSaving(settings', modules', peers', todo'[d],
                               Config!Wanted(config_job'[d], meant'), meant')
               /\ ConfigNarrow(todo'[d], config_job'[d])
    BY <1>1, <1>2, <1>3, <2>3, <2>5
  <2> QED BY <2>4, <2>5 DEF ConfigDatabaseKept
<1>7. ConfigRuntimeKept'
  <2>1. \A d \in Client : Config!Pending(d)' = Config!Pending(d)
    BY <1>1, <1>2 DEF Config!Pending, Config!Half
  <2> QED BY <1>1, <1>2, <2>1, ConfigRuntimeFrame DEF ConfigIInv
<1> QED BY <1>4, <1>5, <1>6, <1>7 DEF ConfigIInv

\* A request that is saving alone holds the settings mutex.
LEMMA ConfigSavesAlone ==
  ASSUME ConfigIInv, NEW c \in Client, pc[c] = "saving"
  PROVE  /\ holder = c /\ up = "serving" /\ Config!Pending(c) = {}
         /\ \A d \in Client \ {c} : pc[d] # "saving"
         /\ config_job[c] \in Config!Request
         /\ Config!IsConfig(meant)
         /\ Config!IsConfig(Config!Wanted(config_job[c], meant))
         /\ ConfigSaving(settings, modules, peers, todo[c],
                         Config!Wanted(config_job[c], meant), meant)
         /\ ConfigNarrow(todo[c], config_job[c])
<1>1. holder = c /\ up = "serving" /\ Config!IsConfig(meant)
  BY DEF ConfigIInv, Config!TypeOK
<1>2. \A d \in Client \ {c} : pc[d] # "saving"
  BY <1>1 DEF ConfigIInv, Config!TypeOK
<1>3. config_job[c] \in Config!Request
  BY DEF ConfigIInv, ConfigStepsKept, ConfigJobFits
<1>4. Config!Pending(c) = {}
  BY DEF Config!Pending, Config!Half
<1> QED
  BY <1>1, <1>2, <1>3, <1>4, ConfigWantedIsConfig
     DEF ConfigIInv, ConfigDatabaseKept

LEMMA ConfigExecuteStep ==
  ASSUME ConfigIInv, NEW c \in Client, Config!Execute(c) PROVE ConfigIInv'
<1>1. /\ UNCHANGED <<up, vpn, radio, holder, tuner, pc, config_job, meant, excused>>
      /\ pc[c] = "saving" /\ Len(todo[c]) > 1 /\ Config!Perform(Head(todo[c]))
      /\ todo' = [todo EXCEPT ![c] = Tail(todo[c])]
  BY DEF Config!Execute
<1> PICK td : td = todo[c]
  OBVIOUS
<1> PICK w : w = Config!Wanted(config_job[c], meant)
  OBVIOUS
<1> PICK was : was = meant
  OBVIOUS
<1>2. /\ Config!IsConfig(w) /\ Config!IsConfig(was)
      /\ ConfigSaving(settings, modules, peers, td, w, was)
      /\ ConfigNarrow(td, config_job[c]) /\ \A d \in Client \ {c} : pc[d] # "saving"
      /\ holder = c
  BY <1>1, ConfigSavesAlone
<1>3. td \in Seq(ConfigWrites(w)) /\ td # <<>>
  <2>1. td \in Seq(ConfigWrites(w))
    BY <1>2 DEF ConfigSaving
  <2>2. Len(td) > 1
    BY <1>1
  <2> QED BY <2>1, <2>2
<1>4. /\ ConfigSaving(settings', modules', peers', Tail(td), w, was)
      /\ settings' = [k \in Config!Key |-> settings'[k]]
      /\ modules' = [k \in Config!RadioKey |-> modules'[k]]
      /\ peers' \subseteq peers \cup w.peers
  BY <1>1, <1>2, <1>3, ConfigPerformed DEF ConfigIInv, ConfigStepsKept
<1>5. todo'[c] = Tail(td) /\ todo' = [d \in Client |-> todo'[d]]
  BY <1>1 DEF ConfigIInv, ConfigStepsKept
<1>6. Config!TypeOK'
  <2>1. peers' \subseteq ConfigPeer
    BY <1>2, <1>4 DEF ConfigIInv, Config!TypeOK, Config!IsConfig
  <2>2. DOMAIN settings' = Config!Key /\ DOMAIN modules' = Config!RadioKey
    BY <1>4
  <2> QED BY <1>1, <2>1, <2>2 DEF ConfigIInv, Config!TypeOK
<1>7. ConfigStepsKept'
  BY <1>1, <1>4, <1>5 DEF ConfigIInv, ConfigStepsKept
<1>8. ConfigDatabaseKept'
  <2>1. ConfigNarrow(Tail(td), config_job[c])
    <3>1. \A i \in 1..Len(Tail(td)) : i + 1 \in 1..Len(td) /\ Tail(td)[i] = td[i + 1]
      BY <1>3, ConfigTailOwes
    <3> QED BY <1>2, <3>1 DEF ConfigNarrow
  <2>2. ASSUME NEW d \in Client, pc'[d] = "saving"
        PROVE  /\ ConfigSaving(settings', modules', peers', todo'[d],
                               Config!Wanted(config_job'[d], meant'), meant')
               /\ ConfigNarrow(todo'[d], config_job'[d])
    <3>1. d = c
      BY <1>1, <1>2, <2>2
    <3> QED BY <1>1, <1>4, <1>5, <2>1, <3>1
  <2>3. holder' # None
    BY <1>1, <1>2, ConfigAssumption
  <2> QED BY <2>2, <2>3 DEF ConfigDatabaseKept
<1>9. ConfigRuntimeKept'
  <2>1. \A d \in Client : Config!Pending(d)' = Config!Pending(d)
    BY <1>1 DEF Config!Pending
  <2> QED BY <1>1, <2>1, ConfigRuntimeFrame DEF ConfigIInv
<1> QED BY <1>6, <1>7, <1>8, <1>9 DEF ConfigIInv

\* Where a request goes on after its save.
LEMMA ConfigAfterSaves ==
  ASSUME NEW j \in Config!Request
  PROVE  /\ Config!AfterSave(j) \in {"idle", "policy", "routes", "tune"}
         /\ Config!AfterSave(j) = "policy" =>
              j.kind \in {"settings", "access"} /\ vpn # Config!NoVpn
         /\ Config!AfterSave(j) = "routes" => j.kind = "routes" /\ vpn # Config!NoVpn
         /\ Config!AfterSave(j) = "tune" => j.kind \in {"radio", "save_module"}
         /\ Config!AfterSave(j) = "idle" =>
              \/ Config!Applied(j) = {}
              \/ (vpn = Config!NoVpn /\ Config!Applied(j) \subseteq {"policy", "routes"})
<1>1. CASE j.kind \in {"radio", "save_module"}
  BY <1>1 DEF Config!AfterSave
<1>2. CASE j.kind \in {"settings", "access"} /\ vpn # Config!NoVpn
  <2>1. Config!AfterSave(j) = "policy"
    BY <1>2 DEF Config!AfterSave
  <2> QED BY <1>2, <2>1
<1>3. CASE j.kind = "routes" /\ vpn # Config!NoVpn
  <2>1. Config!AfterSave(j) = "routes"
    BY <1>3 DEF Config!AfterSave
  <2> QED BY <1>3, <2>1
<1>4. CASE j.kind \in {"settings", "access", "routes"} /\ vpn = Config!NoVpn
  <2>1. Config!AfterSave(j) = "idle"
    BY <1>4 DEF Config!AfterSave
  <2>2. Config!Applied(j) \subseteq {"policy", "routes"}
    BY <1>4 DEF Config!Applied
  <2> QED BY <1>4, <2>1, <2>2
<1>5. CASE j.kind \in {"save_settings", "codename"}
  <2>1. Config!AfterSave(j) = "idle"
    BY <1>5 DEF Config!AfterSave
  <2>2. Config!Applied(j) = {}
    BY <1>5 DEF Config!Applied
  <2> QED BY <2>1, <2>2
<1> QED BY <1>1, <1>2, <1>3, <1>4, <1>5, ConfigRequests

\* The parts a request is about.
LEMMA ConfigPartsOf ==
  ASSUME NEW j \in Config!Request
  PROVE  /\ Config!Applied(j) \subseteq Config!Part /\ Config!Unapplied(j) \subseteq Config!Part
         /\ j.kind = "settings" => Config!Applied(j) = {"policy", "routes"}
         /\ j.kind = "routes" => Config!Applied(j) = {"routes"}
         /\ j.kind = "access" => Config!Applied(j) = {"policy"}
         /\ j.kind \in {"radio", "save_module"} =>
              Config!Applied(j) = {j.module} /\ j.module \in ConfigModule
<1>1. Config!Applied(j) \subseteq Config!Part
  BY ConfigRequests DEF Config!Applied, Config!Part
<1>2. Config!Unapplied(j) \subseteq Config!Part
  BY ConfigRequests DEF Config!Unapplied, Config!Part
<1> QED BY <1>1, <1>2, ConfigRequests DEF Config!Applied

LEMMA ConfigEndStep ==
  ASSUME ConfigIInv, NEW c \in Client, Config!EndSave(c) PROVE ConfigIInv'
<1>1. /\ UNCHANGED <<up, vpn, radio, tuner>>
      /\ pc[c] = "saving" /\ Len(todo[c]) = 1 /\ Config!Perform(Head(todo[c]))
      /\ todo' = [todo EXCEPT ![c] = <<>>]
      /\ holder' = None /\ meant' = Config!Wanted(config_job[c], meant)
      /\ excused' = (excused \ Config!Applied(config_job[c])) \cup Config!Unapplied(config_job[c])
                     \cup (Config!Overlapped(c) \cap (Config!Applied(config_job[c])
                                              \cup Config!Unapplied(config_job[c])))
  BY DEF Config!EndSave
<1> PICK td : td = todo[c]
  OBVIOUS
<1> PICK j : j = config_job[c]
  OBVIOUS
<1> PICK was : was = meant
  OBVIOUS
<1> PICK w : w = Config!Wanted(j, was)
  OBVIOUS
<1> PICK next : next = Config!AfterSave(j)
  OBVIOUS
<1>2. /\ j \in Config!Request /\ Config!IsConfig(w) /\ Config!IsConfig(was)
      /\ ConfigSaving(settings, modules, peers, td, w, was)
      /\ \A d \in Client \ {c} : pc[d] # "saving"
      /\ up = "serving" /\ Config!Pending(c) = {}
  BY <1>1, ConfigSavesAlone
<1>3. td \in Seq(ConfigWrites(w)) /\ td # <<>> /\ Len(Tail(td)) = 0
  <2>1. td \in Seq(ConfigWrites(w))
    BY <1>2 DEF ConfigSaving
  <2>2. Len(td) = 1
    BY <1>1
  <2>3. td # <<>>
    BY <2>1, <2>2
  <2>4. \A S : \A s \in Seq(S) : Len(s) = 1 => Len(Tail(s)) = 0
    OBVIOUS
  <2> QED BY <2>1, <2>2, <2>3, <2>4
<1>4. /\ ConfigSaving(settings', modules', peers', Tail(td), w, was)
      /\ settings' = [k \in Config!Key |-> settings'[k]]
      /\ modules' = [k \in Config!RadioKey |-> modules'[k]]
      /\ peers' \subseteq peers \cup w.peers
  BY <1>1, <1>2, <1>3, ConfigPerformed DEF ConfigIInv, ConfigStepsKept
<1>5. /\ next \in {"idle", "policy", "routes", "tune"}
      /\ next = "policy" => j.kind \in {"settings", "access"} /\ vpn # Config!NoVpn
      /\ next = "routes" => j.kind = "routes" /\ vpn # Config!NoVpn
      /\ next = "tune" => j.kind \in {"radio", "save_module"}
      /\ next = "idle" =>
           \/ Config!Applied(j) = {}
           \/ (vpn = Config!NoVpn /\ Config!Applied(j) \subseteq {"policy", "routes"})
  BY <1>2, ConfigAfterSaves
<1>6. /\ pc' = [pc EXCEPT ![c] = next]
      /\ next = "idle" => config_job' = [config_job EXCEPT ![c] = Config!Idle]
      /\ next # "idle" => config_job' = config_job
  BY DEF Config!EndSave, Config!Finish
<1>7. /\ pc'[c] = next /\ todo' = [d \in Client |-> todo'[d]]
      /\ next = "idle" => config_job'[c] = Config!Idle
      /\ next # "idle" => config_job'[c] = j
      /\ \A d \in Client : d # c => pc'[d] = pc[d] /\ config_job'[d] = config_job[d]
  BY <1>1, <1>6 DEF ConfigIInv, Config!TypeOK, ConfigStepsKept
<1>8. /\ Config!Applied(j) \subseteq Config!Part
      /\ Config!Unapplied(j) \subseteq Config!Part
  BY <1>2, ConfigPartsOf
<1>9. Config!TypeOK'
  <2>1. peers' \subseteq ConfigPeer
    BY <1>2, <1>4 DEF ConfigIInv, Config!TypeOK, Config!IsConfig
  <2>2. DOMAIN settings' = Config!Key /\ DOMAIN modules' = Config!RadioKey
    BY <1>4
  <2>3. Config!IsConfig(meant')
    BY <1>1, <1>2
  <2>4. excused' \subseteq Config!Part
    BY <1>1, <1>8 DEF ConfigIInv, Config!TypeOK
  <2>5. pc' \in [Client -> Config!Steps]
    BY <1>5, <1>6 DEF ConfigIInv, Config!TypeOK, Config!Steps
  <2>6. \A d \in Client : (holder' = d) = (pc'[d] = "saving")
    BY <1>1, <1>2, <1>5, <1>7, ConfigAssumption
  <2>7. \A d \in Client : (tuner' = d) = (pc'[d] \in Config!Half)
    BY <1>1, <1>5, <1>7 DEF ConfigIInv, Config!TypeOK, Config!Half
  <2>8. \A d \in Client : config_job'[d] \in Config!Request \cup {Config!Idle}
    BY <1>2, <1>7 DEF ConfigIInv, Config!TypeOK
  <2>9. \A d \in Client : pc'[d] # "idle" => up' = "serving"
    BY <1>1, <1>2
  <2> QED
    BY <1>1, <2>1, <2>2, <2>3, <2>4, <2>5, <2>6, <2>7, <2>8, <2>9
       DEF ConfigIInv, Config!TypeOK
<1>10. ConfigStepsKept'
  <2>1. \A d \in Client : ConfigJobFits(pc'[d], config_job'[d])
    BY <1>2, <1>5, <1>7 DEF ConfigIInv, ConfigStepsKept, ConfigJobFits, Config!Half
  <2>2. \A d \in Client : pc'[d] \in {"policy", "routes"} => ConfigIsVpn(vpn')
    BY <1>1, <1>5, <1>7 DEF ConfigIInv, ConfigStepsKept
  <2>3. config_job' \in [Client -> Config!Request \cup {Config!Idle}]
    BY <1>6 DEF ConfigIInv, ConfigStepsKept
  <2> QED BY <1>1, <1>4, <1>7, <2>1, <2>2, <2>3 DEF ConfigIInv, ConfigStepsKept
<1>11. ConfigDatabaseKept'
  <2>1. Config!LoadConfig' = ConfigConfigOf(settings', modules', peers')
    BY DEF Config!LoadConfig, Config!Loaded, ConfigConfigOf, ConfigValue,
           ConfigModuleValue
  <2>2. ConfigConfigOf(settings', modules', peers') = w
    BY <1>2, <1>3, <1>4, ConfigSaveDone DEF ConfigSaving
  <2>3. \A d \in Client : pc'[d] # "saving"
    BY <1>2, <1>5, <1>7
  <2> QED BY <1>1, <2>1, <2>2, <2>3 DEF ConfigDatabaseKept
<1>12. ConfigRuntimeKept'
  <2> SUFFICES ASSUME NEW x \in Config!Part, x \notin excused'
               PROVE  ConfigFollowed(x)' /\ \A d \in Client : ConfigBrings(d, x)'
    BY DEF ConfigRuntimeKept
  <2>1. /\ x \notin Config!Unapplied(j)
        /\ x \notin Config!Applied(j) => x \notin excused
        /\ x \in Config!Applied(j) => x \notin Config!Overlapped(c)
    BY <1>1
  <2>2. \A d \in Client \ {c} : Config!Pending(d)' = Config!Pending(d)
    BY <1>7 DEF Config!Pending
  <2>3. Config!Pending(c)' = IF next = "idle" THEN {} ELSE Config!Applied(j)
    BY <1>5, <1>7 DEF Config!Pending, Config!Half
  <2>4. Config!Live(x)' = Config!Live(x)
    BY <1>1 DEF Config!Live
  <2>5. CASE x \in Config!Applied(j)
    <3>1. \A d \in Client \ {c} : x \notin Config!Pending(d)'
      BY <2>1, <2>2, <2>5 DEF Config!Overlapped
    <3>2. CASE next = "idle"
      <4>1. vpn' = Config!NoVpn /\ x \notin ConfigModule
        BY <1>1, <1>5, <2>5, <3>2, ConfigAssumption
      <4> QED BY <2>3, <3>1, <3>2, <4>1 DEF ConfigFollowed, ConfigBrings
    <3>3. CASE next # "idle"
      <4>1. x \in Config!Pending(c)'
        BY <2>3, <2>5, <3>3
      <4>2. ConfigPartOf(Config!Wanted(config_job'[c], meant'), x) = ConfigPartOf(meant', x)
        <5>1. ConfigPartOf(Config!Wanted(j, w), x) = ConfigBrought(j, x)
              /\ ConfigPartOf(w, x) = ConfigBrought(j, x)
          BY <1>2, <2>5, ConfigWantedParts
        <5> QED BY <1>1, <1>7, <3>3, <5>1
      <4>3. ~(pc'[c] = "routes" /\ x = "policy") /\ pc'[c] # "modulation"
        <5>1. j.kind = "routes" => Config!Applied(j) = {"routes"}
          BY <1>2, ConfigPartsOf
        <5> QED BY <1>5, <1>7, <2>5, <5>1
      <4>4. ConfigFollowed(x)'
        BY <4>1 DEF ConfigFollowed
      <4>5. ConfigBrings(c, x)'
        BY <3>1, <4>2, <4>3 DEF ConfigBrings
      <4>6. \A d \in Client \ {c} : ConfigBrings(d, x)'
        BY <3>1 DEF ConfigBrings
      <4> QED BY <4>4, <4>5, <4>6
    <3> QED BY <3>2, <3>3
  <2>6. CASE x \notin Config!Applied(j)
    <3>1. ConfigFollowed(x) /\ \A d \in Client : ConfigBrings(d, x)
      BY <1>2, <2>1, <2>6 DEF ConfigIInv, ConfigRuntimeKept
    <3>2. ConfigPartOf(meant', x) = ConfigPartOf(meant, x)
      BY <1>1, <1>2, <2>1, <2>6, ConfigWantedParts
    <3>3. x \notin Config!Pending(c)' /\ x \notin Config!Pending(c)
      BY <1>2, <2>3, <2>6
    <3>4. ConfigFollowed(x)'
      BY <1>1, <2>2, <2>4, <3>1, <3>2, <3>3 DEF ConfigFollowed
    <3>5. ASSUME NEW d \in Client, x \in Config!Pending(d)' PROVE ConfigBrings(d, x)'
      <4>1. d # c /\ x \in Config!Pending(d) /\ ConfigBrings(d, x)
        BY <2>2, <3>1, <3>3, <3>5
      <4> PICK i : i = config_job[d]
        OBVIOUS
      <4>2. /\ i \in Config!Request
            /\ x \in Config!Applied(i)
            /\ config_job'[d] = i
            /\ pc'[d] = pc[d]
        BY <1>7, <4>1
           DEF Config!Pending, ConfigIInv, ConfigStepsKept, ConfigJobFits, Config!Half
      <4>3. ConfigPartOf(Config!Wanted(i, was), x) = ConfigBrought(i, x)
            /\ ConfigPartOf(Config!Wanted(i, w), x) = ConfigBrought(i, x)
        BY <1>2, <4>2, ConfigWantedParts
      <4>4. ConfigPartOf(Config!Wanted(config_job'[d], meant'), x) = ConfigPartOf(meant', x)
        BY <1>1, <3>2, <4>1, <4>2, <4>3 DEF ConfigBrings
      <4>5. \A e \in Client \ {d} : x \notin Config!Pending(e)'
        BY <2>2, <3>3, <4>1 DEF ConfigBrings
      <4>6. pc'[d] = "routes" /\ x = "policy" =>
              Config!Live(x)' = ConfigPartOf(meant', x)
        BY <2>4, <3>2, <4>1, <4>2 DEF ConfigBrings
      <4>7. ASSUME pc'[d] = "modulation"
            PROVE  radio'[<<x, "radio_config">>] = meant'.radio[<<x, "radio_config">>]
        <5>1. radio[<<x, "radio_config">>] = meant.radio[<<x, "radio_config">>]
          BY <4>1, <4>2, <4>7 DEF ConfigBrings
        <5>2. x \in ConfigModule /\ x # "policy" /\ x # "routes"
          <6>1. i.kind \in {"radio", "save_module"}
            BY <4>2, <4>7 DEF ConfigIInv, ConfigStepsKept, ConfigJobFits, Config!Half
          <6>2. Config!Applied(i) = {i.module} /\ i.module \in ConfigModule
            BY <4>2, <6>1, ConfigPartsOf
          <6> QED BY <4>2, <6>2, ConfigAssumption
        <5>3. ConfigPartOf(w, x) = [h \in Config!Half |-> w.radio[<<x, h>>]]
              /\ ConfigPartOf(was, x) = [h \in Config!Half |-> was.radio[<<x, h>>]]
          BY <5>2 DEF ConfigPartOf
        <5>4. [h \in Config!Half |-> w.radio[<<x, h>>]] = [h \in Config!Half |-> was.radio[<<x, h>>]]
          BY <1>1, <3>2, <5>3
        <5>5. w.radio[<<x, "radio_config">>] = was.radio[<<x, "radio_config">>]
          BY <5>4 DEF Config!Half
        <5> QED BY <1>1, <5>1, <5>5
      <4> QED BY <4>4, <4>5, <4>6, <4>7 DEF ConfigBrings
    <3>6. \A d \in Client : ConfigBrings(d, x)'
      BY <3>5 DEF ConfigBrings
    <3> QED BY <3>4, <3>6
  <2> QED BY <2>5, <2>6
<1> QED BY <1>9, <1>10, <1>11, <1>12 DEF ConfigIInv

LEMMA ConfigFailStep ==
  ASSUME ConfigIInv, NEW c \in Client, Config!SaveFails(c) PROVE ConfigIInv'
<1>1. /\ UNCHANGED <<settings, modules, peers, up, vpn, radio, tuner>>
      /\ pc[c] = "saving" /\ todo' = [todo EXCEPT ![c] = <<>>] /\ holder' = None
      /\ pc' = [pc EXCEPT ![c] = "idle"]
      /\ config_job' = [config_job EXCEPT ![c] = Config!Idle]
      /\ meant' = Config!LoadConfig
  BY DEF Config!SaveFails, Config!Finish
<1> PICK j : j = config_job[c]
  OBVIOUS
<1>2. /\ j \in Config!Request /\ Config!IsConfig(meant) /\ ConfigNarrow(todo[c], j)
      /\ ConfigWritten(settings, modules, peers, todo[c], Config!Wanted(j, meant))
      /\ \A d \in Client \ {c} : pc[d] # "saving"
      /\ up = "serving" /\ Config!Pending(c) = {}
  BY <1>1, ConfigSavesAlone DEF ConfigSaving
<1>3. /\ j.kind \in {"radio", "save_module"} =>
           excused' = excused \cup {j.module} /\ j.module \in Config!Part
      /\ j.kind = "codename" => excused' = excused
      /\ j.kind \in {"settings", "save_settings", "routes", "access"} => excused' = Config!Part
  <2>1. j.kind \in {"radio", "save_module"} => j.module \in Config!Part
    BY <1>2, ConfigRequests DEF Config!Part
  <2> QED BY <2>1 DEF Config!SaveFails
<1>4. /\ pc'[c] = "idle" /\ config_job'[c] = Config!Idle /\ todo' = [d \in Client |-> todo'[d]]
      /\ \A d \in Client : d # c => pc'[d] = pc[d] /\ config_job'[d] = config_job[d]
  BY <1>1 DEF ConfigIInv, Config!TypeOK, ConfigStepsKept
<1>5. Config!TypeOK'
  <2>1. Config!IsConfig(meant')
    BY <1>1, ConfigLoadedConfig DEF ConfigIInv, Config!TypeOK
  <2>2. excused' \subseteq Config!Part
    BY <1>2, <1>3, ConfigRequests DEF ConfigIInv, Config!TypeOK
  <2>3. pc' \in [Client -> Config!Steps]
    BY <1>1 DEF ConfigIInv, Config!TypeOK, Config!Steps
  <2>4. \A d \in Client : (holder' = d) = (pc'[d] = "saving")
    BY <1>1, <1>2, <1>4, ConfigAssumption
  <2>5. \A d \in Client : (tuner' = d) = (pc'[d] \in Config!Half)
    BY <1>1, <1>4 DEF ConfigIInv, Config!TypeOK, Config!Half
  <2>6. \A d \in Client : pc'[d] # "idle" => up' = "serving"
    BY <1>1, <1>2
  <2> QED
    BY <1>1, <1>4, <2>1, <2>2, <2>3, <2>4, <2>5, <2>6
       DEF ConfigIInv, Config!TypeOK
<1>6. ConfigStepsKept'
  <2>1. \A d \in Client : ConfigJobFits(pc'[d], config_job'[d])
    BY <1>4 DEF ConfigIInv, ConfigStepsKept, ConfigJobFits, Config!Half
  <2>2. config_job' \in [Client -> Config!Request \cup {Config!Idle}]
    BY <1>1 DEF ConfigIInv, ConfigStepsKept
  <2> QED BY <1>1, <1>4, <2>1, <2>2 DEF ConfigIInv, ConfigStepsKept
<1>7. ConfigDatabaseKept'
  <2>1. Config!LoadConfig' = meant'
    BY <1>1 DEF Config!LoadConfig, Config!Loaded
  <2>2. \A d \in Client : pc'[d] # "saving"
    BY <1>2, <1>4
  <2> QED BY <2>1, <2>2 DEF ConfigDatabaseKept
<1>8. ConfigRuntimeKept'
  <2> SUFFICES ASSUME NEW x \in Config!Part, x \notin excused'
               PROVE  ConfigFollowed(x)' /\ \A d \in Client : ConfigBrings(d, x)'
    BY DEF ConfigRuntimeKept
  <2>1. /\ x \notin excused
        /\ \/ j.kind \in {"radio", "save_module"} /\ x # j.module
           \/ j.kind = "codename"
    BY <1>2, <1>3, ConfigRequests
  <2>2. ConfigPartOf(meant', x) = ConfigPartOf(meant, x)
    BY <1>1, <1>2, <2>1, ConfigSpared
  <2>3. ConfigFollowed(x) /\ \A d \in Client : ConfigBrings(d, x)
    BY <1>2, <2>1 DEF ConfigIInv, ConfigRuntimeKept
  <2>4. \A d \in Client : Config!Pending(d)' = Config!Pending(d)
    BY <1>2, <1>4 DEF Config!Pending, Config!Half
  <2>5. Config!Live(x)' = Config!Live(x)
    BY <1>1 DEF Config!Live
  <2>6. ConfigFollowed(x)'
    BY <1>1, <2>2, <2>3, <2>4, <2>5 DEF ConfigFollowed
  <2>7. ASSUME NEW d \in Client, x \in Config!Pending(d)' PROVE ConfigBrings(d, x)'
    <3>1. d # c /\ x \in Config!Pending(d) /\ ConfigBrings(d, x)
      BY <1>2, <2>3, <2>4, <2>7
    <3> PICK i : i = config_job[d]
      OBVIOUS
    <3>2. /\ i \in Config!Request
          /\ x \in Config!Applied(i)
          /\ config_job'[d] = i
          /\ pc'[d] = pc[d]
      BY <1>4, <3>1
         DEF Config!Pending, ConfigIInv, ConfigStepsKept, ConfigJobFits, Config!Half
    <3>3. ConfigPartOf(Config!Wanted(i, meant), x) = ConfigBrought(i, x)
          /\ ConfigPartOf(Config!Wanted(i, Config!LoadConfig), x) = ConfigBrought(i, x)
      BY <1>2, <3>2, ConfigWantedParts, ConfigLoadedConfig DEF ConfigIInv, Config!TypeOK
    <3>4. ConfigPartOf(Config!Wanted(config_job'[d], meant'), x) = ConfigPartOf(meant', x)
      BY <1>1, <2>2, <3>1, <3>2, <3>3 DEF ConfigBrings
    <3>5. ASSUME pc'[d] = "modulation"
          PROVE  radio'[<<x, "radio_config">>] = meant'.radio[<<x, "radio_config">>]
      <4>1. radio[<<x, "radio_config">>] = meant.radio[<<x, "radio_config">>]
        BY <3>1, <3>2, <3>5 DEF ConfigBrings
      <4>2. x \in ConfigModule /\ x # "policy" /\ x # "routes"
        <5>1. i.kind \in {"radio", "save_module"}
          BY <3>2, <3>5 DEF ConfigIInv, ConfigStepsKept, ConfigJobFits, Config!Half
        <5>2. Config!Applied(i) = {i.module} /\ i.module \in ConfigModule
          BY <3>2, <5>1, ConfigPartsOf
        <5> QED BY <3>2, <5>2, ConfigAssumption
      <4> PICK a : a = meant
        OBVIOUS
      <4> PICK b : b = Config!LoadConfig
        OBVIOUS
      <4>3. [h \in Config!Half |-> b.radio[<<x, h>>]] = [h \in Config!Half |-> a.radio[<<x, h>>]]
        BY <1>1, <2>2, <4>2 DEF ConfigPartOf
      <4>4. b.radio[<<x, "radio_config">>] = a.radio[<<x, "radio_config">>]
        BY <4>3 DEF Config!Half
      <4> QED BY <1>1, <4>1, <4>4
    <3> QED BY <2>2, <2>4, <2>5, <3>1, <3>2, <3>4, <3>5 DEF ConfigBrings
  <2>8. \A d \in Client : ConfigBrings(d, x)'
    BY <2>7 DEF ConfigBrings
  <2> QED BY <2>6, <2>8
<1> QED BY <1>5, <1>6, <1>7, <1>8 DEF ConfigIInv

\* A request that has saved goes to its next step, with the tables left alone.
LEMMA ConfigApplyFrame ==
  ASSUME ConfigIInv, NEW c \in Client, NEW next \in Config!Steps,
         pc[c] \notin {"idle", "saving"}, next # "saving",
         UNCHANGED <<settings, modules, peers, up, holder, todo, meant>>,
         pc' = [pc EXCEPT ![c] = next],
         \/ config_job' = config_job /\ ConfigJobFits(next, config_job[c])
         \/ next = "idle" /\ config_job' = [config_job EXCEPT ![c] = Config!Idle],
         tuner' = c <=> next \in Config!Half,
         \A d \in Client \ {c} : tuner' = d <=> tuner = d,
         radio' = [k \in Config!RadioKey |-> radio'[k]], excused' \subseteq Config!Part,
         vpn' = vpn \/ ConfigIsVpn(vpn'), next \in {"policy", "routes"} =>
           ConfigIsVpn(vpn')
  PROVE  /\ Config!TypeOK' /\ ConfigStepsKept' /\ ConfigDatabaseKept' /\ up = "serving"
         /\ pc'[c] = next
         /\ \A d \in Client \ {c} : pc'[d] = pc[d] /\ config_job'[d] = config_job[d]
<1>1. /\ pc'[c] = next
      /\ \A d \in Client \ {c} : pc'[d] = pc[d] /\ config_job'[d] = config_job[d]
  BY DEF ConfigIInv, Config!TypeOK, ConfigStepsKept
<1>2. /\ config_job' \in [Client -> Config!Request \cup {Config!Idle}]
      /\ ConfigJobFits(pc'[c], config_job'[c])
  BY <1>1 DEF ConfigIInv, Config!TypeOK, ConfigStepsKept, ConfigJobFits, Config!Half
<1>3. up = "serving"
  BY DEF ConfigIInv, Config!TypeOK
<1>4. Config!TypeOK'
  <2>1. pc' \in [Client -> Config!Steps]
    BY DEF ConfigIInv, Config!TypeOK
  <2>2. \A d \in Client : (holder' = d) = (pc'[d] = "saving")
    BY <1>1 DEF ConfigIInv, Config!TypeOK
  <2>3. \A d \in Client : (tuner' = d) = (pc'[d] \in Config!Half)
    BY <1>1 DEF ConfigIInv, Config!TypeOK
  <2>4. DOMAIN radio' = Config!RadioKey
    OBVIOUS
  <2> QED BY <1>2, <1>3, <2>1, <2>2, <2>3, <2>4 DEF ConfigIInv, Config!TypeOK
<1>5. ConfigStepsKept'
  <2>1. \A d \in Client : ConfigJobFits(pc'[d], config_job'[d])
    BY <1>1, <1>2 DEF ConfigIInv, ConfigStepsKept
  <2>2. vpn' # Config!NoVpn => ConfigIsVpn(vpn')
    BY DEF ConfigIInv, ConfigStepsKept
  <2>3. \A d \in Client : pc'[d] \in {"policy", "routes"} => ConfigIsVpn(vpn')
    BY <1>1 DEF ConfigIInv, ConfigStepsKept
  <2> QED BY <1>2, <2>1, <2>2, <2>3 DEF ConfigIInv, ConfigStepsKept
<1>6. ConfigDatabaseKept'
  BY <1>1, ConfigDatabaseFrame DEF ConfigIInv
<1> QED BY <1>1, <1>3, <1>4, <1>5, <1>6

LEMMA ConfigPolicyStep ==
  ASSUME ConfigIInv, NEW c \in Client, Config!ApplyPolicy(c) PROVE ConfigIInv'
<1>1. /\ UNCHANGED <<settings, modules, peers, up, radio, holder, tuner, todo, meant>>
      /\ pc[c] = "policy"
  BY DEF Config!ApplyPolicy
<1> PICK j : j = config_job[c]
  OBVIOUS
<1> PICK as : as = Config!PolicyOf(j)
  OBVIOUS
<1>2. /\ j \in Config!Request /\ j.kind \in {"settings", "access"} /\ ConfigIsVpn(vpn)
      /\ Config!Pending(c) = Config!Applied(j)
      /\ "policy" \in Config!Applied(j)
      /\ Config!Applied(j) \subseteq Config!Part
  <2>1. j \in Config!Request /\ j.kind \in {"settings", "access"} /\ ConfigIsVpn(vpn)
    BY <1>1 DEF ConfigIInv, ConfigStepsKept, ConfigJobFits
  <2>2. Config!Pending(c) = Config!Applied(j)
    BY <1>1 DEF Config!Pending
  <2> QED BY <2>1, <2>2, ConfigPartsOf
<1>3. tuner' # c /\ \A d \in Client \ {c} : tuner' = d <=> tuner = d
  BY <1>1 DEF ConfigIInv, Config!TypeOK, Config!Half
<1>4. as = [all |-> as.all, peers |-> as.peers] /\ ConfigBrought(j, "policy") = as
  <2>1. ConfigBrought(j, "policy") = as
    BY <1>2 DEF ConfigBrought
  <2>2. as = [all |-> as.all, peers |-> as.peers]
    BY DEF Config!PolicyOf
  <2> QED BY <2>1, <2>2
<1>5. CASE as.peers \cap BadPeer # {}
  <2>1. /\ pc' = [pc EXCEPT ![c] = "idle"]
        /\ config_job' = [config_job EXCEPT ![c] = Config!Idle]
        /\ excused' = excused \cup Config!Applied(j) /\ vpn' = vpn
    BY <1>5 DEF Config!ApplyPolicy, Config!Finish
  <2>2. /\ Config!TypeOK' /\ ConfigStepsKept' /\ ConfigDatabaseKept' /\ up = "serving"
        /\ pc'[c] = "idle"
        /\ \A d \in Client \ {c} : pc'[d] = pc[d] /\ config_job'[d] = config_job[d]
    <3>1. /\ "idle" \in Config!Steps
          /\ "idle" \notin Config!Half
          /\ excused' \subseteq Config!Part
      BY <1>2, <2>1 DEF Config!Steps, Config!Half, ConfigIInv, Config!TypeOK
    <3>2. tuner' = c <=> "idle" \in Config!Half
      BY <1>3, <3>1
    <3>3. radio' = [k \in Config!RadioKey |-> radio'[k]]
      BY <1>1 DEF ConfigIInv, ConfigStepsKept
    <3> QED BY <1>1, <1>3, <2>1, <3>1, <3>2, <3>3, ConfigApplyFrame
  <2>3. ConfigRuntimeKept'
    <3> SUFFICES ASSUME NEW x \in Config!Part, x \notin excused,
                        x \notin Config!Applied(j)
                 PROVE  ConfigFollowed(x)' /\ \A d \in Client : ConfigBrings(d, x)'
      BY <2>1 DEF ConfigRuntimeKept
    <3>1. ConfigFollowed(x) /\ \A d \in Client : ConfigBrings(d, x)
      BY <2>2 DEF ConfigIInv, ConfigRuntimeKept
    <3>2. x \notin Config!Pending(c) /\ x \notin Config!Pending(c)'
          /\ \A d \in Client \ {c} : Config!Pending(d)' = Config!Pending(d)
      BY <1>2, <2>2 DEF Config!Pending, Config!Half
    <3>3. Config!Live(x)' = Config!Live(x)
      BY <1>1, <2>1 DEF Config!Live
    <3>4. ConfigFollowed(x)'
      BY <1>1, <2>1, <3>1, <3>2, <3>3 DEF ConfigFollowed
    <3>5. \A d \in Client : ConfigBrings(d, x)'
      BY <1>1, <2>2, <3>1, <3>2, <3>3 DEF ConfigBrings
    <3> QED BY <3>4, <3>5
  <2> QED BY <2>2, <2>3 DEF ConfigIInv
<1>6. CASE as.peers \cap BadPeer = {}
  <2> DEFINE next == IF j.kind = "settings" THEN "routes" ELSE "idle"
  <2>1. /\ pc' = [pc EXCEPT ![c] = next]
        /\ j.kind = "settings" => config_job' = config_job
        /\ j.kind = "access" => config_job' = [config_job EXCEPT ![c] = Config!Idle]
        /\ excused' = excused
        /\ vpn' = [vpn EXCEPT !.all = as.all, !.peers = as.peers]
    BY <1>2, <1>6 DEF Config!ApplyPolicy, Config!AppliedPolicy, Config!Finish
  <2>2. vpn' = [all |-> as.all, peers |-> as.peers, routes |-> vpn.routes]
    <3>1. vpn' = [all |-> vpn'.all, peers |-> vpn'.peers, routes |-> vpn'.routes]
      BY <1>2, <2>1 DEF ConfigIsVpn
    <3> QED BY <1>2, <2>1, <3>1 DEF ConfigIsVpn
  <2>3. /\ Config!TypeOK' /\ ConfigStepsKept' /\ ConfigDatabaseKept' /\ up = "serving"
        /\ pc'[c] = next
        /\ \A d \in Client \ {c} : pc'[d] = pc[d] /\ config_job'[d] = config_job[d]
    <3>1. next \in Config!Steps /\ next \notin Config!Half /\ next # "saving" /\ next # "policy"
          /\ (next = "routes" => j.kind = "settings")
          /\ (next # "routes" => next = "idle")
      BY DEF Config!Steps, Config!Half
    <3> HIDE DEF next
    <3>2. tuner' = c <=> next \in Config!Half
      BY <1>3, <3>1
    <3>3. /\ radio' = [k \in Config!RadioKey |-> radio'[k]]
          /\ excused' \subseteq Config!Part
      BY <1>1, <2>1 DEF ConfigIInv, ConfigStepsKept, Config!TypeOK
    <3>4. ConfigIsVpn(vpn')
      BY <2>2 DEF ConfigIsVpn
    <3>5. \/ config_job' = config_job /\ ConfigJobFits(next, config_job[c])
          \/ next = "idle" /\ config_job' = [config_job EXCEPT ![c] = Config!Idle]
      <4>1. CASE j.kind = "settings"
        <5>1. ConfigJobFits(next, j)
          BY <1>2, <3>1, <4>1 DEF ConfigJobFits, Config!Half
        <5> QED BY <2>1, <4>1, <5>1
      <4>2. CASE j.kind = "access"
        BY <2>1, <3>1, <4>2
      <4> QED BY <1>2, <4>1, <4>2
    <3> QED BY <1>1, <1>3, <2>1, <3>1, <3>2, <3>3, <3>4, <3>5, ConfigApplyFrame
  <2>4. /\ \A d \in Client \ {c} : Config!Pending(d)' = Config!Pending(d)
        /\ (j.kind = "settings" =>
              /\ Config!Pending(c)' = Config!Applied(j)
              /\ pc'[c] = "routes"
              /\ config_job'[c] = j)
        /\ (j.kind = "access" => Config!Pending(c)' = {})
    <3>1. j.kind = "settings" => pc'[c] = "routes" /\ config_job'[c] = j
      BY <2>1, <2>3
    <3>2. j.kind = "access" => pc'[c] = "idle"
      BY <2>3
    <3>3. j.kind = "settings" => Config!Pending(c)' = Config!Applied(j)
      BY <3>1 DEF Config!Pending
    <3>4. j.kind = "access" => Config!Pending(c)' = {}
      BY <3>2 DEF Config!Pending, Config!Half
    <3> HIDE DEF next
    <3>5. \A d \in Client \ {c} : Config!Pending(d)' = Config!Pending(d)
      BY <2>3 DEF Config!Pending
    <3> QED BY <3>1, <3>3, <3>4, <3>5
  <2>5. ConfigRuntimeKept'
    <3> HIDE DEF next
    <3> SUFFICES ASSUME NEW x \in Config!Part, x \notin excused
                 PROVE  ConfigFollowed(x)' /\ \A d \in Client : ConfigBrings(d, x)'
      BY <2>1 DEF ConfigRuntimeKept
    <3>1. ConfigFollowed(x) /\ \A d \in Client : ConfigBrings(d, x)
      BY <2>3 DEF ConfigIInv, ConfigRuntimeKept
    <3>2. CASE x = "policy"
      <4>1. x \in Config!Pending(c)
        BY <1>2, <3>2
      <4>2. /\ ConfigPartOf(Config!Wanted(j, meant), x) = ConfigPartOf(meant, x)
            /\ \A d \in Client \ {c} : x \notin Config!Pending(d)
        BY <3>1, <4>1 DEF ConfigBrings
      <4>3. ConfigPartOf(Config!Wanted(j, meant), x) = as
        BY <1>2, <1>4, <3>2, ConfigWantedParts DEF ConfigIInv, Config!TypeOK
      <4>4. Config!Live(x)' = as
        <5>1. Config!Live(x)' = [all |-> vpn'.all, peers |-> vpn'.peers]
          BY <3>2 DEF Config!Live
        <5> QED BY <1>4, <2>2, <5>1
      <4>5. Config!Live(x)' = ConfigPartOf(meant', x)
        BY <1>1, <4>2, <4>3, <4>4
      <4>6. \A d \in Client \ {c} : ConfigBrings(d, x)'
        BY <2>4, <4>2 DEF ConfigBrings
      <4>7. ConfigBrings(c, x)'
        <5>1. CASE j.kind = "access"
          BY <2>4, <5>1 DEF ConfigBrings
        <5>2. CASE j.kind = "settings"
          <6>1. ConfigPartOf(Config!Wanted(config_job'[c], meant'), x) = ConfigPartOf(meant', x)
            BY <1>1, <2>4, <4>2, <5>2
          <6>2. /\ pc'[c] # "modulation"
                /\ \A d \in Client \ {c} : x \notin Config!Pending(d)'
            BY <2>4, <4>2, <5>2
          <6> QED BY <4>5, <6>1, <6>2 DEF ConfigBrings
        <5> QED BY <1>2, <5>1, <5>2
      <4>8. ConfigFollowed(x)'
        BY <4>5 DEF ConfigFollowed
      <4> QED BY <4>6, <4>7, <4>8
    <3>3. CASE x # "policy"
      <4>1. Config!Live(x)' = Config!Live(x)
        <5>1. CASE x = "routes"
          BY <2>2, <5>1 DEF Config!Live
        <5>2. CASE x # "routes"
          BY <1>1, <3>3, <5>2 DEF Config!Live
        <5> QED BY <5>1, <5>2
      <4>2. x \in Config!Pending(c)' <=> x \in Config!Pending(c)
        <5>1. j.kind = "access" => Config!Applied(j) = {"policy"}
          BY <1>2, ConfigPartsOf
        <5> QED BY <1>2, <2>4, <3>3, <5>1
      <4>3. vpn # Config!NoVpn
        BY <1>2, ConfigVpnIsThere
      <4>4. ConfigFollowed(x)'
        BY <1>1, <2>4, <3>1, <4>1, <4>2, <4>3 DEF ConfigFollowed
      <4>5. ASSUME NEW d \in Client, x \in Config!Pending(d)' PROVE ConfigBrings(d, x)'
        <5>1. x \in Config!Pending(d) /\ config_job'[d] = config_job[d]
              /\ (pc'[d] = pc[d] \/ pc'[d] = "routes")
          <6>1. CASE d = c
            <7>1. j.kind = "settings"
              BY <1>2, <2>4, <4>5, <6>1
            <7> QED BY <2>4, <4>2, <4>5, <6>1, <7>1
          <6>2. CASE d # c
            BY <2>3, <2>4, <4>5, <6>2
          <6> QED BY <6>1, <6>2
        <5>2. \A e \in Client \ {d} : x \notin Config!Pending(e)'
          BY <2>4, <3>1, <4>2, <5>1 DEF ConfigBrings
        <5> QED BY <1>1, <3>1, <3>3, <5>1, <5>2 DEF ConfigBrings
      <4>6. \A d \in Client : ConfigBrings(d, x)'
        BY <4>5 DEF ConfigBrings
      <4> QED BY <4>4, <4>6
    <3> QED BY <3>2, <3>3
  <2> QED BY <2>3, <2>5 DEF ConfigIInv
<1> QED BY <1>5, <1>6

LEMMA ConfigRoutesStep ==
  ASSUME ConfigIInv, NEW c \in Client, Config!ApplyRoutes(c) PROVE ConfigIInv'
<1>1. /\ UNCHANGED <<settings, modules, peers, up, radio, holder, tuner, todo, meant, excused>>
      /\ pc[c] = "routes"
      /\ pc' = [pc EXCEPT ![c] = "idle"]
      /\ config_job' = [config_job EXCEPT ![c] = Config!Idle]
  BY DEF Config!ApplyRoutes, Config!Finish
<1> PICK j : j = config_job[c]
  OBVIOUS
<1> PICK r : r = IF j.kind = "routes" THEN j.routes ELSE j.config.routes
  OBVIOUS
<1>2. /\ j \in Config!Request /\ j.kind \in {"settings", "routes"}
      /\ ConfigIsVpn(vpn) /\ vpn # Config!NoVpn
      /\ Config!Pending(c) = Config!Applied(j) /\ "routes" \in Config!Applied(j)
      /\ Config!Applied(j) \subseteq {"policy", "routes"}
  <2>1. j \in Config!Request /\ j.kind \in {"settings", "routes"} /\ ConfigIsVpn(vpn)
    BY <1>1 DEF ConfigIInv, ConfigStepsKept, ConfigJobFits
  <2>2. Config!Pending(c) = Config!Applied(j)
    BY <1>1 DEF Config!Pending
  <2> QED BY <2>1, <2>2, ConfigPartsOf, ConfigVpnIsThere
<1>3. vpn' = [all |-> vpn.all, peers |-> vpn.peers, routes |-> r]
  <2>1. vpn' = [vpn EXCEPT !.routes = r]
    BY DEF Config!ApplyRoutes
  <2>2. vpn' = [all |-> vpn'.all, peers |-> vpn'.peers, routes |-> vpn'.routes]
    BY <1>2, <2>1 DEF ConfigIsVpn
  <2> QED BY <1>2, <2>1, <2>2 DEF ConfigIsVpn
<1>4. /\ Config!TypeOK' /\ ConfigStepsKept' /\ ConfigDatabaseKept' /\ up = "serving"
      /\ pc'[c] = "idle"
      /\ \A d \in Client \ {c} : pc'[d] = pc[d] /\ config_job'[d] = config_job[d]
  <2>1. "idle" \in Config!Steps /\ "idle" \notin Config!Half
    BY DEF Config!Steps, Config!Half
  <2>2. (tuner' = c <=> "idle" \in Config!Half) /\ \A d \in Client \ {c} : tuner' = d <=>
          tuner = d
    BY <1>1, <2>1 DEF ConfigIInv, Config!TypeOK, Config!Half
  <2>3. radio' = [k \in Config!RadioKey |-> radio'[k]] /\ excused' \subseteq Config!Part
    BY <1>1 DEF ConfigIInv, ConfigStepsKept, Config!TypeOK
  <2>4. ConfigIsVpn(vpn')
    BY <1>3 DEF ConfigIsVpn
  <2> QED BY <1>1, <2>1, <2>2, <2>3, <2>4, ConfigApplyFrame
<1>5. /\ Config!Pending(c)' = {}
      /\ \A d \in Client \ {c} : Config!Pending(d)' = Config!Pending(d)
  BY <1>4 DEF Config!Pending, Config!Half
<1>6. ConfigRuntimeKept'
  <2> SUFFICES ASSUME NEW x \in Config!Part, x \notin excused
               PROVE  ConfigFollowed(x)' /\ \A d \in Client : ConfigBrings(d, x)'
    BY <1>1 DEF ConfigRuntimeKept
  <2>1. ConfigFollowed(x) /\ \A d \in Client : ConfigBrings(d, x)
    BY <1>4 DEF ConfigIInv, ConfigRuntimeKept
  <2>2. CASE x \in Config!Applied(j)
    <3>1. /\ ConfigPartOf(Config!Wanted(j, meant), x) = ConfigPartOf(meant, x)
          /\ \A d \in Client \ {c} : x \notin Config!Pending(d)
          /\ x = "policy" => Config!Live(x) = ConfigPartOf(meant, x)
      BY <1>1, <1>2, <2>1, <2>2 DEF ConfigBrings
    <3>2. Config!Live(x)' = ConfigPartOf(meant', x)
      <4>1. CASE x = "policy"
        <5>1. Config!Live(x)' = Config!Live(x)
          BY <1>3, <4>1 DEF Config!Live
        <5> QED BY <1>1, <3>1, <4>1, <5>1
      <4>2. CASE x = "routes"
        <5>1. ConfigPartOf(Config!Wanted(j, meant), x) = r
          <6>1. ConfigPartOf(Config!Wanted(j, meant), x) = ConfigBrought(j, x)
            BY <1>2, <2>2, ConfigWantedParts DEF ConfigIInv, Config!TypeOK
          <6> QED BY <1>2, <4>2, <6>1 DEF ConfigBrought
        <5>2. Config!Live(x)' = r
          BY <1>3, <4>2 DEF Config!Live
        <5> QED BY <1>1, <3>1, <5>1, <5>2
      <4> QED BY <1>2, <2>2, <4>1, <4>2
    <3>3. \A d \in Client : x \notin Config!Pending(d)'
      BY <1>5, <3>1
    <3> QED BY <3>2, <3>3 DEF ConfigFollowed, ConfigBrings
  <2>3. CASE x \notin Config!Applied(j)
    <3>1. Config!Live(x)' = Config!Live(x)
      <4>1. CASE x = "policy"
        BY <1>3, <4>1 DEF Config!Live
      <4>2. CASE x # "policy"
        BY <1>1, <1>2, <2>3, <4>2 DEF Config!Live
      <4> QED BY <4>1, <4>2
    <3>2. ConfigFollowed(x)'
      BY <1>1, <1>2, <1>5, <2>1, <2>3, <3>1 DEF ConfigFollowed
    <3>3. \A d \in Client : ConfigBrings(d, x)'
      BY <1>1, <1>4, <1>5, <2>1, <3>1 DEF ConfigBrings
    <3> QED BY <3>2, <3>3
  <2> QED BY <2>2, <2>3
<1> QED BY <1>4, <1>6 DEF ConfigIInv

LEMMA ConfigTuneStep ==
  ASSUME ConfigIInv, NEW c \in Client, Config!Tune(c) PROVE ConfigIInv'
<1>1. /\ UNCHANGED <<settings, modules, peers, up, vpn, radio, holder, config_job, todo, meant,
                     excused>>
      /\ pc[c] = "tune" /\ tuner = None /\ tuner' = c
      /\ pc' = [pc EXCEPT ![c] = "radio_config"]
  BY DEF Config!Tune
<1>2. /\ Config!TypeOK' /\ ConfigStepsKept' /\ ConfigDatabaseKept'
      /\ pc'[c] = "radio_config" /\ \A d \in Client \ {c} : pc'[d] = pc[d]
  <2>1. "radio_config" \in Config!Steps /\ "radio_config" \in Config!Half
    BY DEF Config!Steps, Config!Half
  <2>2. ConfigJobFits("radio_config", config_job[c])
    BY <1>1 DEF ConfigIInv, ConfigStepsKept, ConfigJobFits, Config!Half
  <2>3. radio' = [k \in Config!RadioKey |-> radio'[k]] /\ excused' \subseteq Config!Part
    BY <1>1 DEF ConfigIInv, ConfigStepsKept, Config!TypeOK
  <2>4. (tuner' = c <=> "radio_config" \in Config!Half)
        /\ \A d \in Client \ {c} : tuner' = d <=> tuner = d
    BY <1>1, <2>1, ConfigAssumption
  <2> QED BY <1>1, <2>1, <2>2, <2>3, <2>4, ConfigApplyFrame
<1>3. ConfigRuntimeKept'
  <2>1. \A d \in Client : Config!Pending(d)' = Config!Pending(d)
    BY <1>1, <1>2 DEF Config!Pending, Config!Half
  <2>2. \A d \in Client : pc'[d] = pc[d] \/ pc'[d] \notin {"routes", "modulation"}
    BY <1>2
  <2> QED BY <1>1, <2>1, <2>2, ConfigRuntimeFrame DEF ConfigIInv
<1> QED BY <1>2, <1>3 DEF ConfigIInv

LEMMA ConfigCallStep ==
  ASSUME ConfigIInv, NEW c \in Client, NEW half \in Config!Half, NEW ok \in BOOLEAN,
         Config!Call(c, half, ok)
  PROVE  ConfigIInv'
<1>1. /\ UNCHANGED <<settings, modules, peers, up, vpn, holder, todo, meant>>
      /\ pc[c] = half
  BY DEF Config!Call
<1> PICK j : j = config_job[c]
  OBVIOUS
<1> PICK m : m = j.module
  OBVIOUS
<1> PICK next : next = IF half = "radio_config" /\ (ok \/ j.kind = "radio")
                       THEN "modulation" ELSE "idle"
  OBVIOUS
<1>2. /\ j \in Config!Request /\ j.kind \in {"radio", "save_module"}
      /\ Config!Pending(c) = Config!Applied(j)
      /\ Config!Applied(j) = {m}
      /\ m \in ConfigModule
      /\ m \in Config!Part
      /\ tuner = c
  <2>1. j \in Config!Request /\ j.kind \in {"radio", "save_module"}
    BY <1>1 DEF ConfigIInv, ConfigStepsKept, ConfigJobFits, Config!Half
  <2>2. Config!Pending(c) = Config!Applied(j)
    BY <1>1 DEF Config!Pending
  <2>3. Config!Applied(j) = {m} /\ m \in ConfigModule /\ m \in Config!Part
    BY <2>1, ConfigPartsOf DEF Config!Part
  <2>4. tuner = c
    BY <1>1 DEF ConfigIInv, Config!TypeOK
  <2> QED BY <2>1, <2>2, <2>3, <2>4
<1>3. /\ pc' = [pc EXCEPT ![c] = next]
      /\ next = "modulation" => config_job' = config_job /\ tuner' = tuner
      /\ next = "idle" =>
           config_job' = [config_job EXCEPT ![c] = Config!Idle] /\ tuner' = None
  BY DEF Config!Call, Config!Finish
<1>4. /\ ok => radio' = [radio EXCEPT ![<<m, half>>] = j.value] /\ excused' = excused
      /\ ~ok => radio' = radio /\ excused' = excused \cup {m}
  BY DEF Config!Call
<1>5. /\ Config!TypeOK' /\ ConfigStepsKept' /\ ConfigDatabaseKept' /\ up = "serving"
      /\ pc'[c] = next
      /\ \A d \in Client \ {c} : pc'[d] = pc[d] /\ config_job'[d] = config_job[d]
  <2>1. next \in Config!Steps /\ next # "saving" /\ next \notin {"policy", "routes"}
        /\ (next \in Config!Half <=> next = "modulation")
        /\ next \in {"modulation", "idle"}
    BY DEF Config!Steps, Config!Half
  <2>2. tuner' = c <=> next \in Config!Half
    BY <1>2, <1>3, <2>1, ConfigAssumption
  <2>3. \A d \in Client \ {c} : tuner' = d <=> tuner = d
    BY <1>2, <1>3, <2>1, ConfigAssumption
  <2>4. radio' = [k \in Config!RadioKey |-> radio'[k]]
    BY <1>4 DEF ConfigIInv, ConfigStepsKept
  <2>5. excused' \subseteq Config!Part
    BY <1>2, <1>4 DEF ConfigIInv, Config!TypeOK
  <2>6. \/ config_job' = config_job /\ ConfigJobFits(next, config_job[c])
        \/ next = "idle" /\ config_job' = [config_job EXCEPT ![c] = Config!Idle]
    BY <1>2, <1>3, <2>1 DEF ConfigJobFits
  <2>7. pc[c] \notin {"idle", "saving"}
    BY <1>1 DEF Config!Half
  <2> QED BY <1>1, <1>3, <2>1, <2>2, <2>3, <2>4, <2>5, <2>6, <2>7, ConfigApplyFrame
<1>6. /\ \A d \in Client \ {c} : Config!Pending(d)' = Config!Pending(d)
      /\ next = "idle" => Config!Pending(c)' = {}
      /\ next = "modulation" => Config!Pending(c)' = {m} /\ config_job'[c] = j
  <2>1. \A d \in Client \ {c} : Config!Pending(d)' = Config!Pending(d)
    BY <1>5 DEF Config!Pending
  <2>2. next = "idle" => Config!Pending(c)' = {}
    BY <1>5 DEF Config!Pending, Config!Half
  <2>3. next = "modulation" => config_job'[c] = j
    BY <1>3
  <2>4. next = "modulation" => Config!Pending(c)' = {m}
    BY <1>2, <1>5, <2>3 DEF Config!Pending, Config!Half
  <2> QED BY <2>1, <2>2, <2>3, <2>4
<1>7. ConfigRuntimeKept'
  <2> SUFFICES ASSUME NEW x \in Config!Part, x \notin excused'
               PROVE  ConfigFollowed(x)' /\ \A d \in Client : ConfigBrings(d, x)'
    BY DEF ConfigRuntimeKept
  <2>1. x \notin excused /\ (x = m => ok)
    BY <1>4
  <2>2. ConfigFollowed(x) /\ \A d \in Client : ConfigBrings(d, x)
    BY <1>5, <2>1 DEF ConfigIInv, ConfigRuntimeKept
  <2>3. CASE x = m
    <3>1. /\ ConfigPartOf(Config!Wanted(j, meant), x) = ConfigPartOf(meant, x)
          /\ \A d \in Client \ {c} : x \notin Config!Pending(d)
          /\ half = "modulation" =>
               radio[<<x, "radio_config">>] = meant.radio[<<x, "radio_config">>]
      BY <1>1, <1>2, <2>2, <2>3 DEF ConfigBrings
    <3>2. ConfigPartOf(Config!Wanted(j, meant), x) = [h \in Config!Half |-> j.value]
      <4>1. ConfigPartOf(Config!Wanted(j, meant), x) = ConfigBrought(j, x)
        BY <1>2, <2>3, ConfigWantedParts DEF ConfigIInv, Config!TypeOK
      <4> QED BY <1>2, <4>1 DEF ConfigBrought
    <3>3. x # "policy" /\ x # "routes"
      BY <1>2, <2>3, ConfigAssumption
    <3>4. [h \in Config!Half |-> meant.radio[<<x, h>>]] = [h \in Config!Half |-> j.value]
      BY <3>1, <3>2, <3>3 DEF ConfigPartOf
    <3>5. \A h \in Config!Half : meant.radio[<<x, h>>] = j.value
      BY <3>4
    <3>6. \A h \in Config!Half : <<x, h>> \in Config!RadioKey
      BY <1>2, <2>3 DEF Config!RadioKey
    <3>7. /\ radio'[<<x, half>>] = j.value
          /\ \A h \in Config!Half : h # half => radio'[<<x, h>>] = radio[<<x, h>>]
      BY <1>4, <2>1, <2>3, <3>6 DEF ConfigIInv, ConfigStepsKept
    <3>8. CASE half = "radio_config"
      <4>1. next = "modulation"
        BY <2>1, <2>3, <3>8
      <4>2. \A d \in Client \ {c} : x \notin Config!Pending(d)'
        BY <1>6, <3>1
      <4>3. x \in Config!Pending(c)'
        BY <1>6, <2>3, <4>1
      <4>4. ConfigPartOf(Config!Wanted(config_job'[c], meant'), x) = ConfigPartOf(meant', x)
        BY <1>1, <1>6, <3>1, <4>1
      <4>5. radio'[<<x, "radio_config">>] = meant'.radio[<<x, "radio_config">>]
        BY <1>1, <3>5, <3>7, <3>8
      <4>6. ConfigBrings(c, x)'
        BY <3>3, <4>2, <4>4, <4>5 DEF ConfigBrings
      <4>7. \A d \in Client \ {c} : ConfigBrings(d, x)'
        BY <4>2 DEF ConfigBrings
      <4>8. ConfigFollowed(x)'
        BY <4>3 DEF ConfigFollowed
      <4> QED BY <4>6, <4>7, <4>8
    <3>9. CASE half = "modulation"
      <4>1. next = "idle"
        BY <3>9
      <4>2. \A d \in Client : x \notin Config!Pending(d)'
        BY <1>6, <3>1, <4>1
      <4>3. \A h \in Config!Half : radio'[<<x, h>>] = meant'.radio[<<x, h>>]
        BY <1>1, <3>1, <3>5, <3>7, <3>9 DEF Config!Half
      <4>4. Config!Live(x)' = [h \in Config!Half |-> radio'[<<x, h>>]]
        BY <3>3 DEF Config!Live
      <4>5. ConfigPartOf(meant', x) = [h \in Config!Half |-> meant'.radio[<<x, h>>]]
        BY <3>3 DEF ConfigPartOf
      <4>6. Config!Live(x)' = ConfigPartOf(meant', x)
        BY <4>3, <4>4, <4>5
      <4> QED BY <4>2, <4>6 DEF ConfigFollowed, ConfigBrings
    <3> QED BY <3>8, <3>9 DEF Config!Half
  <2>4. CASE x # m
    <3>1. x \in ConfigModule => \A h \in Config!Half : radio'[<<x, h>>] = radio[<<x, h>>]
      <4>1. x \in ConfigModule =>
              \A h \in Config!Half :
                <<x, h>> \in Config!RadioKey /\ <<x, h>> # <<m, half>>
        BY <2>4 DEF Config!RadioKey
      <4> QED BY <1>4, <4>1 DEF ConfigIInv, ConfigStepsKept
    <3>2. Config!Live(x)' = Config!Live(x)
      BY <1>1, <3>1 DEF Config!Live, Config!Part
    <3>3. x \notin Config!Pending(c) /\ x \notin Config!Pending(c)'
      BY <1>2, <1>6, <2>4
    <3>4. ConfigFollowed(x)'
      BY <1>1, <1>6, <2>2, <3>2, <3>3 DEF ConfigFollowed
    <3>5. ASSUME NEW d \in Client, x \in Config!Pending(d)' PROVE ConfigBrings(d, x)'
      <4>1. d # c /\ x \in Config!Pending(d)
        BY <1>6, <3>3, <3>5
      <4>2. pc[d] = "modulation" => x \in ConfigModule
        <5>1. ASSUME pc[d] = "modulation" PROVE x \in ConfigModule
          <6>1. /\ config_job[d] \in Config!Request
                /\ config_job[d].kind \in {"radio", "save_module"}
            BY <5>1 DEF ConfigIInv, ConfigStepsKept, ConfigJobFits, Config!Half
          <6>2. /\ Config!Applied(config_job[d]) = {config_job[d].module}
                /\ config_job[d].module \in ConfigModule
            BY <6>1, ConfigPartsOf
          <6> QED BY <4>1, <5>1, <6>2 DEF Config!Pending
        <5> QED BY <5>1
      <4>3. pc[d] = "modulation" =>
              radio'[<<x, "radio_config">>] = radio[<<x, "radio_config">>]
        BY <3>1, <4>2 DEF Config!Half
      <4>4. \A e \in Client \ {d} : x \notin Config!Pending(e)'
        BY <1>6, <2>2, <3>3, <4>1 DEF ConfigBrings
      <4> QED BY <1>1, <1>5, <2>2, <3>2, <4>1, <4>3, <4>4 DEF ConfigBrings
    <3>6. \A d \in Client : ConfigBrings(d, x)'
      BY <3>5 DEF ConfigBrings
    <3> QED BY <3>4, <3>6
  <2> QED BY <2>3, <2>4
<1> QED BY <1>5, <1>7 DEF ConfigIInv

LEMMA ConfigStutter == ASSUME ConfigIInv, UNCHANGED Config!vars PROVE ConfigIInv'
<1>1. /\ UNCHANGED <<settings, modules, peers, up, vpn, radio, holder, tuner>>
      /\ UNCHANGED <<pc, config_job, todo, meant, excused>>
  BY DEF Config!vars
<1>2. Config!TypeOK'
  BY <1>1 DEF ConfigIInv, Config!TypeOK
<1>3. ConfigStepsKept'
  BY <1>1 DEF ConfigIInv, ConfigStepsKept
<1>4. ConfigDatabaseKept'
  BY <1>1, ConfigDatabaseFrame DEF ConfigIInv
<1>5. ConfigRuntimeKept'
  <2>1. \A d \in Client : Config!Pending(d)' = Config!Pending(d)
    BY <1>1 DEF Config!Pending
  <2> QED BY <1>1, <2>1, ConfigRuntimeFrame DEF ConfigIInv
<1> QED BY <1>2, <1>3, <1>4, <1>5 DEF ConfigIInv

-----------------------------------------------------------------------------
\* The tables start empty, so that the defaults are loaded.
LEMMA ConfigInitInvariant == ASSUME Config!Init PROVE ConfigIInv
<1>1. \A c \in Client : pc[c] = "idle" /\ config_job[c] = Config!Idle /\ todo[c] = <<>>
  BY DEF Config!Init
<1>2. Config!TypeOK
  <2>1. \A c \in Client : c # None
    BY ConfigAssumption
  <2>2. pc \in [Client -> Config!Steps]
    BY DEF Config!Init, Config!Steps
  <2>3. \A c \in Client : (holder = c) = (pc[c] = "saving")
    BY <1>1, <2>1 DEF Config!Init
  <2>4. \A c \in Client : (tuner = c) = (pc[c] \in Config!Half)
    BY <1>1, <2>1 DEF Config!Init, Config!Half
  <2>5. Config!IsConfig(meant)
    BY ConfigAssumption DEF Config!Init
  <2> QED BY <1>1, <2>2, <2>3, <2>4, <2>5 DEF Config!Init, Config!TypeOK
<1>3. ConfigStepsKept
  BY <1>1 DEF Config!Init, ConfigStepsKept, ConfigJobFits, Config!Half
<1>4. ConfigDatabaseKept
  <2>1. \A k \in ConfigField : ConfigValue(settings, k) = ConfigDefault[k]
    BY DEF Config!Init, ConfigValue, ConfigField, Config!Key
  <2>2. [k \in Config!RadioKey |-> ConfigModuleValue(modules, k)]
          = [k \in Config!RadioKey |-> ConfigDefault.radio[k]]
    BY DEF Config!Init, ConfigModuleValue
  <2>3. /\ ConfigValue(settings, "network") = ConfigDefault.network
        /\ ConfigValue(settings, "routes") = ConfigDefault.routes
        /\ ConfigValue(settings, "all") = ConfigDefault.all
    BY <2>1 DEF ConfigField
  <2>4. Config!LoadConfig = ConfigDefault
    BY <2>2, <2>3, ConfigLoadedConfig, ConfigAssumption DEF Config!Init, Config!IsConfig
  <2> QED BY <1>1, <2>4 DEF Config!Init, ConfigDatabaseKept
<1>5. ConfigRuntimeKept
  BY DEF Config!Init, ConfigRuntimeKept
<1> QED BY <1>2, <1>3, <1>4, <1>5 DEF ConfigIInv

\* The steps preserve it.
LEMMA ConfigInvariantStep == ConfigIInv /\ [Config!Next]_(Config!vars) => ConfigIInv'
<1> SUFFICES ASSUME ConfigIInv, [Config!Next]_(Config!vars) PROVE ConfigIInv'
  OBVIOUS
<1>1. ASSUME NEW c \in Client, Config!CallRadio(c) PROVE ConfigIInv'
  BY <1>1, ConfigCallStep DEF Config!CallRadio
<1>2. ASSUME NEW c \in Client, Config!CallFails(c) PROVE ConfigIInv'
  BY <1>2, ConfigCallStep DEF Config!CallFails
<1> QED BY <1>1, <1>2, ConfigBootStep, ConfigServeStep, ConfigStopStep, ConfigArriveStep,
           ConfigBeginStep, ConfigExecuteStep,
           ConfigEndStep, ConfigFailStep, ConfigPolicyStep, ConfigRoutesStep,
           ConfigTuneStep, ConfigStutter DEF Config!Next

\* It implies what is checked.
LEMMA ConfigKept ==
  ConfigIInv => /\ Config!TypeOK /\ Config!NoFieldLost
                /\ Config!TornSaveAdmitsNobodyElse /\ Config!RuntimeFollowsSettings
<1> SUFFICES ASSUME ConfigIInv
             PROVE  /\ Config!NoFieldLost
                    /\ Config!TornSaveAdmitsNobodyElse
                    /\ Config!RuntimeFollowsSettings
  BY DEF ConfigIInv
<1>1. Config!NoFieldLost
  BY DEF ConfigIInv, ConfigDatabaseKept, Config!NoFieldLost
<1>2. Config!TornSaveAdmitsNobodyElse
  <2> SUFFICES ASSUME NEW p \in ConfigPeer, Config!Admits(Config!LoadConfig, p)
               PROVE  \/ Config!Admits(meant, p)
                      \/ holder # None /\ Config!Admits(Config!Wanted(config_job[holder], meant), p)
    BY DEF Config!TornSaveAdmitsNobodyElse
  <2>1. CASE holder = None
    BY <2>1 DEF ConfigIInv, ConfigDatabaseKept
  <2>2. CASE holder \in Client
    <3> PICK w : w = Config!Wanted(config_job[holder], meant)
      OBVIOUS
    <3>1. pc[holder] = "saving" /\ holder # None
      BY <2>2, ConfigAssumption DEF ConfigIInv, Config!TypeOK
    <3>2. ConfigSaving(settings, modules, peers, todo[holder], w, meant)
      BY <2>2, <3>1 DEF ConfigIInv, ConfigDatabaseKept
    <3>3. ConfigValue(settings, "all") \in {meant.all, w.all}
          /\ (peers = meant.peers \/ peers \subseteq w.peers)
      BY <3>2 DEF ConfigSaving, ConfigWritten, ConfigBetween, ConfigAt, ConfigField
    <3>4. /\ Config!LoadConfig.all = ConfigValue(settings, "all")
          /\ Config!LoadConfig.peers = peers
      BY ConfigLoadedConfig
    <3> QED BY <3>1, <3>3, <3>4 DEF Config!Admits
  <2> QED BY <2>1, <2>2 DEF ConfigIInv, ConfigStepsKept
<1>3. Config!RuntimeFollowsSettings
  <2> SUFFICES ASSUME up = "serving", holder = None, NEW x \in Config!Part \ excused,
                      \/ x \in ConfigModule
                      \/ vpn # Config!NoVpn, \A c \in Client : x \notin Config!Pending(c)
               PROVE  Config!Live(x) = Config!Saved(x)
    BY DEF Config!RuntimeFollowsSettings
  <2>1. Config!Live(x) = ConfigPartOf(Config!LoadConfig, x)
    BY DEF ConfigIInv, ConfigDatabaseKept, ConfigRuntimeKept, ConfigFollowed
  <2>2. Config!LoadConfig.peers = peers
    BY ConfigLoadedConfig
  <2>3. Config!Saved(x) = ConfigPartOf(Config!LoadConfig, x)
    BY <2>2 DEF Config!Saved, ConfigPartOf
  <2> QED BY <2>1, <2>3
<1> QED BY <1>1, <1>2, <1>3

-----------------------------------------------------------------------------
(* The settings implement SettingsStore: what was meant is what is stored.      *)

\* The settings as SettingsStore sees them: what was meant is what is stored, and
\* a request has been asked for until its save has ended.
ConfigStored == IF holder = None THEN Config!LoadConfig ELSE meant
ConfigAsked == [c \in Client |-> IF pc[c] \in {"waiting", "saving"} THEN config_job[c] ELSE None]

LEMMA ConfigStoredIsMeant == ConfigIInv => ConfigStored = meant
BY DEF ConfigIInv, ConfigDatabaseKept, ConfigStored

\* A step that SettingsStore does not see.
ConfigStoreRests == UNCHANGED Config!Store!vars

LEMMA ConfigStoreVars == UNCHANGED <<ConfigStored, ConfigAsked>> => UNCHANGED Config!Store!vars
BY DEF Config!Store!vars, ConfigStored, ConfigAsked

\* An empty database has the default configuration.
LEMMA ConfigStoreInit == Config!Init => Config!Store!Init
<1> SUFFICES ASSUME Config!Init PROVE Config!Store!Init
  OBVIOUS
<1>1. ConfigIInv
  BY ConfigInitInvariant
<1>2. ConfigStored = ConfigDefault
  BY <1>1, ConfigStoredIsMeant DEF Config!Init
<1>3. ConfigAsked = [c \in Client |-> None]
  BY DEF Config!Init, ConfigAsked
<1> QED BY <1>2, <1>3 DEF Config!Store!Init, ConfigStored, ConfigAsked

\* A save that is cut off leaves what SettingsStore allows.
LEMMA ConfigCutOff ==
  ASSUME NEW w, NEW was, Config!IsConfig(was), NEW td,
         ConfigSaving(settings, modules, peers, td, w, was)
  PROVE  Config!Store!CutOff(was, w, Config!LoadConfig)
<1> DEFINE got == Config!LoadConfig
<1>1. /\ \A k \in ConfigField : got[k] = ConfigValue(settings, k)
      /\ got.peers = peers
      /\ got.radio = [k \in Config!RadioKey |-> ConfigModuleValue(modules, k)]
  BY ConfigLoadedConfig DEF ConfigField
<1>2. Config!Store!Settings = ConfigField
  BY DEF Config!Store!Settings, ConfigField
<1> HIDE DEF got
<1>3. \A k \in ConfigField : got[k] \in {was[k], w[k]}
  BY <1>1 DEF ConfigSaving, ConfigBetween
<1>4. ConfigHasFields(settings, w) => Config!Store!HasSettings(got, w)
  BY <1>1, <1>2 DEF ConfigHasFields, Config!Store!HasSettings
<1>5. ConfigUntouched(modules, was) => got.radio = was.radio
  BY <1>1 DEF ConfigUntouched, Config!IsConfig
<1>6. CASE ConfigOwes(td, Config!Clear) /\ peers = was.peers /\ ConfigUntouched(modules, was)
  BY <1>1, <1>2, <1>3, <1>5, <1>6 DEF Config!Store!CutOff, got
<1>7. CASE ~ConfigOwes(td, Config!Clear) /\ ConfigHasFields(settings, w)
           /\ ConfigUntouched(modules, was)
  <2>1. peers \subseteq w.peers
    BY <1>7 DEF ConfigSaving, ConfigWritten
  <2> QED BY <1>1, <1>4, <1>5, <1>7, <2>1 DEF Config!Store!CutOff, got
<1>8. CASE ConfigHasFields(settings, w) /\ peers = w.peers
  <2>1. \A k \in Config!RadioKey : got.radio[k] \in {was.radio[k], w.radio[k]}
    BY <1>1 DEF ConfigSaving, ConfigBetween
  <2> QED BY <1>1, <1>4, <1>8, <2>1 DEF Config!Store!CutOff, got
<1> QED BY <1>6, <1>7, <1>8 DEF ConfigSaving, ConfigBetween, ConfigAt

\* What the request of a client amounts to while its save is to come or under way.
LEMMA ConfigAskedOf ==
  ASSUME ConfigIInv, NEW c \in Client
  PROVE  /\ pc[c] \in {"waiting", "saving"} =>
              ConfigAsked[c] = config_job[c] /\ ConfigAsked[c] \in Config!Request
         /\ pc[c] \notin {"waiting", "saving"} => ConfigAsked[c] = None
BY DEF ConfigIInv, ConfigStepsKept, ConfigJobFits, ConfigAsked

\* A step that neither begins nor ends a request, and saves nothing.
ConfigAsksOn(c) ==
  \/ pc'[c] = pc[c] /\ config_job'[c] = config_job[c]
  \/ pc[c] = "waiting" /\ pc'[c] = "saving" /\ config_job'[c] = config_job[c]
  \/ pc[c] \notin {"waiting", "saving"} /\ pc'[c] \notin {"waiting", "saving"}
LEMMA ConfigStoreStutter ==
  ASSUME ConfigIInv, ConfigIInv', meant' = meant, \A c \in Client : ConfigAsksOn(c)
  PROVE  ConfigStoreRests
<1>1. ConfigStored' = ConfigStored
  <2>1. ConfigStored = meant
    BY ConfigStoredIsMeant
  <2>2. ConfigStored' = meant'
    BY DEF ConfigIInv, ConfigDatabaseKept, ConfigStored
  <2> QED BY <2>1, <2>2
<1>2. ConfigAsked' = ConfigAsked
  <2>1. \A c \in Client :
          (IF pc'[c] \in {"waiting", "saving"} THEN config_job'[c] ELSE None)
            = IF pc[c] \in {"waiting", "saving"} THEN config_job[c] ELSE None
    BY DEF ConfigAsksOn
  <2> QED BY <2>1 DEF ConfigAsked
<1> QED BY <1>1, <1>2, ConfigStoreVars DEF ConfigStoreRests

\* What a request that ends leaves of those that have been asked.
LEMMA ConfigAskedEnds ==
  ASSUME NEW c \in Client, pc'[c] \notin {"waiting", "saving"},
         \A d \in Client \ {c} : pc'[d] = pc[d] /\ config_job'[d] = config_job[d]
  PROVE  ConfigAsked' = [ConfigAsked EXCEPT ![c] = None]
<1>1. \A d \in Client :
        (IF pc'[d] \in {"waiting", "saving"} THEN config_job'[d] ELSE None)
          = IF d = c THEN None
            ELSE IF pc[d] \in {"waiting", "saving"} THEN config_job[d] ELSE None
  OBVIOUS
<1> QED BY <1>1 DEF ConfigAsked

LEMMA ConfigStoreArrive ==
  ASSUME ConfigIInv, ConfigIInv', NEW c \in Client, Config!Arrive(c)
  PROVE  Config!Store!Ask(c)
<1>1. PICK j \in Config!Request : config_job' = [config_job EXCEPT ![c] = j]
  BY DEF Config!Arrive
<1>2. pc[c] = "idle" /\ pc' = [pc EXCEPT ![c] = "waiting"] /\ holder' = holder /\ meant' = meant
  BY DEF Config!Arrive
<1>3. pc'[c] = "waiting" /\ config_job'[c] = j
      /\ \A d \in Client \ {c} : pc'[d] = pc[d] /\ config_job'[d] = config_job[d]
  BY <1>1, <1>2 DEF ConfigIInv, ConfigStepsKept, Config!TypeOK
<1>4. ConfigAsked' = [ConfigAsked EXCEPT ![c] = j]
  <2>1. \A d \in Client :
          (IF pc'[d] \in {"waiting", "saving"} THEN config_job'[d] ELSE None)
            = IF d = c THEN j
              ELSE IF pc[d] \in {"waiting", "saving"} THEN config_job[d] ELSE None
    BY <1>3
  <2> QED BY <2>1 DEF ConfigAsked
<1>5. ConfigAsked[c] = None
  BY <1>2 DEF ConfigAsked
<1>6. ConfigStored' = ConfigStored
  <2>1. ConfigStored = meant /\ ConfigStored' = meant'
    BY DEF ConfigIInv, ConfigDatabaseKept, ConfigStored
  <2> QED BY <1>2, <2>1
<1> QED BY <1>4, <1>5, <1>6 DEF Config!Store!Ask, ConfigAsked, ConfigStored

LEMMA ConfigStoreCommit ==
  ASSUME ConfigIInv, ConfigIInv', NEW c \in Client, Config!EndSave(c)
  PROVE  Config!Store!Commit(c)
<1>1. pc[c] = "saving" /\ meant' = Config!Wanted(config_job[c], meant)
  BY DEF Config!EndSave
<1>2. /\ pc'[c] \notin {"waiting", "saving"}
      /\ \A d \in Client \ {c} : pc'[d] = pc[d] /\ config_job'[d] = config_job[d]
  BY DEF Config!EndSave, Config!Finish, Config!AfterSave, ConfigIInv, ConfigStepsKept, Config!TypeOK
<1>3. ConfigAsked' = [ConfigAsked EXCEPT ![c] = None]
  BY <1>2, ConfigAskedEnds
<1>4. ConfigAsked[c] = config_job[c] /\ ConfigAsked[c] \in Config!Request
  BY <1>1, ConfigAskedOf
<1>5. ConfigStored' = Config!Wanted(ConfigAsked[c], ConfigStored)
  <2>1. ConfigStored = meant /\ ConfigStored' = meant'
    BY DEF ConfigIInv, ConfigDatabaseKept, ConfigStored
  <2> QED BY <1>1, <1>4, <2>1
<1> QED BY <1>3, <1>4, <1>5 DEF Config!Store!Commit, ConfigAsked, ConfigStored

\* A save under way that ends here, whatever it has written.
LEMMA ConfigStoreTears ==
  ASSUME ConfigIInv, ConfigIInv', NEW c \in Client, pc[c] = "saving",
         meant' = Config!LoadConfig
  PROVE  Config!Store!Tear(c)
<1>1. ConfigAsked[c] = config_job[c] /\ ConfigAsked[c] \in Config!Request
  BY ConfigAskedOf
<1>2. ConfigStored = meant /\ ConfigStored' = meant'
  BY DEF ConfigIInv, ConfigDatabaseKept, ConfigStored
<1>3. Config!Store!CutOff(meant, Config!Wanted(config_job[c], meant), Config!LoadConfig)
  <2> DEFINE w == Config!Wanted(config_job[c], meant)
  <2>1. ConfigSaving(settings, modules, peers, todo[c], w, meant) /\ Config!IsConfig(meant)
    BY DEF ConfigIInv, ConfigDatabaseKept, Config!TypeOK
  <2> HIDE DEF w
  <2>2. Config!Store!CutOff(meant, w, Config!LoadConfig)
    BY <2>1, ConfigCutOff
  <2> QED BY <2>2 DEF w
<1>4. Config!Store!CutOff(ConfigStored, Config!Wanted(ConfigAsked[c], ConfigStored), ConfigStored')
  BY <1>1, <1>2, <1>3
<1> QED BY <1>1, <1>4 DEF Config!Store!Tear, ConfigAsked, ConfigStored

LEMMA ConfigStoreRefuse ==
  ASSUME ConfigIInv, ConfigIInv', NEW c \in Client, Config!SaveFails(c)
  PROVE  Config!Store!Refuse(c)
<1>1. pc[c] = "saving" /\ meant' = Config!LoadConfig
  BY DEF Config!SaveFails
<1>2. /\ pc'[c] \notin {"waiting", "saving"}
      /\ \A d \in Client \ {c} : pc'[d] = pc[d] /\ config_job'[d] = config_job[d]
  BY DEF Config!SaveFails, Config!Finish, ConfigIInv, ConfigStepsKept, Config!TypeOK
<1>3. Config!Store!Tear(c)
  BY <1>1, ConfigStoreTears
<1>4. ConfigAsked' = [ConfigAsked EXCEPT ![c] = None]
  BY <1>2, ConfigAskedEnds
<1> QED BY <1>3, <1>4 DEF Config!Store!Refuse, ConfigAsked

LEMMA ConfigStoreStop ==
  ASSUME ConfigIInv, ConfigIInv', Config!Stop
  PROVE  Config!Store!Stop
<1>1. meant' = Config!LoadConfig /\ pc' = [c \in Client |-> "idle"]
  BY DEF Config!Stop
<1>2. ConfigAsked' = [c \in Client |-> None]
  BY <1>1 DEF ConfigAsked
<1>3. ConfigStored' = ConfigStored \/ \E c \in Client : Config!Store!Tear(c)
  <2>1. CASE holder = None
    <3>1. ConfigStored' = meant' /\ ConfigStored = Config!LoadConfig
      BY <2>1 DEF ConfigIInv, ConfigDatabaseKept, ConfigStored
    <3> QED BY <1>1, <3>1
  <2>2. CASE holder \in Client
    <3>1. pc[holder] = "saving"
      BY <2>2 DEF ConfigIInv, Config!TypeOK
    <3>2. Config!Store!Tear(holder)
      BY <1>1, <2>2, <3>1, ConfigStoreTears
    <3> QED BY <2>2, <3>2
  <2> QED BY <2>1, <2>2 DEF ConfigIInv, ConfigStepsKept
<1> QED BY <1>2, <1>3 DEF Config!Store!Stop, ConfigAsked, ConfigStored

\* The steps of requests that are not at their save.
LEMMA ConfigStoreElsewhere ==
  ASSUME ConfigIInv, ConfigIInv', NEW c \in Client,
         pc[c] \notin {"waiting", "saving"}, pc'[c] \notin {"waiting", "saving"},
         \A d \in Client \ {c} : pc'[d] = pc[d] /\ config_job'[d] = config_job[d],
         meant' = meant
  PROVE  ConfigStoreRests
<1>1. \A d \in Client : ConfigAsksOn(d)
  BY DEF ConfigAsksOn
<1> QED BY <1>1, ConfigStoreStutter

\* Every step of the settings is one of SettingsStore, or none.
LEMMA ConfigStoreStep ==
  ASSUME ConfigIInv, ConfigIInv', [Config!Next]_(Config!vars)
  PROVE  [Config!Store!Next]_(Config!Store!vars)
<1>1. CASE Config!Boot \/ Config!Serve \/ UNCHANGED Config!vars
  <2>1. pc' = pc /\ config_job' = config_job /\ meant' = meant
    BY <1>1 DEF Config!Boot, Config!Serve, Config!vars
  <2>2. \A d \in Client : ConfigAsksOn(d)
    BY <2>1 DEF ConfigAsksOn
  <2> QED BY <2>1, <2>2, ConfigStoreStutter DEF ConfigStoreRests
<1>2. CASE Config!Stop
  BY <1>2, ConfigStoreStop DEF Config!Store!Next
<1>3. ASSUME NEW c \in Client, Config!Arrive(c) PROVE Config!Store!Next
  BY <1>3, ConfigStoreArrive DEF Config!Store!Next
<1>4. ASSUME NEW c \in Client, Config!BeginSave(c) PROVE ConfigStoreRests
  <2>1. /\ pc[c] = "waiting" /\ pc' = [pc EXCEPT ![c] = "saving"]
        /\ config_job' = config_job /\ meant' = meant
    BY <1>4 DEF Config!BeginSave
  <2>2. pc'[c] = "saving" /\ \A d \in Client \ {c} : pc'[d] = pc[d]
    BY <2>1 DEF ConfigIInv, Config!TypeOK
  <2>3. \A d \in Client : ConfigAsksOn(d)
    BY <2>1, <2>2 DEF ConfigAsksOn
  <2> QED BY <2>1, <2>3, ConfigStoreStutter
<1>5. ASSUME NEW c \in Client, Config!Execute(c) PROVE ConfigStoreRests
  <2>1. pc' = pc /\ config_job' = config_job /\ meant' = meant
    BY <1>5 DEF Config!Execute
  <2>2. \A d \in Client : ConfigAsksOn(d)
    BY <2>1 DEF ConfigAsksOn
  <2> QED BY <2>1, <2>2, ConfigStoreStutter
<1>6. ASSUME NEW c \in Client, Config!EndSave(c) PROVE Config!Store!Next
  BY <1>6, ConfigStoreCommit DEF Config!Store!Next
<1>7. ASSUME NEW c \in Client, Config!SaveFails(c) PROVE Config!Store!Next
  BY <1>7, ConfigStoreRefuse DEF Config!Store!Next
<1>8. ASSUME NEW c \in Client,
             \/ Config!ApplyPolicy(c) \/ Config!ApplyRoutes(c) \/ Config!Tune(c)
             \/ \E half \in Config!Half, ok \in BOOLEAN : Config!Call(c, half, ok)
      PROVE  ConfigStoreRests
  <2>1. /\ pc[c] \notin {"waiting", "saving"}
        /\ pc'[c] \notin {"waiting", "saving"}
        /\ \A d \in Client \ {c} : pc'[d] = pc[d] /\ config_job'[d] = config_job[d]
        /\ meant' = meant
    <3>1. CASE Config!ApplyPolicy(c)
      BY <3>1 DEF Config!ApplyPolicy, Config!Finish, ConfigIInv, ConfigStepsKept, Config!TypeOK
    <3>2. CASE Config!ApplyRoutes(c)
      BY <3>2 DEF Config!ApplyRoutes, Config!Finish, ConfigIInv, ConfigStepsKept, Config!TypeOK
    <3>3. CASE Config!Tune(c)
      BY <3>3 DEF Config!Tune, ConfigIInv, ConfigStepsKept, Config!TypeOK
    <3>4. ASSUME NEW half \in Config!Half, NEW ok \in BOOLEAN, Config!Call(c, half, ok)
          PROVE  <2>1!:
      BY <3>4 DEF Config!Call, Config!Finish, Config!Half, ConfigIInv, ConfigStepsKept,
         Config!TypeOK
    <3> QED BY <1>8, <3>1, <3>2, <3>3, <3>4
  <2> QED BY <2>1, ConfigStoreElsewhere
<1> QED
  BY <1>1, <1>2, <1>3, <1>4, <1>5, <1>6, <1>7, <1>8
  DEF ConfigStoreRests, Config!Next, Config!CallRadio, Config!CallFails

-----------------------------------------------------------------------------
(* The network settings (network.rs).  That the mode is the one last asked for *)
(* when a request has ended follows from what its steps have done so far; one  *)
(* that met no other is the only one that can have changed the device.         *)

NetworkAsFar(p) ==
  /\ Network!ModeOf(network_job[p]) = network_wanted
  /\ network_step[p] # "begin" => mode_file = "sta"
  /\ network_step[p] = "restart" => hostapd = FALSE

NetworkSettled == mode_file = network_wanted /\ hostapd = (network_wanted = "ap")

NetworkUndisturbed ==
  /\ \A p, q \in NetworkPage : Network!Changing(p) /\ Network!Changing(q) => p = q
  /\ \A p \in NetworkPage : Network!Changing(p) => NetworkAsFar(p)
  /\ (\A p \in NetworkPage : ~Network!Changing(p)) => NetworkSettled

NetworkIInv == Network!TypeOK /\ (~blurred => NetworkUndisturbed)

-----------------------------------------------------------------------------
(* Types *)

\* Requests as the pages send them.
LEMMA NetworkRequests ==
  /\ \A m \in Network!Mode : [kind |-> "mode", to |-> m] \in Network!Request
  /\ \A a \in Network!Antenna : [kind |-> "antenna", to |-> a] \in Network!Request
  /\ \A v \in BOOLEAN : [kind |-> "connect", valid |-> v] \in Network!Request
  /\ [kind |-> "none"] \in Network!Request
  BY DEF Network!Request

\* A request asks for a mode.
LEMMA NetworkModeType ==
  ASSUME NEW j \in Network!Request, Network!SetsMode(j)
  PROVE  Network!ModeOf(j) \in Network!Mode
  BY DEF Network!Request, Network!SetsMode, Network!ModeOf, Network!Mode

\* The controls of a page send a request.
LEMMA NetworkPresses ==
  ASSUME NEW p \in NetworkPage,
         Network!PressMode(p) \/ Network!PressAntenna(p) \/ Network!SubmitConnect(p)
  PROVE  \E j \in Network!Request : Network!Send(p, j)
  BY NetworkRequests DEF Network!PressMode, Network!PressAntenna, Network!SubmitConnect

\* A request in the middle of a mode change is one for station mode.
NetworkStepsFit(s, j) ==
  s \in {"apply", "prepare", "restart"} => j = [kind |-> "mode", to |-> "sta"]

\* One page moves, and with it at most its request.
LEMMA NetworkMovePage ==
  ASSUME Network!TypeOK, NEW p \in NetworkPage, NEW s \in Network!Steps,
         NEW j \in Network!Request, NetworkStepsFit(s, j),
         network_step' = [network_step EXCEPT ![p] = s],
         network_job' = [network_job EXCEPT ![p] = j]
  PROVE  /\ network_step' \in [NetworkPage -> Network!Steps]
         /\ network_job' \in [NetworkPage -> Network!Request]
         /\ \A q \in NetworkPage : NetworkStepsFit(network_step'[q], network_job'[q])
         /\ network_step'[p] = s /\ network_job'[p] = j
         /\ \A q \in NetworkPage \ {p} :
              network_step'[q] = network_step[q] /\ network_job'[q] = network_job[q]
  BY DEF Network!TypeOK, NetworkStepsFit

\* The same when the request stays.
LEMMA NetworkMoveStep ==
  ASSUME Network!TypeOK, NEW p \in NetworkPage, NEW s \in Network!Steps,
         NetworkStepsFit(s, network_job[p]),
         network_step' = [network_step EXCEPT ![p] = s], network_job' = network_job
  PROVE  /\ network_step' \in [NetworkPage -> Network!Steps]
         /\ network_job' \in [NetworkPage -> Network!Request]
         /\ \A q \in NetworkPage : NetworkStepsFit(network_step'[q], network_job'[q])
         /\ network_step'[p] = s /\ network_job'[p] = network_job[p]
         /\ \A q \in NetworkPage \ {p} :
              network_step'[q] = network_step[q] /\ network_job'[q] = network_job[q]
  BY DEF Network!TypeOK, NetworkStepsFit

\* Where the requests of the pages are.
NetworkPagesFit ==
  /\ network_step \in [NetworkPage -> Network!Steps]
  /\ network_job \in [NetworkPage -> Network!Request]
  /\ \A p \in NetworkPage : NetworkStepsFit(network_step[p], network_job[p])

\* Every step leaves the requests of the pages as a mode change allows.
LEMMA NetworkPagesStep ==
  ASSUME Network!TypeOK, [Network!Next]_(Network!vars) PROVE NetworkPagesFit'
<1>1. ASSUME NEW p \in NetworkPage, NEW j \in Network!Request, Network!Send(p, j)
      PROVE  NetworkPagesFit'
  BY <1>1, NetworkMovePage, "begin" \in Network!Steps
     DEF Network!Send, NetworkPagesFit, NetworkStepsFit, Network!Steps
<1>2. ASSUME NEW p \in NetworkPage,
             \/ Network!Refresh(p)
             \/ Network!BecomeAccessPoint(p)
             \/ Network!Apply(p)
             \/ Network!StopHostapd(p)
             \/ Network!RestartNetworkd(p)
             \/ Network!Connect(p)
             \/ Network!SetAntenna(p)
             \/ Network!WriteModeFile(p)
      PROVE  NetworkPagesFit'
  <2>1. PICK t \in Network!Steps :
          /\ network_step' = [network_step EXCEPT ![p] = t]
          /\ network_job' = network_job
          /\ t \in {"apply", "prepare", "restart"} =>
               network_job[p] = [kind |-> "mode", to |-> "sta"]
    BY <1>2
       DEF Network!Refresh, Network!BecomeAccessPoint, Network!Apply,
           Network!StopHostapd, Network!RestartNetworkd, Network!Connect, 
                Network!SetAntenna, Network!WriteModeFile, Network!Goto,
                Network!Answered, Network!Steps, Network!TypeOK
  <2> QED
    BY <2>1, NetworkMoveStep DEF NetworkPagesFit, NetworkStepsFit
<1>3. ASSUME NEW p \in NetworkPage,
             Network!Load(p) \/ Network!Refuse(p) \/ Network!Fail(p)
      PROVE  NetworkPagesFit'
  <2>1. /\ network_step' = [network_step EXCEPT ![p] = "idle"]
        /\ network_job' = [network_job EXCEPT ![p] = [kind |-> "none"]]
    BY <1>3 DEF Network!Load, Network!Refuse, Network!Fail, Network!Abort, Network!Goto
  <2> QED
    BY <2>1, NetworkMovePage, NetworkRequests, "idle" \in Network!Steps
       DEF NetworkPagesFit, NetworkStepsFit, Network!Steps
<1>4. ASSUME NEW p \in NetworkPage, Network!ToggleModal(p) PROVE NetworkPagesFit'
  BY <1>4 DEF Network!ToggleModal, NetworkPagesFit, Network!TypeOK, NetworkStepsFit
<1>5. CASE UNCHANGED Network!vars
  BY <1>5 DEF Network!vars, NetworkPagesFit, Network!TypeOK, NetworkStepsFit
<1> QED
  BY <1>1, <1>2, <1>3, <1>4, <1>5, NetworkPresses DEF Network!Next

\* The types of everything else.
NetworkRestTyped ==
  /\ mode_file \in Network!Mode /\ antenna_file \in Network!Antenna
  /\ wpa_conf \in BOOLEAN /\ hostapd \in BOOLEAN
  /\ network_shown \in [NetworkPage -> Network!Mode \X Network!Antenna]
  /\ network_modal \in [NetworkPage -> BOOLEAN]
  /\ network_wanted \in Network!Mode /\ blurred \in BOOLEAN

\* Types are preserved.
LEMMA NetworkTypeStep ==
  ASSUME Network!TypeOK, [Network!Next]_(Network!vars) PROVE Network!TypeOK'
<1>1. NetworkPagesFit'
  BY NetworkPagesStep
<1>2. ASSUME NEW p \in NetworkPage, NEW j \in Network!Request, Network!Send(p, j)
      PROVE  NetworkRestTyped'
  <2>1. network_wanted' \in Network!Mode /\ blurred' \in BOOLEAN
    BY <1>2, NetworkModeType DEF Network!Send, Network!TypeOK, NetworkRestTyped
  <2> QED
    BY <1>2, <2>1 DEF Network!Send, Network!TypeOK, NetworkRestTyped
<1>3. ASSUME NEW p \in NetworkPage,
             Network!ToggleModal(p) \/ Network!Refresh(p) \/ Network!Load(p)
      PROVE  NetworkRestTyped'
  <2>1. CASE Network!ToggleModal(p)
    BY <2>1 DEF Network!ToggleModal, Network!TypeOK, NetworkRestTyped
  <2>2. CASE Network!Refresh(p)
    BY <2>2 DEF Network!Refresh, Network!TypeOK, NetworkRestTyped
  <2>3. CASE Network!Load(p)
    BY <2>3 DEF Network!Load, Network!TypeOK, NetworkRestTyped
  <2> QED
    BY <1>3, <2>1, <2>2, <2>3
<1>4. ASSUME NEW p \in NetworkPage,
             \/ Network!BecomeAccessPoint(p) \/ Network!WriteModeFile(p) \/ Network!Apply(p)
                                    \/ Network!RestartNetworkd(p)
                                    \/ Network!Connect(p)
                                    \/ Network!SetAntenna(p)
      PROVE  NetworkRestTyped'
  <2>1. mode_file' \in Network!Mode /\ antenna_file' \in Network!Antenna
    BY <1>4
       DEF Network!BecomeAccessPoint, Network!WriteModeFile, Network!Apply,
           Network!RestartNetworkd, Network!Connect, 
                Network!SetAntenna, Network!TypeOK, NetworkRestTyped, Network!Mode,
                Network!Request
  <2>2. wpa_conf' \in BOOLEAN /\ hostapd' \in BOOLEAN
    BY <1>4
       DEF Network!BecomeAccessPoint, Network!WriteModeFile, Network!Apply,
           Network!RestartNetworkd, Network!Connect, 
                Network!SetAntenna, Network!TypeOK, NetworkRestTyped
  <2>3. network_modal' \in [NetworkPage -> BOOLEAN]
    BY <1>4
       DEF Network!BecomeAccessPoint, Network!WriteModeFile, Network!Apply,
           Network!RestartNetworkd, Network!Connect, 
                Network!SetAntenna, Network!Answered, Network!TypeOK, NetworkRestTyped
  <2>4. UNCHANGED <<network_shown, network_wanted, blurred>>
    BY <1>4
       DEF Network!BecomeAccessPoint, Network!WriteModeFile, Network!Apply,
           Network!RestartNetworkd, Network!Connect, Network!SetAntenna
  <2> QED
    BY <2>1, <2>2, <2>3, <2>4 DEF Network!TypeOK, NetworkRestTyped
<1>5. ASSUME NEW p \in NetworkPage, Network!StopHostapd(p) PROVE NetworkRestTyped'
  <2>1. hostapd' \in BOOLEAN /\ blurred' \in BOOLEAN
    BY <1>5 DEF Network!StopHostapd
  <2> QED
    BY <1>5, <2>1 DEF Network!StopHostapd, Network!TypeOK, NetworkRestTyped
<1>6. ASSUME NEW p \in NetworkPage, Network!Refuse(p) \/ Network!Fail(p)
      PROVE  NetworkRestTyped'
  <2>1. blurred' \in BOOLEAN
    BY <1>6 DEF Network!Refuse, Network!Fail, Network!TypeOK, NetworkRestTyped
  <2> QED
    BY <1>6, <2>1
       DEF Network!Refuse, Network!Fail, Network!Abort, Network!TypeOK, NetworkRestTyped
<1>7. ASSUME UNCHANGED Network!vars PROVE NetworkRestTyped'
  BY <1>7 DEF Network!vars, Network!TypeOK, NetworkRestTyped
<1>8. ASSUME NEW p \in NetworkPage,
             Network!PressMode(p) \/ Network!PressAntenna(p) \/ Network!SubmitConnect(p)
      PROVE  NetworkRestTyped'
  BY <1>2, <1>8, NetworkPresses
<1>9. NetworkRestTyped'
  BY <1>3, <1>4, <1>5, <1>6, <1>7, <1>8 DEF Network!Next
<1> QED
  BY <1>1, <1>9 DEF NetworkRestTyped, NetworkPagesFit, NetworkStepsFit, Network!TypeOK

-----------------------------------------------------------------------------
(* The mode *)

\* A step of a page that changes no mode, and does not begin to.
LEMMA NetworkOtherStep ==
  ASSUME Network!TypeOK, NetworkUndisturbed, NEW p \in NetworkPage,
         ~Network!Changing(p), ~Network!Changing(p)',
         \A q \in NetworkPage \ {p} :
           network_step'[q] = network_step[q] /\ network_job'[q] = network_job[q],
         UNCHANGED <<mode_file, hostapd, network_wanted>>
  PROVE  NetworkUndisturbed'
<1>1. \A q \in NetworkPage : Network!Changing(q)' <=> Network!Changing(q)
  BY DEF Network!Changing
<1>2. \A q \in NetworkPage : Network!Changing(q)' =>
        network_step'[q] = network_step[q] /\ network_job'[q] = network_job[q]
  OBVIOUS
<1> QED
  BY <1>1, <1>2 DEF NetworkUndisturbed, NetworkAsFar, NetworkSettled

\* A step of the page whose request changes the mode.
LEMMA NetworkChangingStep ==
  ASSUME Network!TypeOK, NetworkUndisturbed, NEW p \in NetworkPage, Network!Changing(p),
         \A q \in NetworkPage \ {p} :
           network_step'[q] = network_step[q] /\ network_job'[q] = network_job[q],
         network_wanted' = network_wanted,
         Network!Changing(p)' => NetworkAsFar(p)', ~Network!Changing(p)' =>
           NetworkSettled'
  PROVE  NetworkUndisturbed'
<1>1. \A q \in NetworkPage \ {p} : ~Network!Changing(q) /\ ~Network!Changing(q)'
  BY DEF NetworkUndisturbed, Network!Changing
<1> QED
  BY <1>1 DEF NetworkUndisturbed

\* Another request begins only where none is under way, or the mode is blurred.
LEMMA NetworkSendStep ==
  ASSUME Network!TypeOK, ~blurred => NetworkUndisturbed, NEW p \in NetworkPage,
         NEW j \in Network!Request, Network!Send(p, j),
         ~blurred'
  PROVE  NetworkUndisturbed'
<1>1. /\ network_step'[p] = "begin" /\ network_job'[p] = j /\ ~Network!Changing(p)
      /\ \A q \in NetworkPage \ {p} :
           network_step'[q] = network_step[q] /\ network_job'[q] = network_job[q]
      /\ UNCHANGED <<mode_file, hostapd>>
  BY DEF Network!Send, Network!TypeOK, Network!Busy, Network!Changing
<1>2. CASE Network!SetsMode(j)
  <2>1. /\ network_wanted' = Network!ModeOf(j)
        /\ \A q \in NetworkPage : ~Network!Changing(q)
    BY <1>2 DEF Network!Send
  <2>2. \A q \in NetworkPage \ {p} : ~Network!Changing(q)'
    BY <1>1, <2>1 DEF Network!Changing
  <2>3. Network!Changing(p)' /\ NetworkAsFar(p)'
    BY <1>1, <1>2, <2>1 DEF Network!Changing, NetworkAsFar
  <2> QED
    BY <2>2, <2>3 DEF NetworkUndisturbed
<1>3. CASE ~Network!SetsMode(j)
  <2>1. network_wanted' = network_wanted /\ NetworkUndisturbed
    BY <1>3 DEF Network!Send
  <2>2. ~Network!Changing(p)'
    BY <1>1, <1>3 DEF Network!Changing
  <2> QED
    BY <1>1, <2>1, <2>2, NetworkOtherStep
<1> QED
  BY <1>2, <1>3

\* A request that fails in the middle blurs the mode; any other end of one
\* leaves it.
LEMMA NetworkEndStep ==
  ASSUME Network!TypeOK, ~blurred => NetworkUndisturbed, NEW p \in NetworkPage,
         Network!Load(p) \/ Network!Refuse(p) \/ Network!Fail(p),
         ~blurred'
  PROVE  NetworkUndisturbed'
<1>1. /\ network_step'[p] = "idle" /\ UNCHANGED <<mode_file, hostapd, network_wanted>>
      /\ \A q \in NetworkPage \ {p} :
           network_step'[q] = network_step[q] /\ network_job'[q] = network_job[q]
  BY DEF Network!Load, Network!Refuse, Network!Fail, Network!Abort, Network!Goto,
         Network!TypeOK
<1>2. ~blurred
  BY DEF Network!Load, Network!Refuse, Network!Fail
<1>3. ~Network!Changing(p)
  <2>1. CASE Network!Fail(p)
    BY <2>1 DEF Network!Fail
  <2>2. CASE Network!Load(p) \/ Network!Refuse(p)
    BY <2>2 DEF Network!Load, Network!Refuse, Network!Changing, Network!SetsMode
  <2> QED
    BY <2>1, <2>2
<1>4. ~Network!Changing(p)'
  BY <1>1 DEF Network!Changing
<1> QED
  BY <1>1, <1>2, <1>3, <1>4, NetworkOtherStep

\* What the steps of a request for a mode do.
LEMMA NetworkModeStep ==
  ASSUME Network!TypeOK, ~blurred => NetworkUndisturbed, NEW p \in NetworkPage,
         \/ Network!BecomeAccessPoint(p) \/ Network!WriteModeFile(p) \/ Network!Apply(p)
         \/ Network!StopHostapd(p) \/ Network!RestartNetworkd(p) \/ Network!Connect(p),
         ~blurred'
  PROVE  NetworkUndisturbed'
<1>1. /\ \A q \in NetworkPage \ {p} :
           network_step'[q] = network_step[q] /\ network_job'[q] = network_job[q]
      /\ network_wanted' = network_wanted /\ network_job' = network_job
  BY DEF Network!BecomeAccessPoint, Network!WriteModeFile, Network!Apply,
         Network!StopHostapd, Network!RestartNetworkd, Network!Connect, 
         Network!Goto, Network!Answered, Network!TypeOK
<1>2. ~blurred
  <2>1. CASE Network!StopHostapd(p)
    BY <2>1 DEF Network!StopHostapd
  <2>2. CASE ~Network!StopHostapd(p)
    BY <2>2
       DEF Network!BecomeAccessPoint, Network!WriteModeFile, Network!Apply,
           Network!RestartNetworkd, Network!Connect
  <2> QED
    BY <2>1, <2>2
<1>3. Network!Changing(p) /\ Network!ModeOf(network_job[p]) = network_wanted
  <2>1. Network!Changing(p)
    <3>1. \/ network_step[p] \in {"apply", "prepare", "restart"}
          \/ network_step[p] = "begin" /\ network_job[p].kind = "mode"
          \/ network_step[p] = "begin" /\ network_job[p] = [kind |-> "connect", valid |-> TRUE]
      <4>1. CASE Network!BecomeAccessPoint(p) \/ Network!WriteModeFile(p)
        BY <4>1 DEF Network!BecomeAccessPoint, Network!WriteModeFile
      <4>2. CASE \/ Network!Apply(p)
                 \/ Network!StopHostapd(p)
                 \/ Network!RestartNetworkd(p)
        BY <4>2 DEF Network!Apply, Network!StopHostapd, Network!RestartNetworkd
      <4>3. CASE Network!Connect(p)
        BY <4>3 DEF Network!Connect
      <4> QED
        BY <4>1, <4>2, <4>3
    <3>2. [kind |-> "connect", valid |-> TRUE].valid
      OBVIOUS
    <3> QED
      BY <3>1, <3>2 DEF Network!TypeOK, Network!Changing, Network!SetsMode
  <2> QED
    BY <1>2, <2>1 DEF NetworkUndisturbed, NetworkAsFar
<1>4. CASE Network!BecomeAccessPoint(p)
  <2>1. /\ network_wanted = "ap"
        /\ mode_file' = "ap"
        /\ hostapd' = TRUE
        /\ network_step'[p] = "load"
    BY <1>3, <1>4
       DEF Network!BecomeAccessPoint, Network!Answered, Network!Goto, Network!ModeOf,
           Network!TypeOK
  <2> QED
    BY <1>1, <1>2, <1>3, <2>1, NetworkChangingStep DEF Network!Changing, NetworkSettled
<1>5. CASE Network!WriteModeFile(p)
  <2>1. /\ network_wanted = "sta"
        /\ mode_file' = "sta"
        /\ network_step'[p] \in {"apply", "prepare"}
    BY <1>3, <1>5
       DEF Network!WriteModeFile, Network!Goto, Network!ModeOf, Network!TypeOK
  <2>2. Network!Changing(p)' /\ NetworkAsFar(p)'
    BY <1>1, <1>3, <2>1 DEF Network!Changing, NetworkAsFar
  <2> QED
    BY <1>1, <1>2, <1>3, <2>2, NetworkChangingStep
<1>6. CASE Network!Apply(p)
  <2>1. network_wanted = "sta" /\ mode_file = "sta"
    BY <1>2, <1>3, <1>6
       DEF Network!Apply, Network!TypeOK, Network!ModeOf, NetworkUndisturbed,
           NetworkAsFar
  <2>2. mode_file' = "sta" /\ hostapd' = FALSE /\ network_step'[p] = "load"
    BY <1>6, <2>1 DEF Network!Apply, Network!Answered, Network!Goto, Network!TypeOK
  <2> QED
    BY <1>1, <1>2, <1>3, <2>1, <2>2, NetworkChangingStep
       DEF Network!Changing, NetworkSettled
<1>7. CASE Network!StopHostapd(p)
  <2>1. mode_file = "sta" /\ mode_file' = "sta" /\ network_step'[p] = "restart"
    BY <1>2, <1>3, <1>7
       DEF Network!StopHostapd, Network!TypeOK, NetworkUndisturbed, NetworkAsFar,
           Network!Goto
  <2>2. hostapd' = FALSE
    BY <1>7 DEF Network!StopHostapd
  <2>3. Network!Changing(p)' /\ NetworkAsFar(p)'
    BY <1>1, <1>3, <2>1, <2>2 DEF Network!Changing, NetworkAsFar
  <2> QED
    BY <1>1, <1>2, <1>3, <2>3, NetworkChangingStep
<1>8. CASE Network!RestartNetworkd(p)
  <2>1. network_wanted = "sta" /\ mode_file = "sta" /\ hostapd = FALSE
    BY <1>2, <1>3, <1>8
       DEF Network!RestartNetworkd, Network!TypeOK, Network!ModeOf, NetworkUndisturbed,
           NetworkAsFar
  <2>2. mode_file' = mode_file /\ hostapd' = hostapd /\ network_step'[p] = "load"
    BY <1>8 DEF Network!RestartNetworkd, Network!Answered, Network!Goto, Network!TypeOK
  <2> QED
    BY <1>1, <1>2, <1>3, <2>1, <2>2, NetworkChangingStep
       DEF Network!Changing, NetworkSettled
<1>9. CASE Network!Connect(p)
  <2>1. /\ network_wanted = "sta"
        /\ mode_file' = "sta"
        /\ hostapd' = FALSE
        /\ network_step'[p] = "load"
    BY <1>3, <1>9
       DEF Network!Connect, Network!Answered, Network!Goto, Network!ModeOf,
           Network!TypeOK
  <2> QED
    BY <1>1, <1>2, <1>3, <2>1, NetworkChangingStep DEF Network!Changing, NetworkSettled
<1> QED
  BY <1>4, <1>5, <1>6, <1>7, <1>8, <1>9

\* What changes no mode.
LEMMA NetworkBesideStep ==
  ASSUME Network!TypeOK, ~blurred => NetworkUndisturbed, NEW p \in NetworkPage,
         \/ Network!ToggleModal(p)
         \/ Network!Refresh(p)
         \/ Network!SetAntenna(p), ~blurred'
  PROVE  NetworkUndisturbed'
<1>1. UNCHANGED <<mode_file, hostapd, network_wanted, blurred, network_job>>
  BY DEF Network!ToggleModal, Network!Refresh, Network!SetAntenna
<1>2. CASE Network!ToggleModal(p)
  BY <1>1, <1>2
     DEF Network!ToggleModal, NetworkUndisturbed, Network!Changing, NetworkAsFar,
         NetworkSettled
<1>3. CASE Network!Refresh(p) \/ Network!SetAntenna(p)
  <2>1. \A q \in NetworkPage \ {p} : network_step'[q] = network_step[q]
    BY <1>3
       DEF Network!Refresh, Network!SetAntenna, Network!Answered, Network!Goto,
           Network!TypeOK
  <2>2. ~Network!Changing(p) /\ network_step'[p] = "load"
    BY <1>3
       DEF Network!Refresh, Network!SetAntenna, Network!Answered, Network!Goto,
           Network!Busy, Network!Changing, Network!SetsMode, Network!TypeOK
  <2> QED
    BY <1>1, <2>1, <2>2, NetworkOtherStep DEF Network!Changing
<1> QED
  BY <1>2, <1>3

\* The mode stays as requested in every step.
LEMMA NetworkUndisturbedStep ==
  ASSUME Network!TypeOK, ~blurred => NetworkUndisturbed, [Network!Next]_(Network!vars),
         ~blurred'
  PROVE  NetworkUndisturbed'
<1>1. ASSUME NEW p \in NetworkPage,
             Network!PressMode(p) \/ Network!PressAntenna(p) \/ Network!SubmitConnect(p)
      PROVE  NetworkUndisturbed'
  BY <1>1, NetworkPresses, NetworkSendStep
<1>2. CASE UNCHANGED Network!vars
  BY <1>2
     DEF Network!vars, NetworkUndisturbed, Network!Changing, NetworkAsFar,
         NetworkSettled
<1> QED
  BY <1>1, <1>2, NetworkEndStep, NetworkModeStep, NetworkBesideStep DEF Network!Next

-----------------------------------------------------------------------------
\* The device starts as an access point, with no request under way.
LEMMA NetworkInitInvariant == ASSUME Network!Init PROVE NetworkIInv
<1>1. Network!TypeOK
  BY NetworkRequests
     DEF Network!Init, Network!TypeOK, Network!Mode, Network!Antenna, Network!Steps
<1>2. \A p \in NetworkPage : ~Network!Changing(p)
  BY DEF Network!Init, Network!Changing
<1> QED
  BY <1>1, <1>2 DEF Network!Init, NetworkIInv, NetworkUndisturbed, NetworkSettled

\* The steps preserve it.
LEMMA NetworkInvariantStep ==
  NetworkIInv /\ [Network!Next]_(Network!vars) => NetworkIInv'
BY NetworkTypeStep, NetworkUndisturbedStep DEF NetworkIInv

\* It implies what is checked.
LEMMA NetworkKept == NetworkIInv => Network!TypeOK /\ Network!ModeAsRequested
BY DEF NetworkIInv, NetworkUndisturbed, NetworkSettled, Network!ModeAsRequested

-----------------------------------------------------------------------------
(* The upgrade of the installer (http/installer.rs).  What holds as long as no *)
(* two uploads have met is inductive once it says what the one in progress has *)
(* done with the temporary file: written it empty, then whole, never the       *)
(* binary.                                                                     *)

\* FiniteSets as the component sees it.
LEMMA InstallerCardinality == \A S : Installer!Cardinality(S) = Cardinality(S)
  BY DEF Installer!Cardinality, Cardinality

InstallerAlone == \A u, v \in Upload : Installer!Busy(u) /\ Installer!Busy(v) => u = v

\* The upload in progress: the file it writes is the temporary one and still
\* empty; once written it is whole.
InstallerFileAsFar(u) ==
  /\ installer_step[u] = "write" =>
       temp \in Installer!Inode /\ fd[u] = temp /\ bytes[temp] = {}
  /\ installer_step[u] \in {"chmod", "stop", "rename"} =>
       temp \in Installer!Inode /\ Installer!Whole(temp)

InstallerRestarting(u) == installer_step[u] \in {"rename", "undo", "start"}

InstallerFilesApart ==
  ~overlapped =>
    /\ InstallerAlone
    /\ temp # target
    /\ Installer!Whole(target)
    /\ \A u \in Upload : InstallerFileAsFar(u)

InstallerStoppedForUpgrade ==
  ~overlapped /\ ~interrupted => service \/ \E u \in Upload : InstallerRestarting(u)

InstallerIInv == Installer!TypeOK /\ InstallerFilesApart /\ InstallerStoppedForUpgrade

-----------------------------------------------------------------------------
\* Inodes are numbers that exist from the start.
LEMMA InstallerZeroIsInode == 0 \in Installer!Inode
  BY InstallerAssumption DEF Installer!Inode

\* A file with the bytes of one upload is whole.
LEMMA InstallerOneIsWhole == ASSUME NEW x PROVE Cardinality({x}) = 1
  BY FS_Singleton

\* The invariant holds at the start.
LEMMA InstallerInitInvariant == ASSUME Installer!Init PROVE InstallerIInv
<1>1. Installer!TypeOK
  BY InstallerZeroIsInode, InstallerAssumption
     DEF Installer!Init, Installer!TypeOK, Installer!Steps
<1>2. bytes[target] = {None}
  BY InstallerZeroIsInode DEF Installer!Init
<1>3. InstallerFilesApart
  BY <1>2, InstallerOneIsWhole, InstallerZeroIsInode, InstallerAssumption,
     InstallerCardinality
     DEF Installer!Init, InstallerFilesApart, InstallerAlone, Installer!Busy,
         InstallerFileAsFar, Installer!Whole
<1> QED
  BY <1>1, <1>3 DEF InstallerIInv, InstallerStoppedForUpgrade, Installer!Init

\* Types are preserved by every step.
LEMMA InstallerTypeStep ==
  ASSUME Installer!TypeOK, [Installer!Next]_(Installer!vars) PROVE Installer!TypeOK'
<1>1. CASE Installer!Crash
  BY <1>1 DEF Installer!Crash, Installer!TypeOK, Installer!Steps
<1>2. ASSUME NEW u \in Upload, Installer!Arrive(u) PROVE Installer!TypeOK'
  BY <1>2
     DEF Installer!Arrive, Installer!TypeOK, Installer!Goto, Installer!Busy,
         Installer!Steps
<1>3. ASSUME NEW u \in Upload, Installer!Open(u) PROVE Installer!TypeOK'
  <2>1. PICK i \in Installer!Inode : /\ bytes' = [bytes EXCEPT ![i] = {}]
                                     /\ fd' = [fd EXCEPT ![u] = i]
                                     /\ temp' = i
    BY <1>3 DEF Installer!Open, Installer!TypeOK
  <2>2. i # None
    BY InstallerAssumption
  <2> QED
    BY <1>3, <2>1, <2>2
       DEF Installer!Open, Installer!TypeOK, Installer!Goto, Installer!Steps
<1>4. ASSUME NEW u \in Upload, Installer!Write(u) PROVE Installer!TypeOK'
  <2>1. bytes' \in [Installer!Inode -> SUBSET (Upload \cup {None})]
    BY <1>4 DEF Installer!Write, Installer!TypeOK
  <2> QED
    BY <1>4, <2>1 DEF Installer!Write, Installer!TypeOK, Installer!Goto, Installer!Steps
<1>5. ASSUME NEW u \in Upload, Installer!MakeExecutable(u) PROVE Installer!TypeOK'
  BY <1>5
     DEF Installer!MakeExecutable, Installer!TypeOK, Installer!Goto, Installer!Steps
<1>6. ASSUME NEW u \in Upload, Installer!StopService(u) PROVE Installer!TypeOK'
  BY <1>6 DEF Installer!StopService, Installer!TypeOK, Installer!Goto, Installer!Steps
<1>7. ASSUME NEW u \in Upload, Installer!Rename(u) PROVE Installer!TypeOK'
  BY <1>7 DEF Installer!Rename, Installer!TypeOK, Installer!Goto, Installer!Steps
<1>8. ASSUME NEW u \in Upload, Installer!Undo(u) PROVE Installer!TypeOK'
  <2>1. service' \in BOOLEAN
    BY <1>8 DEF Installer!Undo
  <2> QED
    BY <1>8, <2>1 DEF Installer!Undo, Installer!TypeOK, Installer!Goto, Installer!Steps
<1>9. ASSUME NEW u \in Upload, Installer!StartService(u) PROVE Installer!TypeOK'
  <2>1. service' \in BOOLEAN /\ interrupted' \in BOOLEAN
    BY <1>9 DEF Installer!StartService
  <2> QED
    BY <1>9, <2>1
       DEF Installer!StartService, Installer!TypeOK, Installer!Goto, Installer!Steps
<1>10. ASSUME NEW u \in Upload, Installer!Fail(u) PROVE Installer!TypeOK'
  <2>1. interrupted' \in BOOLEAN /\ temp' \in Installer!Inode \cup {None}
    BY <1>10 DEF Installer!Fail, Installer!TypeOK
  <2> QED
    BY <1>10, <2>1
       DEF Installer!Fail, Installer!TypeOK, Installer!Goto, Installer!Busy,
           Installer!Steps
<1>11. CASE UNCHANGED Installer!vars
  BY <1>11 DEF Installer!vars, Installer!TypeOK
<1> QED
  BY <1>1, <1>2, <1>3, <1>4, <1>5, <1>6, <1>7, <1>8, <1>9, <1>10, <1>11
     DEF Installer!Next

-----------------------------------------------------------------------------
\* A step of one request moves no other: a request busy after it was busy
\* before, unless it has just arrived.
LEMMA InstallerOnlyOneMoves ==
  ASSUME Installer!TypeOK, NEW u \in Upload, NEW s,
         installer_step' = [installer_step EXCEPT ![u] = s]
  PROVE  /\ installer_step'[u] = s
         /\ \A v \in Upload \ {u} : installer_step'[v] = installer_step[v]
  BY DEF Installer!TypeOK

\* Opening takes a file that is not the binary and leaves it empty.
LEMMA InstallerOpenApart ==
  ASSUME Installer!TypeOK, InstallerFilesApart, NEW u \in Upload, Installer!Open(u),
         ~overlapped
  PROVE  InstallerFilesApart'
<1>1. /\ installer_step[u] = "begin"
      /\ installer_step' = [installer_step EXCEPT ![u] = "write"]
  BY DEF Installer!Open, Installer!Goto
<1>2. PICK i \in Installer!Inode : /\ i # target
                                   /\ bytes' = [bytes EXCEPT ![i] = {}]
                                   /\ fd' = [fd EXCEPT ![u] = i]
                                   /\ temp' = i
  BY DEF Installer!Open, Installer!TypeOK, InstallerFilesApart
<1>3. \A v \in Upload \ {u} : installer_step[v] = "idle" /\ installer_step'[v] = "idle"
  BY <1>1, InstallerOnlyOneMoves DEF InstallerFilesApart, InstallerAlone, Installer!Busy
<1>4. installer_step'[u] = "write" /\ fd'[u] = i /\ bytes'[i] = {}
  BY <1>1, <1>2 DEF Installer!TypeOK
<1>5. target' = target /\ bytes'[target] = bytes[target]
  BY <1>2 DEF Installer!Open, Installer!TypeOK
<1>6. Installer!Whole(target)'
  BY <1>5, InstallerCardinality DEF InstallerFilesApart, Installer!Whole
<1>7. InstallerAlone'
  BY <1>3 DEF InstallerAlone, Installer!Busy
<1>8. \A v \in Upload : InstallerFileAsFar(v)'
  BY <1>2, <1>3, <1>4 DEF InstallerFileAsFar
<1> QED
  BY <1>2, <1>5, <1>6, <1>7, <1>8 DEF InstallerFilesApart

\* Writing fills the empty temporary file with one upload.
LEMMA InstallerWriteWhole ==
  ASSUME Installer!TypeOK, InstallerFilesApart, NEW u \in Upload, Installer!Write(u),
         ~overlapped
  PROVE  InstallerFilesApart'
<1>1. /\ installer_step[u] = "write"
      /\ installer_step' = [installer_step EXCEPT ![u] = "chmod"]
  BY DEF Installer!Write, Installer!Goto
<1>2. temp \in Installer!Inode /\ fd[u] = temp /\ bytes[temp] = {} /\ temp # target
  BY <1>1 DEF InstallerFilesApart, InstallerFileAsFar
<1>3. bytes'[temp] = {u} /\ bytes'[target] = bytes[target]
  BY <1>2 DEF Installer!Write, Installer!TypeOK
<1>4. temp' = temp /\ target' = target
  BY DEF Installer!Write
<1>5. \A v \in Upload \ {u} : installer_step[v] = "idle" /\ installer_step'[v] = "idle"
  BY <1>1, InstallerOnlyOneMoves DEF InstallerFilesApart, InstallerAlone, Installer!Busy
<1>6. installer_step'[u] = "chmod"
  BY <1>1, InstallerOnlyOneMoves
<1>7. Installer!Whole(temp)' /\ Installer!Whole(target)'
  BY <1>3, <1>4, InstallerOneIsWhole, InstallerCardinality
     DEF InstallerFilesApart, Installer!Whole
<1>8. InstallerAlone' /\ \A v \in Upload : InstallerFileAsFar(v)'
  BY <1>2, <1>4, <1>5, <1>6, <1>7 DEF InstallerAlone, Installer!Busy, InstallerFileAsFar
<1> QED
  BY <1>2, <1>4, <1>7, <1>8 DEF InstallerFilesApart

\* A step that leaves all files as they are, moves one busy request and takes
\* the temporary file away at most.
LEMMA InstallerFilesStay ==
  ASSUME Installer!TypeOK, InstallerFilesApart, NEW u \in Upload, ~overlapped,
         Installer!Busy(u), NEW s,
         installer_step' = [installer_step EXCEPT ![u] = s], s # "write",
         s \in {"chmod", "stop", "rename"} =>
           installer_step[u] \in {"chmod", "stop", "rename"} /\ temp' = temp,
         bytes' = bytes, target' = target, temp' \in {temp, None},
         None \notin Installer!Inode
  PROVE  InstallerFilesApart'
<1>1. /\ installer_step'[u] = s
      /\ \A v \in Upload \ {u} :
           installer_step[v] = "idle" /\ installer_step'[v] = "idle"
  BY InstallerOnlyOneMoves DEF InstallerFilesApart, InstallerAlone, Installer!Busy
<1>2. InstallerAlone'
  BY <1>1 DEF InstallerAlone, Installer!Busy
<1>3. temp' # target' /\ Installer!Whole(target)'
  BY InstallerCardinality DEF InstallerFilesApart, Installer!Whole, Installer!TypeOK
<1>4. \A v \in Upload : InstallerFileAsFar(v)'
  BY <1>1, InstallerCardinality
     DEF InstallerFilesApart, InstallerFileAsFar, Installer!Whole
<1> QED
  BY <1>2, <1>3, <1>4 DEF InstallerFilesApart

\* Renaming puts a whole file in the binary's place.
LEMMA InstallerRenameWhole ==
  ASSUME Installer!TypeOK, InstallerFilesApart, NEW u \in Upload, Installer!Rename(u),
         ~overlapped
  PROVE  InstallerFilesApart'
<1>1. temp \in Installer!Inode /\ Installer!Whole(temp) /\ temp # None
  BY InstallerAssumption DEF Installer!Rename, InstallerFilesApart, InstallerFileAsFar
<1>2. /\ target' = temp
      /\ temp' = None
      /\ bytes' = bytes
      /\ installer_step' = [installer_step EXCEPT ![u] = "start"]
  BY <1>1 DEF Installer!Rename, Installer!Goto
<1>3. \A v \in Upload \ {u} : installer_step'[v] = "idle"
  BY <1>2, InstallerOnlyOneMoves
     DEF InstallerFilesApart, InstallerAlone, Installer!Busy, Installer!Rename
<1>4. installer_step'[u] = "start"
  BY <1>2, InstallerOnlyOneMoves
<1>5. InstallerAlone' /\ \A v \in Upload : InstallerFileAsFar(v)'
  BY <1>3, <1>4 DEF InstallerAlone, Installer!Busy, InstallerFileAsFar
<1>6. temp' # target' /\ Installer!Whole(target)'
  BY <1>1, <1>2, InstallerCardinality DEF Installer!Whole
<1> QED
  BY <1>5, <1>6 DEF InstallerFilesApart

\* The files stay apart in every step.
LEMMA InstallerFilesStep ==
  ASSUME Installer!TypeOK, InstallerFilesApart, [Installer!Next]_(Installer!vars)
  PROVE  InstallerFilesApart'
<1> SUFFICES ASSUME ~overlapped' PROVE InstallerFilesApart'
  BY DEF InstallerFilesApart
<1>1. ~overlapped
  BY DEF Installer!Next, Installer!vars, Installer!TypeOK, Installer!Crash,
         Installer!Arrive, Installer!Open, Installer!Write, Installer!MakeExecutable,
         Installer!StopService, 
         Installer!Rename, Installer!Undo, Installer!StartService, Installer!Fail
<1>2. CASE Installer!Crash
  <2>1. \A u \in Upload : installer_step'[u] = "idle"
    BY <1>2 DEF Installer!Crash
  <2>2. bytes' = bytes /\ temp' = temp /\ target' = target
    BY <1>2 DEF Installer!Crash
  <2> QED
    BY <1>1, <2>1, <2>2, InstallerCardinality
       DEF InstallerFilesApart, InstallerAlone, Installer!Busy, InstallerFileAsFar,
           Installer!Whole
<1>3. ASSUME NEW u \in Upload, Installer!Arrive(u) PROVE InstallerFilesApart'
  <2>1. \A v \in Upload : installer_step[v] = "idle"
    BY <1>3 DEF Installer!Arrive, Installer!Busy
  <2>2. /\ installer_step'[u] = "begin"
        /\ \A v \in Upload \ {u} : installer_step'[v] = "idle"
    BY <1>3, <2>1, InstallerOnlyOneMoves DEF Installer!Arrive, Installer!Goto
  <2>3. bytes' = bytes /\ temp' = temp /\ target' = target
    BY <1>3 DEF Installer!Arrive
  <2> QED
    BY <1>1, <2>2, <2>3, InstallerCardinality
       DEF InstallerFilesApart, InstallerAlone, Installer!Busy, InstallerFileAsFar,
           Installer!Whole
<1>4. ASSUME NEW u \in Upload, Installer!Open(u) PROVE InstallerFilesApart'
  BY <1>1, <1>4, InstallerOpenApart
<1>5. ASSUME NEW u \in Upload, Installer!Write(u) PROVE InstallerFilesApart'
  BY <1>1, <1>5, InstallerWriteWhole
<1>6. ASSUME NEW u \in Upload, Installer!MakeExecutable(u) PROVE InstallerFilesApart'
  <2>1. /\ Installer!Busy(u)
        /\ installer_step[u] = "chmod"
        /\ temp' = temp
        /\ bytes' = bytes
        /\ target' = target
    BY <1>6 DEF Installer!MakeExecutable, Installer!Busy
  <2>2. CASE temp = None
    BY <1>1, <1>6, <2>1, <2>2, InstallerFilesStay, InstallerAssumption
       DEF Installer!MakeExecutable, Installer!Goto
  <2>3. CASE temp # None
    BY <1>1, <1>6, <2>1, <2>3, InstallerFilesStay, InstallerAssumption
       DEF Installer!MakeExecutable, Installer!Goto
  <2> QED
    BY <2>2, <2>3
<1>7. ASSUME NEW u \in Upload, Installer!StopService(u) PROVE InstallerFilesApart'
  BY <1>1, <1>7, InstallerFilesStay, InstallerAssumption
     DEF Installer!StopService, Installer!Goto, Installer!Busy
<1>8. ASSUME NEW u \in Upload, Installer!Rename(u) PROVE InstallerFilesApart'
  BY <1>1, <1>8, InstallerRenameWhole
<1>9. ASSUME NEW u \in Upload, Installer!Undo(u) PROVE InstallerFilesApart'
  BY <1>1, <1>9, InstallerFilesStay, InstallerAssumption
     DEF Installer!Undo, Installer!Goto, Installer!Busy
<1>10. ASSUME NEW u \in Upload, Installer!StartService(u) PROVE InstallerFilesApart'
  BY <1>1, <1>10, InstallerFilesStay, InstallerAssumption
     DEF Installer!StartService, Installer!Goto, Installer!Busy
<1>11. ASSUME NEW u \in Upload, Installer!Fail(u) PROVE InstallerFilesApart'
  <2>1. /\ Installer!Busy(u) /\ bytes' = bytes /\ target' = target /\ temp' \in {temp, None}
        /\ installer_step' = [installer_step EXCEPT ![u] =
                                 IF installer_step[u] = "rename" THEN "undo" ELSE "idle"]
    BY <1>11 DEF Installer!Fail, Installer!Goto
  <2>2. CASE installer_step[u] = "rename"
    <3>1. installer_step' = [installer_step EXCEPT ![u] = "undo"]
      BY <2>1, <2>2
    <3> QED
      BY <1>1, <2>1, <3>1, InstallerFilesStay, InstallerAssumption
  <2>3. CASE installer_step[u] # "rename"
    <3>1. installer_step' = [installer_step EXCEPT ![u] = "idle"]
      BY <2>1, <2>3
    <3> QED
      BY <1>1, <2>1, <3>1, InstallerFilesStay, InstallerAssumption
  <2> QED
    BY <2>2, <2>3
<1>12. CASE UNCHANGED Installer!vars
  BY <1>12, InstallerCardinality
     DEF Installer!vars, InstallerFilesApart, InstallerAlone, Installer!Busy,
         InstallerFileAsFar, Installer!Whole
<1> QED
  BY <1>2, <1>3, <1>4, <1>5, <1>6, <1>7, <1>8, <1>9, <1>10, <1>11, <1>12
     DEF Installer!Next

-----------------------------------------------------------------------------
\* With one upload in progress that writes nothing, the binary can run.
LEMMA InstallerBinaryRuns ==
  ASSUME Installer!TypeOK, InstallerFilesApart, ~overlapped,
         NEW u \in Upload, Installer!Busy(u), installer_step[u] # "write"
  PROVE  Installer!CanRun
<1>1. \A v \in Upload : installer_step[v] # "write"
  BY DEF InstallerFilesApart, InstallerAlone, Installer!Busy
<1>2. \A v \in Upload : fd[v] = None
  BY <1>1 DEF Installer!TypeOK
<1>3. None # target
  BY InstallerAssumption DEF Installer!TypeOK
<1> QED
  BY <1>2, <1>3 DEF Installer!CanRun, InstallerFilesApart

\* The service stopped for an upgrade is started by that upgrade.
LEMMA InstallerServiceStep ==
  ASSUME Installer!TypeOK, InstallerFilesApart, InstallerStoppedForUpgrade,
         [Installer!Next]_(Installer!vars)
  PROVE  InstallerStoppedForUpgrade'
<1> SUFFICES ASSUME ~overlapped', ~interrupted'
             PROVE  service' \/ \E u \in Upload : InstallerRestarting(u)'
  BY DEF InstallerStoppedForUpgrade
<1>1. ~overlapped
  BY DEF Installer!Next, Installer!vars, Installer!TypeOK, Installer!Crash,
         Installer!Arrive, Installer!Open, Installer!Write, Installer!MakeExecutable,
         Installer!StopService, 
         Installer!Rename, Installer!Undo, Installer!StartService, Installer!Fail
<1>2. CASE Installer!Crash
  BY <1>1, <1>2 DEF Installer!Crash, InstallerStoppedForUpgrade, InstallerRestarting
<1>3. ASSUME NEW u \in Upload, service' = service, interrupted' = interrupted, NEW s,
             installer_step' = [installer_step EXCEPT ![u] = s],
             InstallerRestarting(u) => s \in {"rename", "undo", "start"}
      PROVE  service' \/ \E v \in Upload : InstallerRestarting(v)'
  BY <1>1, <1>3, InstallerOnlyOneMoves
     DEF InstallerStoppedForUpgrade, InstallerRestarting
<1>4. ASSUME NEW u \in Upload,
             \/ Installer!Arrive(u)
             \/ Installer!Open(u)
             \/ Installer!Write(u)
             \/ Installer!MakeExecutable(u)
             \/ Installer!Rename(u)
      PROVE  service' \/ \E v \in Upload : InstallerRestarting(v)'
  <2>1. CASE Installer!Arrive(u)
    BY <1>3, <2>1
       DEF Installer!Arrive, Installer!Goto, Installer!Busy, InstallerRestarting
  <2>2. CASE Installer!Open(u)
    BY <1>3, <2>2 DEF Installer!Open, Installer!Goto, InstallerRestarting
  <2>3. CASE Installer!Write(u)
    BY <1>3, <2>3 DEF Installer!Write, Installer!Goto, InstallerRestarting
  <2>4. CASE Installer!MakeExecutable(u)
    BY <1>3, <2>4 DEF Installer!MakeExecutable, Installer!Goto, InstallerRestarting
  <2>5. CASE Installer!Rename(u)
    BY <1>3, <2>5 DEF Installer!Rename, Installer!Goto, InstallerRestarting
  <2> QED
    BY <1>4, <2>1, <2>2, <2>3, <2>4, <2>5
<1>5. ASSUME NEW u \in Upload, Installer!StopService(u)
      PROVE  service' \/ \E v \in Upload : InstallerRestarting(v)'
  BY <1>5, InstallerOnlyOneMoves
     DEF Installer!StopService, Installer!Goto, InstallerRestarting
<1>6. ASSUME NEW u \in Upload, Installer!Undo(u) \/ Installer!StartService(u)
      PROVE  service'
  BY <1>1, <1>6, InstallerBinaryRuns
     DEF Installer!Undo, Installer!StartService, Installer!Busy
<1>7. ASSUME NEW u \in Upload, Installer!Fail(u)
      PROVE  service' \/ \E v \in Upload : InstallerRestarting(v)'
  <2>1. service' = service /\ ~interrupted /\ installer_step[u] \notin {"undo", "start"}
    BY <1>7 DEF Installer!Fail, Installer!TypeOK
  <2>2. installer_step' = [installer_step EXCEPT ![u] =
                              IF installer_step[u] = "rename" THEN "undo" ELSE "idle"]
    BY <1>7 DEF Installer!Fail, Installer!Goto
  <2> QED
    BY <1>1, <2>1, <2>2, InstallerOnlyOneMoves
       DEF InstallerStoppedForUpgrade, InstallerRestarting
<1>8. CASE UNCHANGED Installer!vars
  BY <1>1, <1>8 DEF Installer!vars, InstallerStoppedForUpgrade, InstallerRestarting
<1> QED
  BY <1>2, <1>4, <1>5, <1>6, <1>7, <1>8 DEF Installer!Next

-----------------------------------------------------------------------------
\* The steps preserve it.
LEMMA InstallerInvariantStep ==
  InstallerIInv /\ [Installer!Next]_(Installer!vars) => InstallerIInv'
BY InstallerTypeStep, InstallerFilesStep, InstallerServiceStep DEF InstallerIInv

\* It implies what is checked.
LEMMA InstallerKept ==
  InstallerIInv =>
    Installer!TypeOK /\ Installer!BinaryStaysWhole /\ Installer!ServiceComesBack
<1>1. InstallerIInv => Installer!TypeOK /\ Installer!BinaryStaysWhole
  BY DEF InstallerIInv, InstallerFilesApart, Installer!BinaryStaysWhole
<1>2. InstallerIInv => Installer!ServiceComesBack
  BY DEF InstallerIInv, InstallerStoppedForUpgrade, Installer!ServiceComesBack,
         InstallerRestarting, Installer!Busy
<1> QED BY <1>1, <1>2

-----------------------------------------------------------------------------
(* The certificate files (local_https.rs).  That the settled root CA survives *)
(* is inductive once it says what runs in progress would write: the same key, *)
(* or, before one is settled, that a run undisturbed so far is alone and has  *)
(* written the certificate of its key.                                        *)

\* A run that has read or made its key.
TlsHasKey(r) == tls_step[r] \in {"cert", "open", "fill"}

TlsAlone(r) ==
  /\ \A q \in Tls!Run \ {r} : tls_step[q] = "idle"
  /\ tls_step[r] \in {"open", "fill"} => ca_cert = key[r]

TlsIInv ==
  /\ Tls!TypeOK
  /\ state = "down" => \A r \in Tls!Run : tls_step[r] = "idle"
  /\ \A r \in Tls!Run : TlsHasKey(r) => key[r] \in Tls!Key
  /\ \A r \in Tls!Run : tls_step[r] # "idle" /\ ~tls_disturbed[r] => TlsAlone(r)
  /\ tls_settled # None =>
       /\ ca_key = tls_settled /\ ca_cert = tls_settled
       /\ \A r \in Tls!Run :
            tls_step[r] # "fill" /\ (TlsHasKey(r) => key[r] = tls_settled)

LEMMA TlsInitInvariant == Tls!Init => TlsIInv
<1> SUFFICES ASSUME Tls!Init PROVE TlsIInv
  OBVIOUS
<1>1. Tls!TypeOK
  BY TlsAssumption DEF Tls!Init, Tls!TypeOK, Tls!File, Tls!Steps, Tls!Run
<1> QED BY <1>1 DEF Tls!Init, TlsIInv, TlsHasKey

\* Stages of the start.
LEMMA TlsStageType ==
  ASSUME Tls!TypeOK, NEW r \in Tls!Run, NEW ok, Tls!NextStage(r, ok)
  PROVE  stage' \in {"root", "root_again", "plugin", "done"}
BY DEF Tls!TypeOK, Tls!NextStage

\* The key a run works with is the one of the file or a new one.
LEMMA TlsKeyRead ==
  ASSUME Tls!TypeOK, NEW r \in Tls!Run, Tls!ReadKey(r)
  PROVE  /\ keys' \in 0..MaxKeys /\ key' \in [Tls!Run -> Tls!Key \cup {None}]
         /\ ~Tls!Goto(r, "idle") =>
              key'[r] \in Tls!Key /\ (ca_key \in Tls!Key => key'[r] = ca_key)
<1>1. CASE ca_key \in Tls!Key /\ key' = [key EXCEPT ![r] = ca_key] /\ UNCHANGED keys
  BY <1>1 DEF Tls!TypeOK
<1>2. CASE /\ ca_key \in {None, Legacy, Empty} /\ keys < MaxKeys
           /\ keys' = keys + 1 /\ key' = [key EXCEPT ![r] = keys + 1]
  <2>1. keys + 1 \in Tls!Key /\ keys + 1 \in 0..MaxKeys
    BY <1>2, TlsAssumption DEF Tls!TypeOK, Tls!Key
  <2>2. ca_key \notin Tls!Key
    BY <1>2, TlsAssumption
  <2> QED BY <1>2, <2>1, <2>2 DEF Tls!TypeOK
<1>3. CASE Tls!Ends(r, FALSE) /\ UNCHANGED <<keys, key>>
  BY <1>3 DEF Tls!TypeOK, Tls!Ends
<1> QED BY <1>1, <1>2, <1>3 DEF Tls!ReadKey

LEMMA TlsTypeStep == TlsIInv /\ [Tls!Next]_(Tls!vars) => Tls!TypeOK'
<1> SUFFICES ASSUME TlsIInv, [Tls!Next]_(Tls!vars) PROVE Tls!TypeOK'
  OBVIOUS
<1> USE DEF Tls!TypeOK
<1>0. Tls!TypeOK
  BY DEF TlsIInv
<1>1. CASE Tls!Boot
  BY <1>0, <1>1, TlsAssumption
     DEF TlsIInv, Tls!Boot, Tls!Begin, Tls!Goto, Tls!Steps, Tls!Run
<1>2. CASE Tls!Again
  BY <1>0, <1>2, TlsAssumption DEF Tls!Again, Tls!Begin, Tls!Goto, Tls!Steps, Tls!Run
<1>3. CASE Tls!SignPlugin
  BY <1>0, <1>3 DEF Tls!SignPlugin, Tls!File
<1>4. CASE Tls!Serve
  BY <1>0, <1>4 DEF Tls!Serve
<1>5. CASE Tls!Crash
  <2>1. ca_key' \in Tls!File /\ ca_cert' \in Tls!File
    BY <1>0, <1>5 DEF Tls!Crash, Tls!File
  <2>2. tls_step' \in [Tls!Run -> Tls!Steps]
    BY <1>5 DEF Tls!Crash, Tls!Steps
  <2> QED BY <1>0, <1>5, <2>1, <2>2 DEF Tls!Crash
<1>6. ASSUME NEW r \in Reader, Tls!LoadPage(r) PROVE Tls!TypeOK'
  BY <1>0, <1>6, TlsAssumption DEF Tls!LoadPage, Tls!Begin, Tls!Goto, Tls!Steps, Tls!Run
<1>7. ASSUME NEW r \in Tls!Run, tls_step[r] # "idle", NEW s \in Tls!Steps,
             tls_step' = [tls_step EXCEPT ![r] = s], state' = state
      PROVE  /\ tls_step' \in [Tls!Run -> Tls!Steps]
             /\ state' = "starting" => \A q \in Reader : tls_step'[q] = "idle"
  BY <1>0, <1>7 DEF Tls!Run
<1>8. ASSUME NEW r \in Tls!Run, Tls!ReadKey(r) PROVE Tls!TypeOK'
  <2>1. PICK s \in Tls!Steps : tls_step' = [tls_step EXCEPT ![r] = s]
    BY <1>8 DEF Tls!ReadKey, Tls!Goto, Tls!Ends, Tls!Steps
  <2>2. tls_step[r] # "idle" /\ state' = state
    BY <1>8 DEF Tls!ReadKey
  <2>3. stage' \in {"root", "root_again", "plugin", "done"}
    BY <1>0, <1>8, TlsStageType DEF Tls!ReadKey, Tls!Ends
  <2>4. keys' \in 0..MaxKeys /\ key' \in [Tls!Run -> Tls!Key \cup {None}]
    BY <1>0, <1>8, TlsKeyRead
  <2>5. UNCHANGED <<ca_key, ca_cert, tls_cert, tls_settled, tls_disturbed>>
    BY <1>8 DEF Tls!ReadKey
  <2> QED BY <1>0, <1>7, <2>1, <2>2, <2>3, <2>4, <2>5
<1>9. ASSUME NEW r \in Tls!Run, Tls!WriteCert(r) \/ Tls!OpenKey(r) \/ Tls!FillKey(r)
      PROVE  Tls!TypeOK'
  <2>1. PICK s \in Tls!Steps : tls_step' = [tls_step EXCEPT ![r] = s]
    BY <1>9 DEF Tls!WriteCert, Tls!OpenKey, Tls!FillKey, Tls!Goto, Tls!Ends, Tls!Steps
  <2>2. tls_step[r] # "idle" /\ state' = state
    BY <1>9 DEF Tls!WriteCert, Tls!OpenKey, Tls!FillKey
  <2>3. stage' \in {"root", "root_again", "plugin", "done"}
    BY <1>0, <1>9, TlsStageType DEF Tls!WriteCert, Tls!OpenKey, Tls!FillKey, Tls!Ends
  <2>4. key[r] \in Tls!Key
    BY <1>9 DEF TlsIInv, TlsHasKey, Tls!WriteCert, Tls!OpenKey, Tls!FillKey
  <2>5. /\ ca_key' \in Tls!File
        /\ ca_cert' \in Tls!File
        /\ tls_settled' \in Tls!Key \cup {None}
    BY <1>0, <1>9, <2>4
       DEF Tls!WriteCert, Tls!OpenKey, Tls!FillKey, Tls!Settles, Tls!File
  <2>6. UNCHANGED <<tls_cert, key, keys, tls_disturbed>>
    BY <1>9 DEF Tls!WriteCert, Tls!OpenKey, Tls!FillKey
  <2> QED BY <1>0, <1>7, <2>1, <2>2, <2>3, <2>5, <2>6
<1>10. ASSUME NEW r \in Tls!Run, Tls!Fail(r) PROVE Tls!TypeOK'
  <2>1. tls_step' = [tls_step EXCEPT ![r] = "idle"] /\ "idle" \in Tls!Steps
    BY <1>10 DEF Tls!Fail, Tls!Goto, Tls!Ends, Tls!Steps
  <2>2. tls_step[r] # "idle" /\ state' = state
    BY <1>10 DEF Tls!Fail
  <2>3. stage' \in {"root", "root_again", "plugin", "done"}
    BY <1>0, <1>10, TlsStageType DEF Tls!Fail, Tls!Ends
  <2>4. ca_key' \in Tls!File /\ ca_cert' \in Tls!File
    BY <1>0, <1>10 DEF Tls!Fail, Tls!File
  <2>5. tls_disturbed' \in [Tls!Run -> BOOLEAN]
    BY <1>0, <1>10 DEF Tls!Fail
  <2>6. UNCHANGED <<tls_cert, key, keys, tls_settled>>
    BY <1>10 DEF Tls!Fail
  <2> QED BY <1>0, <1>7, <2>1, <2>2, <2>3, <2>4, <2>5, <2>6
<1>11. CASE UNCHANGED Tls!vars
  BY <1>0, <1>11 DEF Tls!vars
<1> QED
  BY <1>1, <1>2, <1>3, <1>4, <1>5, <1>6, <1>8, <1>9, <1>10, <1>11 DEF Tls!Next

\* What a run that begins leaves alone.
LEMMA TlsBeginStep ==
  ASSUME TlsIInv, Tls!TypeOK', NEW r \in Tls!Run, tls_step[r] = "idle", Tls!Begin(r),
         state' # "down",
         UNCHANGED <<ca_key, ca_cert, key, tls_settled>>
  PROVE  TlsIInv'
<1>1. \A q \in Tls!Run : tls_step'[q] = IF q = r THEN "read" ELSE tls_step[q]
  BY DEF Tls!Begin, Tls!Goto, TlsIInv, Tls!TypeOK
<1>2. \A q \in Tls!Run : tls_disturbed'[q] <=>
        IF q = r THEN \E p \in Tls!Run : tls_step[p] # "idle"
        ELSE tls_disturbed[q] \/ tls_step[q] # "idle"
  BY DEF Tls!Begin
<1>3. \A q \in Tls!Run : TlsHasKey(q)' <=> TlsHasKey(q)
  BY <1>1 DEF TlsHasKey
<1>4. ASSUME NEW q \in Tls!Run, tls_step'[q] # "idle", ~tls_disturbed'[q]
      PROVE  TlsAlone(q)'
  <2>1. q = r
    BY <1>1, <1>2, <1>4
  <2> QED BY <1>1, <1>2, <1>4, <2>1 DEF TlsAlone
<1>5. tls_settled # None =>
        \A q \in Tls!Run :
          tls_step'[q] # "fill" /\ (TlsHasKey(q)' => key'[q] = tls_settled)
  BY <1>1, <1>3 DEF TlsIInv
<1>6. \A q \in Tls!Run : TlsHasKey(q)' => key'[q] \in Tls!Key
  BY <1>3 DEF TlsIInv
<1> QED BY <1>4, <1>5, <1>6 DEF TlsIInv

\* A run that ends, or moves and leaves files and keys to itself alone.
LEMMA TlsRunStep ==
  ASSUME TlsIInv, Tls!TypeOK', NEW r \in Tls!Run, NEW s \in Tls!Steps,
         tls_step[r] # "idle",
         tls_step' = [tls_step EXCEPT ![r] = s], UNCHANGED state,
         \A q \in Tls!Run : q # r =>
           key'[q] = key[q] /\ (tls_disturbed[q] => tls_disturbed'[q]),
         s # "idle" /\ ~tls_disturbed'[r] => ~tls_disturbed[r],
         s \in {"cert", "open", "fill"} => key'[r] \in Tls!Key,
         s \in {"open", "fill"} /\ ~tls_disturbed'[r] => ca_cert' = key'[r],
         tls_settled' # None =>
           /\ ca_key' = tls_settled' /\ ca_cert' = tls_settled' /\ s # "fill"
           /\ s \in {"cert", "open"} => key'[r] = tls_settled'
           /\ tls_settled # tls_settled' =>
                \A q \in Tls!Run \ {r} : tls_step[q] = "idle"
  PROVE  TlsIInv'
<1>1. \A q \in Tls!Run : tls_step'[q] = IF q = r THEN s ELSE tls_step[q]
  BY DEF TlsIInv, Tls!TypeOK
<1>2. state' # "down"
  BY DEF TlsIInv
<1>3. \A q \in Tls!Run : TlsHasKey(q)' => key'[q] \in Tls!Key
  BY <1>1 DEF TlsIInv, TlsHasKey
<1>4. ASSUME NEW q \in Tls!Run, tls_step'[q] # "idle", ~tls_disturbed'[q]
      PROVE  TlsAlone(q)'
  <2>1. CASE q = r
    <3>1. TlsAlone(r)
      BY <1>1, <1>4, <2>1 DEF TlsIInv
    <3> QED BY <1>1, <1>4, <2>1, <3>1 DEF TlsAlone
  <2>2. CASE q # r
    <3>1. tls_step[q] # "idle" /\ ~tls_disturbed[q]
      BY <1>1, <1>4, <2>2
    <3>2. TlsAlone(q)
      BY <3>1 DEF TlsIInv
    <3> QED BY <2>2, <3>2 DEF TlsAlone
  <2> QED BY <2>1, <2>2
<1>5. ASSUME tls_settled' # None, NEW q \in Tls!Run
      PROVE  tls_step'[q] # "fill" /\ (TlsHasKey(q)' => key'[q] = tls_settled')
  <2>1. CASE q = r
    BY <1>1, <1>5, <2>1 DEF TlsHasKey
  <2>2. CASE q # r /\ tls_settled = tls_settled'
    BY <1>1, <1>5, <2>2 DEF TlsIInv, TlsHasKey
  <2>3. CASE q # r /\ tls_settled # tls_settled'
    BY <1>1, <1>5, <2>3 DEF TlsHasKey
  <2> QED BY <2>1, <2>2, <2>3
<1> QED BY <1>2, <1>3, <1>4, <1>5 DEF TlsIInv

LEMMA TlsInvariantStep == TlsIInv /\ [Tls!Next]_(Tls!vars) => TlsIInv'
<1> SUFFICES ASSUME TlsIInv, [Tls!Next]_(Tls!vars) PROVE TlsIInv'
  OBVIOUS
<1>0. Tls!TypeOK /\ Tls!TypeOK'
  BY TlsTypeStep DEF TlsIInv
<1>1. CASE Tls!Boot
  BY <1>0, <1>1, TlsBeginStep DEF Tls!Boot, TlsIInv, Tls!Run
<1>2. CASE Tls!Again
  BY <1>0, <1>2, TlsBeginStep DEF Tls!Again, Tls!Run
<1>3. CASE Tls!SignPlugin \/ Tls!Serve
  <2>1. UNCHANGED <<ca_key, ca_cert, tls_step, key, tls_settled, tls_disturbed>>
        /\ state' # "down"
    BY <1>3 DEF Tls!SignPlugin, Tls!Serve
  <2> QED BY <1>0, <2>1 DEF TlsIInv, TlsHasKey, TlsAlone
<1>4. CASE Tls!Crash
  <2>1. /\ \A r \in Tls!Run : tls_step'[r] = "idle"
        /\ tls_settled' = tls_settled
    BY <1>4 DEF Tls!Crash
  <2>2. tls_settled # None => ca_key' = ca_key /\ ca_cert' = ca_cert
    BY <1>4 DEF Tls!Crash, TlsIInv, TlsHasKey
  <2> QED BY <1>0, <2>1, <2>2 DEF TlsIInv, TlsHasKey
<1>5. ASSUME NEW r \in Reader, Tls!LoadPage(r) PROVE TlsIInv'
  BY <1>0, <1>5, TlsBeginStep DEF Tls!LoadPage, Tls!Run
<1>6. ASSUME NEW r \in Tls!Run, Tls!ReadKey(r) PROVE TlsIInv'
  <2>1. UNCHANGED <<ca_key, ca_cert, state, tls_settled, tls_disturbed>> /\ tls_step[r] # "idle"
    BY <1>6 DEF Tls!ReadKey
  <2>2. PICK s \in {"cert", "idle"} : tls_step' = [tls_step EXCEPT ![r] = s]
    BY <1>6 DEF Tls!ReadKey, Tls!Goto, Tls!Ends
  <2>3. \A q \in Tls!Run : q # r => key'[q] = key[q]
    BY <1>0, <1>6 DEF Tls!ReadKey, Tls!TypeOK
  <2>4. s = "cert" => key'[r] \in Tls!Key /\ (ca_key \in Tls!Key => key'[r] = ca_key)
    <3>1. CASE s = "idle"
      BY <3>1
    <3>2. CASE s = "cert"
      <4>1. ~Tls!Goto(r, "idle")
        BY <1>0, <2>2, <3>2 DEF Tls!Goto, Tls!TypeOK
      <4> QED BY <1>0, <1>6, <4>1, TlsKeyRead
    <3> QED BY <3>1, <3>2
  <2>5. tls_settled # None =>
          ca_key = tls_settled /\ ca_cert = tls_settled /\ ca_key \in Tls!Key
    BY <1>0 DEF TlsIInv, Tls!TypeOK
  <2> QED BY <1>0, <2>1, <2>2, <2>3, <2>4, <2>5, TlsRunStep DEF Tls!Steps
<1>7. ASSUME NEW r \in Tls!Run, Tls!WriteCert(r) PROVE TlsIInv'
  <2>1. /\ UNCHANGED <<ca_key, state, tls_settled, tls_disturbed, key>> /\ tls_step[r] = "cert"
        /\ ca_cert' = key[r] /\ tls_step' = [tls_step EXCEPT ![r] = "open"]
    BY <1>7 DEF Tls!WriteCert, Tls!Goto
  <2>2. /\ key[r] \in Tls!Key
        /\ (tls_settled # None => key[r] = tls_settled /\ ca_key = tls_settled)
    BY <2>1 DEF TlsIInv, TlsHasKey
  <2> QED BY <1>0, <2>1, <2>2, TlsRunStep DEF Tls!Steps
<1>8. ASSUME NEW r \in Tls!Run, Tls!OpenKey(r) \/ Tls!FillKey(r) PROVE TlsIInv'
  <2>1. /\ UNCHANGED <<ca_cert, state, tls_disturbed, key>> /\ tls_step[r] \in {"open", "fill"}
        /\ key[r] \in Tls!Key
    BY <1>8 DEF Tls!OpenKey, Tls!FillKey, TlsIInv, TlsHasKey
  <2>2. ~tls_disturbed[r] =>
          ca_cert = key[r] /\ \A q \in Tls!Run \ {r} : tls_step[q] = "idle"
    BY <2>1 DEF TlsIInv, TlsAlone
  <2>3. tls_settled # None =>
          tls_settled = key[r] /\ ca_cert = tls_settled /\ ca_key = tls_settled
    BY <2>1 DEF TlsIInv, TlsHasKey
  <2>4. CASE Tls!OpenKey(r) /\ ca_key # key[r]
    BY <1>0, <2>1, <2>2, <2>3, <2>4, TlsRunStep DEF Tls!OpenKey, Tls!Goto, Tls!Steps
  <2>5. CASE Tls!FillKey(r) \/ (Tls!OpenKey(r) /\ ca_key = key[r])
    <3>1. /\ ca_key' = key[r]
          /\ tls_settled' = Tls!Settles(r)
          /\ tls_step' = [tls_step EXCEPT ![r] = "idle"]
      BY <2>5 DEF Tls!OpenKey, Tls!FillKey, Tls!Ends, Tls!Goto
    <3>2. tls_settled' # None =>
            /\ tls_settled' = key[r] /\ ca_cert = key[r]
            /\ tls_settled # tls_settled' =>
                 \A q \in Tls!Run \ {r} : tls_step[q] = "idle"
      BY <2>2, <2>3, <3>1 DEF Tls!Settles
    <3> QED BY <1>0, <2>1, <3>1, <3>2, TlsRunStep DEF Tls!Steps
  <2> QED BY <1>8, <2>4, <2>5
<1>9. ASSUME NEW r \in Tls!Run, Tls!Fail(r) PROVE TlsIInv'
  <2>1. /\ UNCHANGED <<state, key, tls_settled>> /\ tls_step[r] \in {"cert", "open", "fill"}
        /\ tls_step' = [tls_step EXCEPT ![r] = "idle"]
        /\ \A q \in Tls!Run : tls_disturbed[q] => tls_disturbed'[q]
    BY <1>9 DEF Tls!Fail, Tls!Ends, Tls!Goto
  <2>2. tls_settled # None => ca_key' = ca_key /\ ca_cert' = ca_cert
    BY <1>9 DEF Tls!Fail, TlsIInv, TlsHasKey
  <2>3. tls_settled # None => ca_key = tls_settled /\ ca_cert = tls_settled
    BY DEF TlsIInv
  <2> QED BY <1>0, <2>1, <2>2, <2>3, TlsRunStep DEF Tls!Steps
<1>10. CASE UNCHANGED Tls!vars
  BY <1>0, <1>10 DEF Tls!vars, TlsIInv, TlsHasKey, TlsAlone
<1> QED
  BY <1>1, <1>2, <1>3, <1>4, <1>5, <1>6, <1>7, <1>8, <1>9, <1>10 DEF Tls!Next

LEMMA TlsKept == TlsIInv => Tls!TypeOK /\ Tls!RootCaSurvives
BY DEF TlsIInv, Tls!RootCaSurvives

-----------------------------------------------------------------------------
(* The audio control (audio.rs).  The volume a page shows, the one it has      *)
(* chosen but not sent and the one it sends are the volume last sent or a new  *)
(* one, unless something has disturbed the page.                               *)

\* Of two requests in flight one disturbs the other.
AudioOneBusy == ~audio_disturbed =>
  \A p, q \in AudioPage : Audio!Busy(p) /\ Audio!Busy(q) => p = q

\* A waiting slider move is of a page that shows the control unmuted, and that
\* has no request in flight.
AudioTimersKept ==
  /\ \A p \in AudioPage : timer[p] => ~audio_shown[p].muted /\ audio_step[p] = "idle"
  /\ \A p \in AudioPage : audio_step[p] = "switch" => has_switch

AudioBegun(p) == audio_step[p] = "level" \/ audio_step[p] = "volume"

\* With a switch, the volume chosen is the one being sent or the mixer's.
AudioSwitchKept ==
  has_switch /\ ~audio_disturbed =>
    /\ (\A p \in AudioPage : ~AudioBegun(p)) => mixer = Rounded(chosen)
    /\ \A p \in AudioPage : AudioBegun(p) => chosen = audio_shown[p].volume

\* A mute at volume 0 keeps what is known.
AudioSilent(s) == s.volume = 0 /\ s.muted
AudioLevelOf(v) == IF v > 0 THEN v ELSE None

\* Before the first request no page shows volume 0, but for a slider that has
\* yet to be sent.
AudioFresh == /\ chosen > 0 /\ level = None /\ mixer = Rounded(chosen) /\ mixer > 0
              /\ \A q \in AudioPage : audio_shown[q].volume > 0 \/ timer[q]
AudioKnown == /\ mixer \in {0, Rounded(chosen)}
              /\ level = AudioLevelOf(chosen) \/ AudioFresh

\* Without a switch, the volume chosen is known, or on its way.
AudioSoftKept ==
  ~has_switch /\ ~audio_disturbed =>
    /\ (\A p \in AudioPage : AudioBegun(p) => AudioSilent(audio_shown[p])) => AudioKnown
    /\ \A p \in AudioPage : /\ AudioBegun(p) /\ ~AudioSilent(audio_shown[p]) => chosen = audio_shown[p].volume
                            /\ audio_step[p] = "volume" /\ ~AudioSilent(audio_shown[p]) =>
                                 level = AudioLevelOf(chosen)

AudioIInv ==
  /\ Audio!TypeOK
  /\ AudioOneBusy
  /\ AudioTimersKept
  /\ AudioSwitchKept
  /\ AudioSoftKept

LEMMA AudioVolumes == /\ \A v \in Volume : v > 0 <=> v # 0
                      /\ AudioLevelOf(0) = None
                      /\ \A v \in Volume : AudioLevelOf(v) \in Volume \cup {None}
                      /\ \A v \in Volume : v # 0 =>
                           AudioLevelOf(v) = v /\ AudioLevelOf(v) # None
BY AudioAssumption DEF AudioLevelOf

LEMMA AudioInitInvariant == Audio!Init => AudioIInv
<1> SUFFICES ASSUME Audio!Init PROVE AudioIInv
  OBVIOUS
<1>1. PICK v \in Volume : mixer = Rounded(v) /\ mixer # 0
  BY DEF Audio!Init
<1>2. mixer \in Volume /\ mixer > 0 /\ Rounded(mixer) = mixer /\ chosen = mixer
  BY <1>1, AudioAssumption, AudioVolumes DEF Audio!Init
<1>3. Audio!RawView \in Audio!State /\ Audio!RawView.volume = mixer
  BY <1>2 DEF Audio!Init, Audio!RawView, Audio!State
<1>4. Audio!TypeOK
  BY <1>2, <1>3 DEF Audio!Init, Audio!TypeOK, Audio!Steps
<1>5. AudioFresh
  BY <1>2, <1>3 DEF Audio!Init, AudioFresh
<1> QED BY <1>2, <1>4, <1>5
        DEF Audio!Init, AudioIInv, AudioOneBusy, Audio!Busy, AudioTimersKept,
        AudioSwitchKept, AudioSoftKept, AudioBegun, AudioKnown

LEMMA AudioViewTyped ==
  Audio!TypeOK => Audio!RawView \in Audio!State /\ Audio!RawView.volume = mixer
BY DEF Audio!TypeOK, Audio!RawView, Audio!State

\* A page that has no request shows something else.
LEMMA AudioIdleStep ==
  ASSUME AudioIInv, NEW p \in AudioPage,
         \/ \E v \in Volume : Audio!MoveSlider(p, v)
         \/ Audio!ShowMixer(p)
  PROVE  AudioIInv'
<1>1. /\ audio_step[p] = "idle"
      /\ UNCHANGED <<has_switch, mixer, switched_on, level, stored, audio_step, chosen,
                     audio_disturbed>>
  BY DEF Audio!MoveSlider, Audio!ShowMixer, Audio!Busy
<1>2. PICK s \in Audio!State, b \in BOOLEAN :
        /\ audio_shown' = [audio_shown EXCEPT ![p] = s]
        /\ timer' = [timer EXCEPT ![p] = b]
        /\ b => ~s.muted
        /\ b \/ s.volume = mixer
  <2>1. CASE \E v \in Volume : Audio!MoveSlider(p, v)
    <3>1. PICK v \in Volume : Audio!MoveSlider(p, v)
      BY <2>1
    <3>2. [volume |-> v, muted |-> FALSE] \in Audio!State
      BY DEF Audio!State
    <3> QED BY <3>1, <3>2 DEF Audio!MoveSlider
  <2>2. CASE Audio!ShowMixer(p)
    BY <2>2, AudioViewTyped DEF Audio!ShowMixer, AudioIInv
  <2> QED BY <2>1, <2>2
<1>3. /\ audio_shown'[p] = s /\ timer'[p] = b
      /\ \A q \in AudioPage : q # p =>
           audio_shown'[q] = audio_shown[q] /\ timer'[q] = timer[q]
  BY <1>2 DEF AudioIInv, Audio!TypeOK
<1>4. Audio!TypeOK'
  BY <1>1, <1>2 DEF AudioIInv, Audio!TypeOK
<1>5. AudioOneBusy' /\ AudioTimersKept'
  BY <1>1, <1>2, <1>3 DEF AudioIInv, AudioOneBusy, Audio!Busy, AudioTimersKept
<1>6. \A q \in AudioPage : AudioBegun(q)' <=> AudioBegun(q)
  BY <1>1 DEF AudioBegun
<1>7. \A q \in AudioPage : AudioBegun(q) => audio_shown'[q] = audio_shown[q]
  BY <1>1, <1>3 DEF AudioBegun
<1>8. AudioSwitchKept'
  BY <1>1, <1>6, <1>7 DEF AudioIInv, AudioSwitchKept
<1>9. AudioFresh => AudioFresh'
  BY <1>1, <1>2, <1>3 DEF AudioFresh
<1>10. AudioKnown => AudioKnown'
  BY <1>1, <1>9 DEF AudioKnown
<1>11. \A q \in AudioPage : audio_step'[q] = "volume" =>
         audio_step[q] = "volume" /\ audio_shown'[q] = audio_shown[q]
  BY <1>1, <1>7 DEF AudioBegun
<1>12. AudioSoftKept'
  BY <1>1, <1>6, <1>7, <1>10, <1>11 DEF AudioIInv, AudioSoftKept
<1> QED BY <1>4, <1>5, <1>8, <1>12 DEF AudioIInv

\* A request is sent: what it asks for is chosen, unless it only mutes what is
\* silent already.
LEMMA AudioSendStep ==
  ASSUME AudioIInv, NEW p \in AudioPage, Audio!SendSlider(p) \/ Audio!PressMute(p)
  PROVE  AudioIInv'
<1>1. PICK s : /\ Audio!Send(p, s)
               /\ \/ s = audio_shown[p] /\ timer[p]
                  \/ s = [audio_shown[p] EXCEPT !.muted = ~@]
               /\ ~Audio!Busy(p) /\ UNCHANGED <<has_switch, mixer, switched_on, level, stored>>
  BY DEF Audio!SendSlider, Audio!PressMute
<1>2. /\ s \in Audio!State /\ s.volume = audio_shown[p].volume
      /\ s.muted /\ timer[p] => s # audio_shown[p]
  <2>1. audio_shown[p] \in Audio!State
    BY DEF AudioIInv, Audio!TypeOK
  <2>2. /\ [audio_shown[p] EXCEPT !.muted = ~@] \in Audio!State
        /\ [audio_shown[p] EXCEPT !.muted = ~@].volume = audio_shown[p].volume
    BY <2>1 DEF Audio!State
  <2>3. timer[p] => ~audio_shown[p].muted
    BY DEF AudioIInv, AudioTimersKept
  <2>4. s \in Audio!State /\ s.volume = audio_shown[p].volume
    BY <1>1, <2>1, <2>2
  <2> QED BY <2>3, <2>4
<1>3. /\ audio_shown' = [audio_shown EXCEPT ![p] = s]
      /\ audio_step' = [audio_step EXCEPT ![p] = "level"]
      /\ timer' = [timer EXCEPT ![p] = FALSE]
      /\ chosen' = IF s.volume > 0 \/ ~s.muted \/ has_switch THEN s.volume ELSE chosen
  BY <1>1 DEF Audio!Send
<1>4. audio_disturbed' \in BOOLEAN
  BY <1>1 DEF Audio!Send
<1>5. ~audio_disturbed' => /\ \A q \in AudioPage \ {p} : ~Audio!Busy(q)
                           /\ s.volume = 0 => ~audio_disturbed /\ ~(timer[p] /\ s.muted)
  BY <1>1 DEF Audio!Send
<1>6. /\ audio_shown'[p] = s /\ audio_step'[p] = "level" /\ ~timer'[p]
      /\ \A q \in AudioPage : q # p => /\ audio_shown'[q] = audio_shown[q] /\ timer'[q] = timer[q]
                                       /\ audio_step'[q] = audio_step[q]
  BY <1>3 DEF AudioIInv, Audio!TypeOK
<1>7. s.volume \in Volume /\ chosen' \in Volume
  BY <1>2, <1>3 DEF Audio!State, AudioIInv, Audio!TypeOK
<1>8. Audio!TypeOK'
  BY <1>1, <1>2, <1>3, <1>4, <1>7 DEF AudioIInv, Audio!TypeOK, Audio!Steps
<1>9. AudioOneBusy' /\ AudioTimersKept'
  BY <1>1, <1>5, <1>6 DEF AudioIInv, AudioOneBusy, Audio!Busy, AudioTimersKept
<1>10. ~audio_disturbed' => \A q \in AudioPage : q # p =>
         ~AudioBegun(q)' /\ audio_step'[q] # "volume"
  BY <1>5, <1>6 DEF AudioBegun, Audio!Busy
<1>11. AudioBegun(p)' /\ audio_step'[p] # "volume"
  BY <1>6 DEF AudioBegun
<1>12. AudioSwitchKept'
  <2> SUFFICES ASSUME has_switch, ~audio_disturbed' PROVE AudioSwitchKept'
    BY <1>1 DEF AudioSwitchKept
  <2>1. chosen' = s.volume
    BY <1>3
  <2> QED BY <1>6, <1>10, <1>11, <2>1 DEF AudioSwitchKept
<1>13. AudioSoftKept'
  <2> SUFFICES ASSUME ~has_switch, ~audio_disturbed' PROVE AudioSoftKept'
    BY <1>1 DEF AudioSoftKept
  <2>1. CASE ~AudioSilent(s)
    <3>1. chosen' = s.volume
      BY <1>3, <1>7, <2>1, AudioVolumes DEF AudioSilent
    <3> QED BY <1>6, <1>10, <1>11, <2>1, <3>1 DEF AudioSoftKept
  <2>2. CASE AudioSilent(s)
    <3>1. /\ chosen' = chosen
          /\ ~audio_disturbed
          /\ ~timer[p]
          /\ s.volume = 0
          /\ ~(s.volume > 0)
      BY <1>3, <1>5, <1>7, <2>2, AudioVolumes DEF AudioSilent
    <3>2. \A q \in AudioPage : ~AudioBegun(q)
      BY <1>1, <1>5 DEF AudioBegun, Audio!Busy
    <3>3. AudioKnown
      BY <3>1, <3>2 DEF AudioIInv, AudioSoftKept
    <3>4. ~AudioFresh
      BY <1>2, <3>1 DEF AudioFresh
    <3>5. AudioKnown'
      BY <1>1, <3>1, <3>3, <3>4 DEF AudioKnown
    <3> QED BY <1>6, <1>10, <1>11, <2>2, <3>5 DEF AudioSoftKept
  <2> QED BY <2>1, <2>2
<1> QED BY <1>8, <1>9, <1>12, <1>13 DEF AudioIInv

\* What a step of a request leaves alone.
AudioStays(p) == /\ UNCHANGED <<has_switch, timer, chosen, audio_disturbed>>
                 /\ audio_step[p] # "idle"
                 /\ \A q \in AudioPage : q # p => audio_step'[q] = audio_step[q]

\* The other pages are idle while no request is disturbed.
LEMMA AudioOthersIdle ==
  ASSUME AudioIInv, NEW p \in AudioPage, AudioStays(p), ~audio_disturbed
  PROVE  \A q \in AudioPage : q # p => ~AudioBegun(q) /\ ~AudioBegun(q)'
BY DEF AudioStays, AudioIInv, AudioOneBusy, Audio!Busy, AudioBegun

LEMMA AudioRequestKeeps ==
  ASSUME AudioIInv, NEW p \in AudioPage, AudioStays(p),
         audio_step'[p] = "switch" => has_switch,
         \/ UNCHANGED audio_shown
         \/ \A q \in AudioPage : q # p => audio_shown'[q] = audio_shown[q]
  PROVE  AudioOneBusy' /\ AudioTimersKept'
<1>1. AudioOneBusy'
  BY DEF AudioStays, AudioIInv, AudioOneBusy, Audio!Busy
<1>2. ~timer[p]
  BY DEF AudioStays, AudioIInv, AudioTimersKept
<1>3. \A q \in AudioPage : timer'[q] => q # p
  BY <1>2 DEF AudioStays
<1> QED BY <1>1, <1>3 DEF AudioStays, AudioIInv, AudioTimersKept

LEMMA AudioNoteStep ==
  ASSUME AudioIInv, NEW p \in AudioPage, Audio!NoteLevel(p) PROVE AudioIInv'
<1>1. /\ audio_step[p] = "level" /\ audio_step' = [audio_step EXCEPT ![p] = "volume"]
      /\ level' = IF has_switch THEN level ELSE Audio!LevelAfter(audio_shown[p])
      /\ UNCHANGED <<has_switch, mixer, switched_on, stored, audio_shown, timer, chosen,
                     audio_disturbed>>
  BY DEF Audio!NoteLevel
<1>2. audio_step'[p] = "volume" /\ AudioStays(p)
  BY <1>1 DEF AudioStays, AudioIInv, Audio!TypeOK
<1>3. audio_shown[p] \in Audio!State /\ audio_shown[p].volume \in Volume
  BY DEF AudioIInv, Audio!TypeOK, Audio!State
<1>4. /\ AudioSilent(audio_shown[p]) => Audio!LevelAfter(audio_shown[p]) = level
      /\ ~AudioSilent(audio_shown[p]) =>
           Audio!LevelAfter(audio_shown[p]) = AudioLevelOf(audio_shown[p].volume)
  BY <1>3, AudioVolumes, Zenon DEF Audio!LevelAfter, AudioLevelOf, AudioSilent
<1>5. level' \in Volume \cup {None} /\ (has_switch => level' = None)
  BY <1>1, <1>3, <1>4, AudioVolumes DEF AudioIInv, Audio!TypeOK
<1>6. Audio!TypeOK'
  BY <1>1, <1>5 DEF AudioIInv, Audio!TypeOK, Audio!Steps
<1>7. AudioOneBusy' /\ AudioTimersKept'
  BY <1>1, <1>2, AudioRequestKeeps
<1>8. AudioBegun(p) /\ AudioBegun(p)'
  BY <1>1, <1>2 DEF AudioBegun
<1>9. AudioSwitchKept'
  BY <1>1, <1>2, <1>8, AudioOthersIdle DEF AudioIInv, AudioSwitchKept
<1>10. AudioSoftKept'
  <2> SUFFICES ASSUME ~has_switch, ~audio_disturbed PROVE AudioSoftKept'
    BY <1>1 DEF AudioSoftKept
  <2>1. \A q \in AudioPage : q # p => ~AudioBegun(q) /\ ~AudioBegun(q)'
    BY <1>2, AudioOthersIdle
  <2>2. CASE AudioSilent(audio_shown[p])
    <3>1. level' = level /\ AudioKnown
      BY <1>1, <1>4, <2>1, <2>2 DEF AudioIInv, AudioSoftKept
    <3>2. AudioKnown'
      BY <1>1, <3>1 DEF AudioKnown, AudioFresh
    <3> QED BY <1>1, <1>8, <2>1, <2>2, <3>2 DEF AudioSoftKept, AudioBegun
  <2>3. CASE ~AudioSilent(audio_shown[p])
    <3>1. chosen = audio_shown[p].volume /\ level' = AudioLevelOf(chosen)
      BY <1>1, <1>4, <1>8, <2>3 DEF AudioIInv, AudioSoftKept
    <3> QED BY <1>1, <1>8, <2>1, <2>3, <3>1 DEF AudioSoftKept, AudioBegun
  <2> QED BY <2>2, <2>3
<1> QED BY <1>6, <1>7, <1>9, <1>10 DEF AudioIInv

LEMMA AudioWriteStep ==
  ASSUME AudioIInv, NEW p \in AudioPage, Audio!WriteVolume(p) PROVE AudioIInv'
<1>1. /\ audio_step[p] = "volume"
      /\ audio_step' = [audio_step EXCEPT ![p] =
                           IF has_switch THEN "switch" ELSE "reply"]
      /\ mixer' = IF audio_shown[p].muted /\ ~has_switch THEN 0 ELSE Rounded(audio_shown[p].volume)
      /\ UNCHANGED <<has_switch, switched_on, level, stored, audio_shown, timer, chosen,
                     audio_disturbed>>
  BY DEF Audio!WriteVolume
<1>2. audio_step'[p] = (IF has_switch THEN "switch" ELSE "reply") /\ AudioStays(p)
  BY <1>1 DEF AudioStays, AudioIInv, Audio!TypeOK
<1>3. audio_shown[p] \in Audio!State /\ audio_shown[p].volume \in Volume
  BY DEF AudioIInv, Audio!TypeOK, Audio!State
<1>4. Audio!TypeOK'
  BY <1>1, <1>3, AudioAssumption DEF AudioIInv, Audio!TypeOK, Audio!Steps
<1>5. AudioOneBusy' /\ AudioTimersKept'
  BY <1>1, <1>2, AudioRequestKeeps
<1>6. AudioBegun(p) /\ ~AudioBegun(p)'
  BY <1>1, <1>2 DEF AudioBegun
<1>7. AudioSwitchKept'
  <2> SUFFICES ASSUME has_switch, ~audio_disturbed PROVE AudioSwitchKept'
    BY <1>1 DEF AudioSwitchKept
  <2>1. \A q \in AudioPage : ~AudioBegun(q)'
    BY <1>2, <1>6, AudioOthersIdle
  <2>2. mixer' = Rounded(chosen')
    BY <1>1, <1>6 DEF AudioIInv, AudioSwitchKept
  <2> QED BY <2>1, <2>2 DEF AudioSwitchKept
<1>8. AudioSoftKept'
  <2> SUFFICES ASSUME ~has_switch, ~audio_disturbed PROVE AudioSoftKept'
    BY <1>1 DEF AudioSoftKept
  <2>1. \A q \in AudioPage : q # p => ~AudioBegun(q) /\ ~AudioBegun(q)'
    BY <1>2, AudioOthersIdle
  <2>2. mixer' = 0 \/ mixer' = Rounded(audio_shown[p].volume)
    BY <1>1
  <2>3. CASE AudioSilent(audio_shown[p])
    <3>1. AudioKnown /\ mixer' = 0
      BY <1>1, <2>1, <2>3 DEF AudioIInv, AudioSoftKept, AudioSilent
    <3>2. ~AudioFresh
      BY <1>1, <1>3, <2>3, AudioVolumes
         DEF AudioFresh, AudioSilent, AudioIInv, AudioTimersKept
    <3>3. level' = AudioLevelOf(chosen')
      BY <1>1, <3>1, <3>2 DEF AudioKnown
    <3> QED BY <1>6, <2>1, <3>1, <3>3 DEF AudioSoftKept, AudioKnown, AudioBegun
  <2>4. CASE ~AudioSilent(audio_shown[p])
    <3>1. chosen = audio_shown[p].volume /\ level = AudioLevelOf(chosen)
      BY <1>1, <1>6, <2>4 DEF AudioIInv, AudioSoftKept
    <3> QED BY <1>1, <1>6, <2>1, <2>2, <3>1 DEF AudioSoftKept, AudioKnown, AudioBegun
  <2> QED BY <2>3, <2>4
<1> QED BY <1>4, <1>5, <1>7, <1>8 DEF AudioIInv

LEMMA AudioSwitchStep ==
  ASSUME AudioIInv, NEW p \in AudioPage, Audio!WriteSwitch(p) PROVE AudioIInv'
<1>1. /\ audio_step[p] = "switch" /\ audio_step' = [audio_step EXCEPT ![p] = "reply"]
      /\ switched_on' \in BOOLEAN
      /\ UNCHANGED <<has_switch, mixer, level, stored, audio_shown, timer, chosen,
                     audio_disturbed>>
  BY DEF Audio!WriteSwitch
<1>2. audio_step'[p] = "reply" /\ AudioStays(p) /\ has_switch
  BY <1>1 DEF AudioStays, AudioIInv, Audio!TypeOK, AudioTimersKept
<1>3. Audio!TypeOK'
  BY <1>1 DEF AudioIInv, Audio!TypeOK, Audio!Steps
<1>4. AudioOneBusy' /\ AudioTimersKept'
  BY <1>1, <1>2, AudioRequestKeeps
<1>5. ~AudioBegun(p) /\ ~AudioBegun(p)' /\ \A q \in AudioPage : q # p =>
        (AudioBegun(q)' <=> AudioBegun(q))
  BY <1>1, <1>2 DEF AudioBegun, AudioStays
<1>6. AudioSwitchKept'
  BY <1>1, <1>5 DEF AudioIInv, AudioSwitchKept
<1>7. AudioSoftKept'
  BY <1>1, <1>2 DEF AudioSoftKept
<1> QED BY <1>3, <1>4, <1>6, <1>7 DEF AudioIInv

\* The page shows the control as it is, muted with what it comes back to.
LEMMA AudioReplyStep ==
  ASSUME AudioIInv, NEW p \in AudioPage, Audio!Reply(p) PROVE AudioIInv'
<1> DEFINE s == audio_shown'[p]
<1>1. /\ audio_step[p] = "reply" /\ audio_step' = [audio_step EXCEPT ![p] = "idle"]
      /\ UNCHANGED <<has_switch, mixer, switched_on, level, stored, timer, chosen,
                     audio_disturbed>>
  BY DEF Audio!Reply
<1>2. audio_step'[p] = "idle" /\ AudioStays(p)
  BY <1>1 DEF AudioStays, AudioIInv, Audio!TypeOK
<1>3. PICK r : /\ audio_shown' = [audio_shown EXCEPT ![p] = r]
               /\ r = IF has_switch \/ ~audio_shown[p].muted THEN Audio!RawView
                      ELSE [volume |-> IF level = None THEN audio_shown[p].volume ELSE level,
                            muted |-> TRUE]
  BY DEF Audio!Reply
<1>4. /\ r \in Audio!State
      /\ level = None => r.volume = mixer \/ r.volume = audio_shown[p].volume
  BY <1>3, AudioViewTyped DEF AudioIInv, Audio!TypeOK, Audio!State
<1>5. audio_shown'[p] = r /\ \A q \in AudioPage : q # p =>
        audio_shown'[q] = audio_shown[q]
  BY <1>3 DEF AudioIInv, Audio!TypeOK
<1>6. Audio!TypeOK'
  BY <1>1, <1>3, <1>4 DEF AudioIInv, Audio!TypeOK, Audio!Steps
<1>7. AudioOneBusy' /\ AudioTimersKept'
  BY <1>2, <1>5, AudioRequestKeeps
<1>8. ~AudioBegun(p) /\ ~AudioBegun(p)' /\ \A q \in AudioPage : q # p =>
        (AudioBegun(q)' <=> AudioBegun(q))
  BY <1>1, <1>2 DEF AudioBegun, AudioStays
<1>9. AudioSwitchKept'
  BY <1>1, <1>5, <1>8 DEF AudioIInv, AudioSwitchKept
<1>10. AudioFresh => AudioFresh'
  <2>1. ~timer[p]
    BY <1>1 DEF AudioIInv, AudioTimersKept
  <2> QED BY <1>1, <1>4, <1>5, <2>1 DEF AudioFresh
<1>11. AudioKnown => AudioKnown'
  BY <1>1, <1>10 DEF AudioKnown
<1>12. audio_step'[p] # "volume" /\ \A q \in AudioPage : q # p =>
         audio_step'[q] = audio_step[q]
  BY <1>2 DEF AudioStays
<1>13. AudioSoftKept'
  BY <1>1, <1>5, <1>8, <1>11, <1>12 DEF AudioIInv, AudioSoftKept
<1> QED BY <1>6, <1>7, <1>9, <1>13 DEF AudioIInv

LEMMA AudioFaultStep ==
  ASSUME AudioIInv, Audio!Restart \/ \E p \in AudioPage : Audio!Fail(p) PROVE AudioIInv'
<1>1. audio_disturbed' = TRUE
  BY DEF Audio!Restart, Audio!Fail
<1>2. UNCHANGED <<has_switch, stored, audio_shown, timer, chosen>>
  BY DEF Audio!Restart, Audio!Fail
<1>3. /\ audio_step' \in [AudioPage -> Audio!Steps]
      /\ \A p \in AudioPage : audio_step'[p] = audio_step[p] \/ audio_step'[p] = "idle"
  BY DEF Audio!Restart, Audio!Fail, AudioIInv, Audio!TypeOK, Audio!Steps
<1>4. mixer' \in Volume /\ switched_on' \in BOOLEAN /\ (level' = level \/ level' = None)
  BY DEF Audio!Restart, Audio!Fail, AudioIInv, Audio!TypeOK
<1>5. Audio!TypeOK'
  BY <1>1, <1>2, <1>3, <1>4 DEF AudioIInv, Audio!TypeOK
<1>6. AudioTimersKept'
  BY <1>2, <1>3 DEF AudioIInv, AudioTimersKept
<1> QED BY <1>1, <1>5, <1>6 DEF AudioIInv, AudioOneBusy, AudioSwitchKept, AudioSoftKept

LEMMA AudioSaveStep ==
  ASSUME AudioIInv, NEW p \in AudioPage, Audio!Save(p) PROVE AudioIInv'
<1>1. /\ stored' = <<mixer, switched_on>>
      /\ UNCHANGED <<has_switch, mixer, switched_on, level, audio_shown, timer,
                     audio_step, chosen,
                     audio_disturbed>>
  BY DEF Audio!Save
<1>2. Audio!TypeOK'
  BY <1>1 DEF AudioIInv, Audio!TypeOK
<1> QED BY <1>1, <1>2 DEF AudioIInv, AudioOneBusy, Audio!Busy, AudioTimersKept,
                          AudioSwitchKept, AudioSoftKept, AudioBegun,
                          AudioKnown, AudioFresh

LEMMA AudioInvariantStep == AudioIInv /\ [Audio!Next]_(Audio!vars) => AudioIInv'
<1>1. ASSUME AudioIInv, UNCHANGED Audio!vars PROVE AudioIInv'
  BY <1>1
     DEF Audio!vars, AudioIInv, Audio!TypeOK, AudioOneBusy, Audio!Busy, AudioTimersKept,
         AudioSwitchKept, AudioSoftKept, AudioBegun, 
              AudioKnown, AudioFresh
<1> QED BY <1>1, AudioIdleStep, AudioSendStep, AudioNoteStep, AudioWriteStep, AudioSwitchStep,
           AudioReplyStep, AudioFaultStep,
           AudioSaveStep DEF Audio!Next

LEMMA AudioKept == AudioIInv => Audio!TypeOK /\ Audio!VolumeSurvivesMute
<1> SUFFICES ASSUME AudioIInv, ~audio_disturbed, \A p \in AudioPage : ~Audio!Busy(p)
             PROVE  IF has_switch THEN mixer = Rounded(chosen)
                    ELSE /\ mixer \in {0, Rounded(chosen)}
                         /\ mixer = 0 /\ chosen > 0 => level = chosen
                         /\ Audio!ReadControl.volume \in {chosen, Rounded(chosen)}
  BY DEF AudioIInv, Audio!VolumeSurvivesMute
<1>1. \A p \in AudioPage : ~AudioBegun(p)
  BY DEF AudioBegun, Audio!Busy
<1>2. CASE has_switch
  BY <1>1, <1>2 DEF AudioIInv, AudioSwitchKept
<1>3. CASE ~has_switch
  <2>1. AudioKnown /\ mixer \in Volume /\ chosen \in Volume
    BY <1>1, <1>3 DEF AudioIInv, AudioSoftKept, Audio!TypeOK
  <2>2. mixer = 0 => ~AudioFresh
    BY <2>1, AudioVolumes DEF AudioFresh
  <2>3. mixer = 0 => level = AudioLevelOf(chosen)
    BY <2>1, <2>2 DEF AudioKnown
  <2>4. CASE mixer # 0
    BY <1>3, <2>1, <2>4 DEF AudioKnown, Audio!ReadControl, Audio!RawView
  <2>5. CASE mixer = 0 /\ chosen # 0
    BY <1>3, <2>1, <2>3, <2>5, AudioVolumes DEF Audio!ReadControl
  <2>6. CASE mixer = 0 /\ chosen = 0
    BY <1>3, <2>1, <2>3, <2>6, AudioVolumes DEF Audio!ReadControl, Audio!RawView
  <2> QED BY <2>4, <2>5, <2>6, <1>3
<1> QED BY <1>2, <1>3

-----------------------------------------------------------------------------
(* The live state and its socket (http/ws.rs).  A frame is shown, in the       *)
(* initial events, in the queue or missed: at each step the last event of a    *)
(* module that is still on its way carries the state there is.                 *)

FeedEvent == [topic : Feed!Topic, state : Nat]

\* The last event of a topic in a queue carries a state.
FeedLastTells(q, t, n) ==
  \A i \in 1..Len(q) :
    q[i].topic = t /\ (\A j \in 1..Len(q) : j > i => q[j].topic # t) => q[i].state = n

FeedAbsent(q, t) == \A i \in 1..Len(q) : q[i].topic # t

\* No state is from the future.
FeedPast(states, at) == \A t \in DOMAIN states : states[t] \in Nat /\ states[t] <= at[t]
FeedPastEvents(q, at) == \A i \in 1..Len(q) : q[i].state <= at[q[i].topic]

FeedPublisherKept == /\ now \in [Feed!Topic -> 0..FeedMaxChanges]
                     /\ heard \in Frames \cup {None} /\ round \in Seq(Feed!Topic)
FeedSocketsKept ==
  /\ socket \in [FeedPage -> {"closed", "initial", "live"}]
  /\ paused \in [FeedPage -> BOOLEAN] /\ missed \in [FeedPage -> SUBSET Feed!Topic]
FeedQueuesKept ==
  /\ queue \in [FeedPage -> Seq(FeedEvent)]
  /\ \A p \in FeedPage : /\ Len(queue[p]) <= FeedCapacity /\ FeedPastEvents(queue[p], now)
                         /\ socket[p] = "closed" => queue[p] = <<>>
FeedInitialKept ==
  /\ initial = [p \in FeedPage |-> initial[p]]
  /\ \A p \in FeedPage : /\ initial[p] = [t \in DOMAIN initial[p] |-> initial[p][t]]
                         /\ DOMAIN initial[p] \subseteq Feed!Topic
                         /\ FeedPast(initial[p], now)
                         /\ socket[p] # "initial" => initial[p] = <<>>
FeedShownKept ==
  /\ feed_shown \in [FeedPage -> [Feed!Topic -> Nat]]
  /\ \A p \in FeedPage : FeedPast(feed_shown[p], now)

\* The frames that are published are shown, in the initial events, on their way,
\* or missed.
FeedCurrent(p, t) ==
  /\ FeedLastTells(queue[p], t, now[t])
  /\ t \notin missed[p] /\ FeedAbsent(queue[p], t) =>
       /\ socket[p] = "live" => feed_shown[p][t] = now[t]
       /\ socket[p] = "initial" /\ t \in DOMAIN initial[p] => initial[p][t] = now[t]
FeedFramesKept == \A p \in FeedPage, t \in Frames : heard # t => FeedCurrent(p, t)

FeedIInv ==
  /\ FeedPublisherKept
  /\ FeedSocketsKept
  /\ FeedQueuesKept
  /\ FeedInitialKept
  /\ FeedShownKept
  /\ FeedFramesKept

LEMMA FeedNoInitial == /\ DOMAIN <<>> = {} /\ <<>> = [t \in {} |-> 0]
                       /\ <<>> = [t \in DOMAIN <<>> |-> <<>>[t]]
OBVIOUS

LEMMA FeedOrders == Feed!Order \in Seq(Feed!Topic) /\ Frames \subseteq Feed!Topic
<1>1. \A i \in 1..Len(Feed!Order) : Feed!Order[i] \in Feed!Topic
  BY DEF Feed!Topic
<1> QED BY <1>1, FeedAssumption DEF Feed!Order, Feed!Topic

LEMMA FeedInitInvariant == Feed!Init => FeedIInv
<1> SUFFICES ASSUME Feed!Init PROVE FeedIInv
  OBVIOUS
<1>1. FeedPublisherKept /\ FeedSocketsKept
  BY FeedAssumption DEF Feed!Init, FeedPublisherKept, FeedSocketsKept
<1>2. FeedQueuesKept
  BY FeedAssumption DEF Feed!Init, FeedQueuesKept, FeedPastEvents
<1>3. FeedInitialKept
  BY FeedNoInitial DEF Feed!Init, FeedInitialKept, FeedPast
<1>4. FeedShownKept
  BY DEF Feed!Init, FeedShownKept, FeedPast
<1>5. FeedFramesKept
  BY DEF Feed!Init, FeedFramesKept, FeedCurrent, FeedLastTells
<1> QED BY <1>1, <1>2, <1>3, <1>4, <1>5 DEF FeedIInv

\* An event put into a queue that may lose its first: the event is the last of
\* its topic, and a topic whose last is lost is missed.
FeedTakes(q, e, r, at) ==
  /\ q \in Seq(FeedEvent) /\ Len(q) <= FeedCapacity /\ e \in FeedEvent
  /\ r = IF Len(Append(q, e)) > FeedCapacity THEN Tail(Append(q, e)) ELSE Append(q, e)
  /\ FeedPastEvents(q, at) /\ e.state <= at[e.topic]
FeedHasTaken(q, e, r, at) ==
  /\ r \in Seq(FeedEvent) /\ Len(r) <= FeedCapacity /\ FeedPastEvents(r, at)
  /\ \A t, n : (IF t = e.topic THEN n = e.state ELSE FeedLastTells(q, t, n))
                 => FeedLastTells(r, t, n)
  /\ \A t : FeedAbsent(r, t) =>
       \/ t # e.topic /\ FeedAbsent(q, t)
       \/ /\ t = Head(Append(q, e)).topic /\ Len(Append(q, e)) > FeedCapacity
          /\ \A i \in 1..FeedCapacity : r[i].topic # Head(Append(q, e)).topic
LEMMA FeedQueued ==
  ASSUME NEW q, NEW e, NEW r, NEW at, FeedTakes(q, e, r, at)
  PROVE  FeedHasTaken(q, e, r, at)
<1>a. PICK a : a = Append(q, e)
  OBVIOUS
<1>q. /\ q \in Seq(FeedEvent) /\ Len(q) <= FeedCapacity /\ e \in FeedEvent
      /\ r = IF Len(a) > FeedCapacity THEN Tail(a) ELSE a
      /\ FeedPastEvents(q, at) /\ e.state <= at[e.topic]
  BY <1>a DEF FeedTakes
<1>1. /\ a \in Seq(FeedEvent) /\ Len(a) = Len(q) + 1 /\ a[Len(q) + 1] = e /\ a # <<>>
      /\ \A i \in 1..Len(q) : a[i] = q[i] /\ i \in 1..Len(a)
      /\ \A i \in 1..Len(a) : i \in 1..Len(q) \/ i = Len(q) + 1
      /\ Len(q) + 1 \in 1..Len(a) /\ Len(q) \in Nat
  BY <1>a, <1>q
<1>2. FeedPastEvents(a, at)
  BY <1>1, <1>q DEF FeedPastEvents
<1>3. ASSUME NEW t, NEW n, IF t = e.topic THEN n = e.state ELSE FeedLastTells(q, t, n)
      PROVE  FeedLastTells(a, t, n)
  <2> SUFFICES ASSUME NEW i \in 1..Len(a), a[i].topic = t,
                      \A j \in 1..Len(a) : j > i => a[j].topic # t
               PROVE  a[i].state = n
    BY DEF FeedLastTells
  <2>1. CASE i = Len(q) + 1
    BY <1>1, <1>3, <2>1
  <2>2. CASE i \in 1..Len(q)
    <3>1. a[i] = q[i] /\ t # e.topic
      BY <1>1, <2>2
    <3>2. \A j \in 1..Len(q) : j > i => q[j].topic # t
      BY <1>1, <2>2
    <3> QED BY <1>3, <2>2, <3>1, <3>2 DEF FeedLastTells
  <2> QED BY <1>1, <2>1, <2>2
<1>4. \A t : FeedAbsent(a, t) => t # e.topic /\ FeedAbsent(q, t)
  BY <1>1 DEF FeedAbsent
<1>5. CASE ~(Len(a) > FeedCapacity)
  <2>1. r = a /\ Len(a) <= FeedCapacity
    BY <1>1, <1>5, <1>q, FeedAssumption
  <2> QED BY <1>1, <1>2, <1>3, <1>4, <1>a, <2>1 DEF FeedHasTaken
<1>6. CASE Len(a) > FeedCapacity
  <2>1. /\ r = Tail(a) /\ Head(a) = a[1] /\ Len(r) = Len(a) - 1 /\ r \in Seq(FeedEvent)
        /\ \A i \in 1..Len(r) : r[i] = a[i + 1] /\ i + 1 \in 1..Len(a)
        /\ \A i \in 1..Len(a) : i = 1 \/ (i - 1 \in 1..Len(r) /\ r[i - 1] = a[i])
    BY <1>1, <1>6, <1>q
  <2>2. Len(r) = FeedCapacity
    BY <1>1, <1>6, <1>q, <2>1, FeedAssumption
  <2>3. FeedPastEvents(r, at)
    BY <1>2, <2>1 DEF FeedPastEvents
  <2>4. ASSUME NEW t, NEW n, FeedLastTells(a, t, n) PROVE FeedLastTells(r, t, n)
    <3> SUFFICES ASSUME NEW i \in 1..Len(r), r[i].topic = t,
                        \A j \in 1..Len(r) : j > i => r[j].topic # t
                 PROVE  r[i].state = n
      BY DEF FeedLastTells
    <3>1. r[i] = a[i + 1] /\ i + 1 \in 1..Len(a)
      BY <2>1
    <3>2. ASSUME NEW j \in 1..Len(a), j > i + 1 PROVE a[j].topic # t
      <4>1. j # 1 /\ j - 1 > i
        BY <3>2
      <4>2. j - 1 \in 1..Len(r) /\ r[j - 1] = a[j]
        BY <2>1, <4>1
      <4> QED BY <4>1, <4>2
    <3> QED BY <2>4, <3>1, <3>2 DEF FeedLastTells
  <2>5. ASSUME NEW t, FeedAbsent(r, t), t # Head(a).topic PROVE FeedAbsent(a, t)
    <3>1. ASSUME NEW i \in 1..Len(a), i # 1 PROVE a[i].topic # t
      <4>1. i - 1 \in 1..Len(r) /\ r[i - 1] = a[i]
        BY <2>1, <3>1
      <4> QED BY <2>5, <4>1 DEF FeedAbsent
    <3>2. a[1].topic # t
      BY <2>1, <2>5
    <3> QED BY <3>1, <3>2 DEF FeedAbsent
  <2>6. \A t : FeedAbsent(r, t) => \A i \in 1..FeedCapacity : r[i].topic # t
    BY <2>2 DEF FeedAbsent
  <2>7. \A t : FeedAbsent(r, t) =>
          \/ t # e.topic /\ FeedAbsent(q, t)
          \/ t = Head(a).topic /\ \A i \in 1..FeedCapacity : r[i].topic # Head(a).topic
    BY <1>4, <2>5, <2>6
  <2>8. Len(r) <= FeedCapacity
    BY <2>2, FeedAssumption
  <2> QED BY <1>3, <1>6, <1>a, <2>1, <2>3, <2>4, <2>7, <2>8 DEF FeedHasTaken
<1> QED BY <1>5, <1>6

\* The state of a topic is published to every page that is not closed.
LEMMA FeedPublishStep ==
  ASSUME FeedIInv, NEW t \in Feed!Topic, Feed!Publish(t), FeedPublisherKept',
         UNCHANGED <<now, socket, initial, paused, feed_shown>>,
         heard' = heard \/ heard = t
  PROVE  FeedIInv'
<1> DEFINE e == [topic |-> t, state |-> now[t]]
           with(p) == Append(queue[p], e)
           late(p) == Len(with(p)) > FeedCapacity
<1>1. e \in FeedEvent /\ e.topic = t /\ e.state = now[t] /\ e.state <= now[e.topic]
  BY DEF FeedIInv, FeedPublisherKept, FeedEvent
<1>2. /\ queue' = [p \in FeedPage |-> IF socket[p] = "closed" THEN queue[p]
                                      ELSE IF late(p) THEN Tail(with(p)) ELSE with(p)]
      /\ missed' = [p \in FeedPage |->
                     IF socket[p] = "closed" THEN missed[p]
                     ELSE IF late(p) /\ \A i \in 1..FeedCapacity :
                               queue'[p][i].topic # Head(with(p)).topic
                          THEN missed[p] \cup {Head(with(p)).topic}
                          ELSE missed[p]]
  BY DEF Feed!Publish
<1> HIDE DEF e
<1>3. ASSUME NEW p \in FeedPage, socket[p] # "closed"
      PROVE  /\ queue'[p] \in Seq(FeedEvent) /\ Len(queue'[p]) <= FeedCapacity
             /\ FeedPastEvents(queue'[p], now)
             /\ \A u, n : (IF u = t THEN n = now[t] ELSE FeedLastTells(queue[p], u, n))
                            => FeedLastTells(queue'[p], u, n)
             /\ \A u : u \notin missed'[p] /\ FeedAbsent(queue'[p], u) =>
                         u # t /\ FeedAbsent(queue[p], u)
             /\ missed[p] \subseteq missed'[p] /\ missed'[p] \subseteq Feed!Topic
  <2>1. /\ queue[p] \in Seq(FeedEvent) /\ Len(queue[p]) <= FeedCapacity
        /\ FeedPastEvents(queue[p], now)
        /\ missed[p] \subseteq Feed!Topic
    BY DEF FeedIInv, FeedQueuesKept, FeedSocketsKept
  <2>2. queue'[p] = IF late(p) THEN Tail(with(p)) ELSE with(p)
    BY <1>2, <1>3
  <2>3. missed'[p] = IF late(p) /\ \A i \in 1..FeedCapacity :
                             queue'[p][i].topic # Head(with(p)).topic
                     THEN missed[p] \cup {Head(with(p)).topic} ELSE missed[p]
    BY <1>2, <1>3
  <2>4. Head(with(p)) \in FeedEvent
    BY <1>1, <2>1
  <2>5. /\ queue'[p] \in Seq(FeedEvent) /\ Len(queue'[p]) <= FeedCapacity
        /\ FeedPastEvents(queue'[p], now)
        /\ \A u, n : (IF u = e.topic THEN n = e.state ELSE FeedLastTells(queue[p], u, n))
                       => FeedLastTells(queue'[p], u, n)
        /\ \A u : FeedAbsent(queue'[p], u) =>
             \/ u # e.topic /\ FeedAbsent(queue[p], u)
             \/ /\ u = Head(with(p)).topic /\ late(p)
                /\ \A i \in 1..FeedCapacity : queue'[p][i].topic # Head(with(p)).topic
    <3>1. FeedTakes(queue[p], e, queue'[p], now)
      BY <1>1, <2>1, <2>2 DEF FeedTakes
    <3>2. FeedHasTaken(queue[p], e, queue'[p], now)
      BY <3>1, FeedQueued
    <3> QED BY <3>2 DEF FeedHasTaken
  <2>6. missed[p] \subseteq missed'[p] /\ missed'[p] \subseteq Feed!Topic
    BY <2>1, <2>3, <2>4 DEF FeedEvent
  <2>7. \A u : u \notin missed'[p] /\ FeedAbsent(queue'[p], u) =>
          u # t /\ FeedAbsent(queue[p], u)
    BY <1>1, <2>3, <2>5
  <2> HIDE DEF with, late
  <2> QED BY <1>1, <2>5, <2>6, <2>7
<1>4. ASSUME NEW p \in FeedPage, socket[p] = "closed"
      PROVE  queue'[p] = queue[p] /\ missed'[p] = missed[p]
  BY <1>2, <1>4
<1>5. /\ queue' = [p \in FeedPage |-> queue'[p]]
      /\ missed' = [p \in FeedPage |-> missed'[p]]
  BY <1>2
<1> HIDE DEF with, late
<1>6. FeedQueuesKept'
  <2>1. \A p \in FeedPage : queue'[p] \in Seq(FeedEvent)
    BY <1>3, <1>4 DEF FeedIInv, FeedQueuesKept
  <2>2. queue' \in [FeedPage -> Seq(FeedEvent)]
    BY <1>5, <2>1
  <2>3. \A p \in FeedPage : /\ Len(queue'[p]) <= FeedCapacity /\ FeedPastEvents(queue'[p], now')
                            /\ socket'[p] = "closed" => queue'[p] = <<>>
    BY <1>3, <1>4 DEF FeedIInv, FeedQueuesKept
  <2> QED BY <2>2, <2>3 DEF FeedQueuesKept
<1>7. FeedSocketsKept'
  <2>1. \A p \in FeedPage : missed'[p] \in SUBSET Feed!Topic
    BY <1>3, <1>4 DEF FeedIInv, FeedSocketsKept
  <2>2. missed' \in [FeedPage -> SUBSET Feed!Topic]
    BY <1>5, <2>1
  <2> QED BY <2>2 DEF FeedIInv, FeedSocketsKept
<1>8. FeedInitialKept' /\ FeedShownKept'
  BY DEF FeedIInv, FeedInitialKept, FeedShownKept
<1>9. ASSUME NEW p \in FeedPage, NEW u \in Frames, heard' # u PROVE FeedCurrent(p, u)'
  <2>1. u # t => FeedCurrent(p, u)
    BY <1>9 DEF FeedIInv, FeedFramesKept
  <2>2. CASE socket[p] = "closed"
    <3>1. FeedLastTells(queue'[p], u, now'[u])
      BY <1>4, <2>2 DEF FeedIInv, FeedQueuesKept, FeedLastTells
    <3> QED BY <2>2, <3>1 DEF FeedCurrent
  <2>3. CASE socket[p] # "closed"
    <3>1. FeedLastTells(queue'[p], u, now'[u])
      BY <1>3, <2>1, <2>3 DEF FeedCurrent
    <3>2. ASSUME u \notin missed'[p], FeedAbsent(queue'[p], u)
          PROVE  u # t /\ FeedAbsent(queue[p], u) /\ u \notin missed[p]
      BY <1>3, <2>3, <3>2
    <3> QED BY <2>1, <3>1, <3>2 DEF FeedCurrent
  <2> QED BY <2>2, <2>3
<1> QED BY <1>6, <1>7, <1>8, <1>9 DEF FeedIInv, FeedFramesKept

LEMMA FeedPublisherStep ==
  ASSUME FeedIInv, Feed!PublishFrames \/ Feed!PublishPeriodic \/ Feed!Tick
  PROVE  FeedIInv'
<1>1. CASE Feed!PublishFrames
  <2>1. /\ heard \in Frames /\ heard \in Feed!Topic /\ Feed!Publish(heard) /\ heard' = None
        /\ UNCHANGED <<now, round, socket, initial, paused, feed_shown>>
    BY <1>1, FeedOrders DEF Feed!PublishFrames, FeedIInv, FeedPublisherKept
  <2>2. FeedPublisherKept'
    BY <2>1 DEF FeedIInv, FeedPublisherKept
  <2> QED BY <2>1, <2>2, FeedPublishStep
<1>2. CASE Feed!PublishPeriodic
  <2>1. /\ round # <<>> /\ Feed!Publish(Head(round)) /\ round' = Tail(round)
        /\ UNCHANGED <<now, heard, socket, initial, paused, feed_shown>>
    BY <1>2 DEF Feed!PublishPeriodic
  <2>2. Head(round) \in Feed!Topic /\ round' \in Seq(Feed!Topic)
    BY <2>1 DEF FeedIInv, FeedPublisherKept
  <2>3. FeedPublisherKept'
    BY <2>1, <2>2 DEF FeedIInv, FeedPublisherKept
  <2> QED BY <2>1, <2>2, <2>3, FeedPublishStep
<1>3. CASE Feed!Tick
  <2>1. round' = Feed!Order
        /\ UNCHANGED <<now, heard, socket, initial, queue, paused, feed_shown, missed>>
    BY <1>3 DEF Feed!Tick
  <2>2. FeedPublisherKept'
    BY <2>1, FeedOrders DEF FeedIInv, FeedPublisherKept
  <2> QED BY <2>1, <2>2 DEF FeedIInv, FeedSocketsKept, FeedQueuesKept, FeedInitialKept,
                          FeedShownKept, FeedFramesKept,
                          FeedCurrent
<1> QED BY <1>1, <1>2, <1>3

\* A state changes; of a frame the listener has yet to publish it.
LEMMA FeedChangeStep ==
  ASSUME FeedIInv, NEW t \in Feed!Topic,
         (t \in Frames /\ Feed!Hear(t)) \/ (t \notin Frames /\ Feed!Change(t))
  PROVE  FeedIInv'
<1>1. /\ now[t] < FeedMaxChanges /\ now' = [now EXCEPT ![t] = @ + 1]
      /\ UNCHANGED <<round, socket, initial, queue, paused, feed_shown, missed>>
      /\ \/ t \in Frames /\ heard = None /\ heard' = t
         \/ t \notin Frames /\ heard' = heard
  BY DEF Feed!Hear, Feed!Change
<1>2. now[t] \in 0..FeedMaxChanges /\ now' \in [Feed!Topic -> 0..FeedMaxChanges]
  BY <1>1, FeedAssumption DEF FeedIInv, FeedPublisherKept
<1>3. \A u \in Feed!Topic : now[u] \in Nat /\ now'[u] \in Nat /\ now[u] <= now'[u]
  BY <1>1, <1>2, FeedAssumption DEF FeedIInv, FeedPublisherKept
<1>4. FeedPublisherKept' /\ FeedSocketsKept'
  BY <1>1, <1>2 DEF FeedIInv, FeedPublisherKept, FeedSocketsKept
<1>5. ASSUME NEW q \in Seq(FeedEvent), FeedPastEvents(q, now)
      PROVE  FeedPastEvents(q, now')
  <2> SUFFICES ASSUME NEW i \in 1..Len(q) PROVE q[i].state <= now'[q[i].topic]
    BY DEF FeedPastEvents
  <2>1. q[i] \in FeedEvent /\ q[i].state <= now[q[i].topic]
    BY <1>5 DEF FeedPastEvents
  <2>2. q[i].topic \in Feed!Topic /\ q[i].state \in Nat
    BY <2>1 DEF FeedEvent
  <2> QED BY <1>3, <2>1, <2>2
<1>6. FeedQueuesKept'
  BY <1>1, <1>5 DEF FeedIInv, FeedQueuesKept
<1>7. ASSUME NEW s, DOMAIN s \subseteq Feed!Topic, FeedPast(s, now)
      PROVE  FeedPast(s, now')
  BY <1>3, <1>7 DEF FeedPast
<1>8. FeedInitialKept'
  BY <1>1, <1>7 DEF FeedIInv, FeedInitialKept
<1>9. FeedShownKept'
  BY <1>1, <1>7 DEF FeedIInv, FeedShownKept
<1>10. FeedFramesKept'
  <2> SUFFICES ASSUME NEW p \in FeedPage, NEW u \in Frames, heard' # u
               PROVE  FeedCurrent(p, u)'
    BY DEF FeedFramesKept
  <2>1. u # t /\ heard # u
    BY <1>1, FeedAssumption
  <2>2. now'[u] = now[u]
    BY <1>1, <2>1, FeedOrders DEF FeedIInv, FeedPublisherKept
  <2>3. FeedCurrent(p, u)
    BY <2>1 DEF FeedIInv, FeedFramesKept
  <2> QED BY <1>1, <2>2, <2>3 DEF FeedCurrent
<1> QED BY <1>4, <1>6, <1>8, <1>9, <1>10 DEF FeedIInv

\* A socket opens.
LEMMA FeedOpenStep ==
  ASSUME FeedIInv, NEW p \in FeedPage, Feed!Load(p) \/ Feed!Reconnect(p) PROVE FeedIInv'
<1>1. /\ socket[p] = "closed" /\ socket' = [socket EXCEPT ![p] = "initial"]
      /\ missed' = [missed EXCEPT ![p] = {}]
      /\ UNCHANGED <<now, heard, round, initial, queue, paused>>
      /\ feed_shown' = [feed_shown EXCEPT ![p] = now] \/ UNCHANGED feed_shown
  BY DEF Feed!Load, Feed!Reconnect
<1>2. queue[p] = <<>> /\ initial[p] = <<>>
  BY <1>1 DEF FeedIInv, FeedQueuesKept, FeedInitialKept
<1>3. FeedPublisherKept' /\ FeedSocketsKept'
  BY <1>1 DEF FeedIInv, FeedPublisherKept, FeedSocketsKept
<1>4. \A r \in FeedPage : r # p => /\ socket'[r] = socket[r] /\ missed'[r] = missed[r]
                                   /\ feed_shown'[r] = feed_shown[r]
  BY <1>1 DEF FeedIInv, FeedSocketsKept, FeedShownKept
<1>5. FeedQueuesKept' /\ FeedInitialKept'
  BY <1>1, <1>2, <1>4 DEF FeedIInv, FeedQueuesKept, FeedInitialKept
<1>6. FeedShownKept'
  <2>1. now \in [Feed!Topic -> Nat] /\ FeedPast(now, now)
    BY FeedAssumption DEF FeedIInv, FeedPublisherKept, FeedPast
  <2> QED BY <1>1, <2>1 DEF FeedIInv, FeedShownKept
<1>7. FeedFramesKept'
  <2> SUFFICES ASSUME NEW r \in FeedPage, NEW u \in Frames, heard' # u
               PROVE  FeedCurrent(r, u)'
    BY DEF FeedFramesKept
  <2>1. CASE r = p
    BY <1>1, <1>2, <2>1, FeedNoInitial
       DEF FeedIInv, FeedSocketsKept, FeedCurrent, FeedLastTells
  <2>2. CASE r # p
    BY <1>1, <1>4, <2>2 DEF FeedIInv, FeedFramesKept, FeedCurrent
  <2> QED BY <2>1, <2>2
<1> QED BY <1>3, <1>5, <1>6, <1>7 DEF FeedIInv

LEMMA FeedBuildStep ==
  ASSUME FeedIInv, NEW p \in FeedPage, Feed!BuildInitial(p) PROVE FeedIInv'
<1>1. PICK t \in Feed!Topic \ DOMAIN initial[p] : Feed!Built(p, t)
  BY DEF Feed!BuildInitial
<1> DEFINE built == [u \in DOMAIN initial[p] \cup {t} |->
                       IF u = t THEN now[t] ELSE initial[p][u]]
<1>2. /\ socket[p] = "initial" /\ initial' = [initial EXCEPT ![p] = built]
      /\ UNCHANGED <<now, heard, round, socket, queue, paused, feed_shown, missed>>
  BY <1>1 DEF Feed!Built, Feed!BuildInitial
<1>3. /\ DOMAIN built = DOMAIN initial[p] \cup {t} /\ built[t] = now[t]
      /\ \A u \in DOMAIN initial[p] : built[u] = initial[p][u]
      /\ built = [u \in DOMAIN built |-> built[u]]
  BY <1>1
<1>4. now[t] \in Nat /\ FeedPast(initial[p], now)
  BY FeedAssumption DEF FeedIInv, FeedPublisherKept, FeedInitialKept
<1>5. /\ initial'[p] = built /\ initial' = [r \in FeedPage |-> initial'[r]]
      /\ \A r \in FeedPage : r # p => initial'[r] = initial[r]
  BY <1>2 DEF FeedIInv, FeedInitialKept
<1> HIDE DEF built
<1>6. FeedPast(built, now)
  BY <1>3, <1>4 DEF FeedPast
<1>7. FeedInitialKept'
  <2>1. DOMAIN built \subseteq Feed!Topic
    BY <1>3 DEF FeedIInv, FeedInitialKept
  <2> QED BY <1>2, <1>3, <1>5, <1>6, <2>1 DEF FeedIInv, FeedInitialKept
<1>8. FeedFramesKept'
  <2> SUFFICES ASSUME NEW r \in FeedPage, NEW u \in Frames, heard' # u
               PROVE  FeedCurrent(r, u)'
    BY DEF FeedFramesKept
  <2>1. FeedCurrent(r, u)
    BY <1>2 DEF FeedIInv, FeedFramesKept
  <2>2. CASE r = p /\ u # t
    BY <1>2, <1>3, <1>5, <2>1, <2>2 DEF FeedCurrent
  <2>3. CASE r = p /\ u = t
    BY <1>2, <1>3, <1>5, <2>1, <2>3 DEF FeedCurrent
  <2>4. CASE r # p
    BY <1>2, <1>5, <2>1, <2>4 DEF FeedCurrent
  <2> QED BY <2>2, <2>3, <2>4
<1> QED
  BY <1>2, <1>7, <1>8
     DEF FeedIInv, FeedPublisherKept, FeedSocketsKept, FeedQueuesKept, FeedShownKept

LEMMA FeedLiveStep ==
  ASSUME FeedIInv, NEW p \in FeedPage, Feed!GoLive(p) PROVE FeedIInv'
<1>1. /\ socket[p] = "initial" /\ DOMAIN initial[p] = Feed!Topic
      /\ socket' = [socket EXCEPT ![p] = "live"]
      /\ initial' = [initial EXCEPT ![p] = <<>>]
      /\ \/ missed' = [missed EXCEPT ![p] = Feed!Topic] /\ UNCHANGED feed_shown
         \/ feed_shown' = [feed_shown EXCEPT ![p] = initial[p]] /\ UNCHANGED missed
      /\ UNCHANGED <<now, heard, round, queue, paused>>
  BY DEF Feed!GoLive
<1>2. FeedPublisherKept' /\ FeedSocketsKept'
  BY <1>1 DEF FeedIInv, FeedPublisherKept, FeedSocketsKept
<1>3. /\ socket'[p] = "live" /\ initial'[p] = <<>>
      /\ initial' = [r \in FeedPage |-> initial'[r]]
      /\ \A r \in FeedPage : r # p => socket'[r] = socket[r] /\ initial'[r] = initial[r]
  BY <1>1 DEF FeedIInv, FeedSocketsKept, FeedInitialKept
<1>4. FeedInitialKept' /\ FeedQueuesKept'
  <2>1. FeedPast(<<>>, now)
    BY FeedNoInitial DEF FeedPast
  <2> QED
    BY <1>1, <1>3, <2>1, FeedNoInitial
       DEF FeedIInv, FeedInitialKept, FeedQueuesKept
<1>5. FeedShownKept'
  <2>1. initial[p] \in [Feed!Topic -> Nat] /\ FeedPast(initial[p], now)
    BY <1>1 DEF FeedIInv, FeedInitialKept, FeedPast
  <2> QED BY <1>1, <2>1 DEF FeedIInv, FeedShownKept
<1>6. FeedFramesKept'
  <2> SUFFICES ASSUME NEW r \in FeedPage, NEW u \in Frames, heard' # u
               PROVE  FeedCurrent(r, u)'
    BY DEF FeedFramesKept
  <2>1. FeedCurrent(r, u) /\ u \in Feed!Topic
    BY <1>1, FeedOrders DEF FeedIInv, FeedFramesKept
  <2>2. CASE r = p /\ missed' = [missed EXCEPT ![p] = Feed!Topic]
    BY <1>1, <2>1, <2>2 DEF FeedIInv, FeedSocketsKept, FeedCurrent
  <2>3. CASE r = p /\ feed_shown' = [feed_shown EXCEPT ![p] = initial[p]] /\ UNCHANGED missed
    <3>1. feed_shown'[p][u] = initial[p][u]
      BY <2>3 DEF FeedIInv, FeedShownKept
    <3> QED BY <1>1, <1>3, <2>1, <2>3, <3>1 DEF FeedCurrent
  <2>4. CASE r # p
    <3>1. feed_shown'[r] = feed_shown[r] /\ missed'[r] = missed[r]
      BY <1>1, <2>4 DEF FeedIInv, FeedShownKept, FeedSocketsKept
    <3> QED BY <1>1, <1>3, <2>1, <2>4, <3>1 DEF FeedCurrent
  <2> QED BY <1>1, <2>2, <2>3, <2>4
<1> QED BY <1>2, <1>4, <1>5, <1>6 DEF FeedIInv

\* The page shows the event, or misses it while it is paused.
LEMMA FeedSendStep ==
  ASSUME FeedIInv, NEW p \in FeedPage, Feed!SendEvent(p) PROVE FeedIInv'
<1> DEFINE q == queue[p]
           t == Head(q).topic
           n == Head(q).state
<1>1. /\ socket[p] = "live" /\ q # <<>> /\ queue' = [queue EXCEPT ![p] = Tail(q)]
      /\ \/ missed' = [missed EXCEPT ![p] = @ \cup {t}] /\ UNCHANGED feed_shown
         \/ feed_shown' = [feed_shown EXCEPT ![p][t] = n] /\ missed' = [missed EXCEPT ![p] = @ \ {t}]
      /\ UNCHANGED <<now, heard, round, socket, initial, paused>>
  BY DEF Feed!SendEvent, Feed!Receive
<1>2. q \in Seq(FeedEvent) /\ Len(q) <= FeedCapacity /\ FeedPastEvents(q, now)
  BY DEF FeedIInv, FeedQueuesKept
<1>3. /\ Head(q) = q[1] /\ Head(q) \in FeedEvent /\ Tail(q) \in Seq(FeedEvent)
      /\ 1 \in 1..Len(q)
      /\ Len(Tail(q)) = Len(q) - 1 /\ Len(q) \in Nat
      /\ \A i \in 1..Len(Tail(q)) : Tail(q)[i] = q[i + 1] /\ i + 1 \in 1..Len(q)
      /\ \A i \in 1..Len(q) :
           i = 1 \/ (i - 1 \in 1..Len(Tail(q)) /\ Tail(q)[i - 1] = q[i])
  BY <1>1, <1>2
<1>4. t \in Feed!Topic /\ n \in Nat /\ n <= now[t]
  BY <1>2, <1>3 DEF FeedEvent, FeedPastEvents
<1>5. queue'[p] = Tail(q) /\ \A r \in FeedPage : r # p => queue'[r] = queue[r]
  BY <1>1 DEF FeedIInv, FeedQueuesKept
<1> HIDE DEF q, t, n
<1>6. FeedPublisherKept' /\ FeedSocketsKept'
  BY <1>1, <1>4 DEF FeedIInv, FeedPublisherKept, FeedSocketsKept
<1>7. FeedQueuesKept'
  <2>1. FeedPastEvents(Tail(q), now)
    BY <1>2, <1>3 DEF FeedPastEvents
  <2>2. queue' \in [FeedPage -> Seq(FeedEvent)]
    BY <1>1, <1>3 DEF FeedIInv, FeedQueuesKept
  <2>3. Len(Tail(q)) <= FeedCapacity
    BY <1>2, <1>3, FeedAssumption
  <2> QED BY <1>1, <1>5, <2>1, <2>2, <2>3 DEF FeedIInv, FeedQueuesKept
<1>8. FeedInitialKept'
  BY <1>1 DEF FeedIInv, FeedInitialKept
<1>9. FeedShownKept'
  <2>1. CASE UNCHANGED feed_shown
    BY <1>1, <2>1 DEF FeedIInv, FeedShownKept
  <2>2. CASE feed_shown' = [feed_shown EXCEPT ![p][t] = n]
    <3>1. feed_shown[p] \in [Feed!Topic -> Nat] /\ FeedPast(feed_shown[p], now)
      BY DEF FeedIInv, FeedShownKept
    <3>2. /\ feed_shown' = [feed_shown EXCEPT ![p] = [feed_shown[p] EXCEPT ![t] = n]]
          /\ [feed_shown[p] EXCEPT ![t] = n] \in [Feed!Topic -> Nat]
          /\ FeedPast([feed_shown[p] EXCEPT ![t] = n], now)
      BY <1>4, <2>2, <3>1 DEF FeedPast
    <3> QED BY <1>1, <3>2 DEF FeedIInv, FeedShownKept
  <2> QED BY <1>1, <2>1, <2>2
<1>10. FeedFramesKept'
  <2> SUFFICES ASSUME NEW r \in FeedPage, NEW u \in Frames, heard' # u
               PROVE  FeedCurrent(r, u)'
    BY DEF FeedFramesKept
  <2>1. FeedCurrent(r, u) /\ u \in Feed!Topic
    BY <1>1, FeedOrders DEF FeedIInv, FeedFramesKept
  <2>2. CASE r # p
    <3>1. feed_shown'[r] = feed_shown[r] /\ missed'[r] = missed[r]
      BY <1>1, <2>2 DEF FeedIInv, FeedShownKept, FeedSocketsKept
    <3> QED BY <1>1, <1>5, <2>1, <2>2, <3>1 DEF FeedCurrent
  <2>3. CASE r = p
    <3>1. FeedLastTells(q, u, now[u])
      BY <2>1, <2>3 DEF FeedCurrent, q
    <3>2. FeedLastTells(Tail(q), u, now[u])
      <4> SUFFICES ASSUME NEW i \in 1..Len(Tail(q)), Tail(q)[i].topic = u,
                          \A j \in 1..Len(Tail(q)) : j > i => Tail(q)[j].topic # u
                   PROVE  Tail(q)[i].state = now[u]
        BY DEF FeedLastTells
      <4>1. Tail(q)[i] = q[i + 1] /\ i + 1 \in 1..Len(q)
        BY <1>3
      <4>2. ASSUME NEW j \in 1..Len(q), j > i + 1 PROVE q[j].topic # u
        <5>1. j # 1 /\ j - 1 > i
          BY <4>2
        <5>2. j - 1 \in 1..Len(Tail(q)) /\ Tail(q)[j - 1] = q[j]
          BY <1>3, <5>1
        <5> QED BY <5>1, <5>2
      <4> QED BY <3>1, <4>1, <4>2 DEF FeedLastTells
    <3>3. ASSUME FeedAbsent(Tail(q), u), u \notin missed'[p]
          PROVE  feed_shown'[p][u] = now[u]
      <4>1. CASE u = t
        <5>1. feed_shown' = [feed_shown EXCEPT ![p][t] = n]
          BY <1>1, <1>4, <3>3, <4>1 DEF FeedIInv, FeedSocketsKept
        <5>2. ASSUME NEW j \in 1..Len(q), j > 1 PROVE q[j].topic # u
          <6>1. j - 1 \in 1..Len(Tail(q)) /\ Tail(q)[j - 1] = q[j]
            BY <1>3, <5>2
          <6> QED BY <3>3, <6>1 DEF FeedAbsent
        <5>3. n = now[u]
          BY <1>3, <3>1, <4>1, <5>2 DEF FeedLastTells, t, n
        <5> QED BY <1>4, <4>1, <5>1, <5>3 DEF FeedIInv, FeedShownKept
      <4>2. CASE u # t
        <5>1. u \notin missed[p]
          BY <1>1, <3>3, <4>2 DEF FeedIInv, FeedSocketsKept
        <5>2. FeedAbsent(q, u)
          BY <1>3, <3>3, <4>2 DEF FeedAbsent, t
        <5>3. feed_shown[p][u] = now[u]
          BY <1>1, <2>1, <2>3, <5>1, <5>2 DEF FeedCurrent, q
        <5> QED BY <1>1, <2>1, <4>2, <5>3 DEF FeedIInv, FeedShownKept
      <4> QED BY <4>1, <4>2
    <3> QED BY <1>1, <1>5, <2>3, <3>2, <3>3 DEF FeedCurrent
  <2> QED BY <2>2, <2>3
<1> QED BY <1>6, <1>7, <1>8, <1>9, <1>10 DEF FeedIInv

LEMMA FeedBreakStep ==
  ASSUME FeedIInv, NEW p \in FeedPage, Feed!Break(p) \/ Feed!Pause(p) PROVE FeedIInv'
<1>1. CASE Feed!Break(p)
  <2>1. /\ socket' = [socket EXCEPT ![p] = "closed"] /\ initial' = [initial EXCEPT ![p] = <<>>]
        /\ queue' = [queue EXCEPT ![p] = <<>>]
        /\ UNCHANGED <<now, heard, round, paused, feed_shown, missed>>
    BY <1>1 DEF Feed!Break
  <2>2. /\ socket'[p] = "closed" /\ initial'[p] = <<>> /\ queue'[p] = <<>>
        /\ initial' = [r \in FeedPage |-> initial'[r]]
        /\ queue' \in [FeedPage -> Seq(FeedEvent)]
        /\ \A r \in FeedPage : r # p => /\ socket'[r] = socket[r] /\ initial'[r] = initial[r]
                                        /\ queue'[r] = queue[r]
    BY <2>1 DEF FeedIInv, FeedSocketsKept, FeedInitialKept, FeedQueuesKept
  <2>3. FeedPublisherKept' /\ FeedSocketsKept' /\ FeedShownKept'
    BY <2>1 DEF FeedIInv, FeedPublisherKept, FeedSocketsKept, FeedShownKept
  <2>4. FeedInitialKept'
    BY <2>1, <2>2, FeedNoInitial DEF FeedIInv, FeedInitialKept, FeedPast
  <2>5. FeedQueuesKept'
    BY <2>1, <2>2, FeedAssumption DEF FeedIInv, FeedQueuesKept, FeedPastEvents
  <2>6. FeedFramesKept'
    <3> SUFFICES ASSUME NEW r \in FeedPage, NEW u \in Frames, heard' # u
                 PROVE  FeedCurrent(r, u)'
      BY DEF FeedFramesKept
    <3>1. CASE r = p
      BY <2>2, <3>1 DEF FeedCurrent, FeedLastTells
    <3>2. CASE r # p
      BY <2>1, <2>2, <3>2 DEF FeedIInv, FeedFramesKept, FeedCurrent
    <3> QED BY <3>1, <3>2
  <2> QED BY <2>3, <2>4, <2>5, <2>6 DEF FeedIInv
<1>2. CASE Feed!Pause(p)
  <2>1. /\ paused' = [paused EXCEPT ![p] = ~@]
        /\ UNCHANGED <<now, heard, round, socket, initial, queue, feed_shown, missed>>
    BY <1>2 DEF Feed!Pause
  <2>2. FeedSocketsKept'
    BY <2>1 DEF FeedIInv, FeedSocketsKept
  <2> QED BY <2>1, <2>2 DEF FeedIInv, FeedPublisherKept, FeedQueuesKept, FeedInitialKept,
                          FeedShownKept,
                          FeedFramesKept, FeedCurrent
<1> QED BY <1>1, <1>2

LEMMA FeedInvariantStep == FeedIInv /\ [Feed!Next]_(Feed!vars) => FeedIInv'
<1>1. ASSUME FeedIInv, UNCHANGED Feed!vars PROVE FeedIInv'
  BY <1>1
     DEF Feed!vars, FeedIInv, FeedPublisherKept, FeedSocketsKept, FeedQueuesKept,
         FeedInitialKept, FeedShownKept, 
              FeedFramesKept, FeedCurrent
<1>2. ASSUME FeedIInv, NEW t \in Frames, Feed!Hear(t) PROVE FeedIInv'
  <2>1. t \in Feed!Topic
    BY FeedOrders
  <2>2. (t \in Frames /\ Feed!Hear(t)) \/ (t \notin Frames /\ Feed!Change(t))
    BY <1>2
  <2> QED BY <1>2, <2>1, <2>2, FeedChangeStep
<1>3. ASSUME FeedIInv, NEW t \in Feed!Topic \ Frames, Feed!Change(t) PROVE FeedIInv'
  BY <1>3, FeedChangeStep
<1>4. ASSUME FeedIInv, Feed!PublishFrames \/ Feed!Tick \/ Feed!PublishPeriodic
      PROVE  FeedIInv'
  BY <1>4, FeedPublisherStep
<1>5. ASSUME FeedIInv, NEW p \in FeedPage,
             \/ Feed!Load(p)
             \/ Feed!Reconnect(p)
             \/ Feed!BuildInitial(p)
             \/ Feed!GoLive(p)
             \/ Feed!SendEvent(p) \/ Feed!Break(p) \/ Feed!Pause(p)
      PROVE  FeedIInv'
  BY <1>5, FeedOpenStep, FeedBuildStep, FeedLiveStep, FeedSendStep, FeedBreakStep
<1> QED BY <1>1, <1>2, <1>3, <1>4, <1>5 DEF Feed!Next

LEMMA FeedKept == FeedIInv => Feed!TypeOK /\ Feed!FramesCatchUp
<1> SUFFICES ASSUME FeedIInv PROVE Feed!TypeOK /\ Feed!FramesCatchUp
  OBVIOUS
<1>1. \A p \in FeedPage, t \in Feed!Topic : feed_shown[p][t] <= now[t]
  BY DEF FeedIInv, FeedShownKept, FeedPast
<1>2. Feed!TypeOK
  BY <1>1
     DEF FeedIInv, FeedPublisherKept, FeedSocketsKept, FeedQueuesKept, FeedInitialKept,
         Feed!TypeOK
<1>3. Feed!FramesCatchUp
  BY DEF FeedIInv, FeedFramesKept, FeedCurrent, FeedAbsent, Feed!FramesCatchUp
<1> QED BY <1>2, <1>3

-----------------------------------------------------------------------------
(* The Reticulum tracker (gateway_reticulum.rs).  What the table says of a     *)
(* link, the event taken for it and the events still in the channel are, each  *)
(* until the next, the last that happened to it.                               *)

TrackerMade == [peer : TrackerPeer, dir : Tracker!Direction, open : BOOLEAN]
TrackerEvent == [link : Tracker!Link, kind : Tracker!Kind]

\* An event of a link of a direction.
TrackerEventOf(made, d, e) == /\ e \in TrackerEvent /\ e.link \in 1..Len(made)
                              /\ made[e.link].dir = d

TrackerTypesKept ==
  /\ links \in Seq(TrackerMade) /\ Len(links) <= MaxLinks
  /\ tracker_current \in [Tracker!Direction \X TrackerPeer -> Tracker!Link \cup {None}]
  /\ tracker_channel \in [Tracker!Direction -> Seq(TrackerEvent)]
  /\ taken \in [Tracker!Direction -> TrackerEvent \cup {None}]
  /\ found \in [Tracker!Direction -> Tracker!Link \cup {None}]
  /\ lost \subseteq Tracker!Link /\ mixed \subseteq Tracker!Link
  /\ last \in [Tracker!Link -> Tracker!Kind \cup {None}]
TrackerTableKept ==
  /\ tracker_table = [d \in Tracker!Direction |-> tracker_table[d]]
  /\ \A d \in Tracker!Direction : /\ DOMAIN tracker_table[d] \subseteq Tracker!Link
                                  /\ \A l \in DOMAIN tracker_table[d] :
                                       tracker_table[d][l] \in Tracker!Entry
TrackerChannelKept == \A d \in Tracker!Direction : Len(tracker_channel[d]) <= TrackerCapacity
TrackerEventsKept ==
  /\ \A d \in Tracker!Direction :
       \A i \in 1..Len(tracker_channel[d]) :
         TrackerEventOf(links, d, tracker_channel[d][i])
  /\ \A d \in Tracker!Direction : taken[d] # None => TrackerEventOf(links, d, taken[d])
  /\ \A d \in Tracker!Direction : found[d] # None => taken[d] # None
  /\ \A l \in Tracker!Link : last[l] # None => l \in 1..Len(links)

\* An event says of a link what it is.
TrackerSays(made, kind, l) == kind = "closed" <=> ~made[l].open

TrackerAbsent(q, l) == \A i \in 1..Len(q) : q[i].link # l

\* The last event of a link in a queue says what the link is.
TrackerQueueTells(made, q) ==
  \A i \in 1..Len(q) :
    (\A j \in 1..Len(q) : j > i => q[j].link # q[i].link) =>
      TrackerSays(made, q[i].kind, q[i].link)

\* So does the event in hand when no other follows it, and so does the entry
\* when all are handled.
TrackerChannelTells == \A d \in Tracker!Direction : TrackerQueueTells(links, tracker_channel[d])
TrackerTakenTells ==
  \A d \in Tracker!Direction :
    taken[d] # None /\ taken[d].link \notin lost /\ TrackerAbsent(tracker_channel[d], taken[d].link) =>
      TrackerSays(links, taken[d].kind, taken[d].link)
TrackerSettled(d, l) == /\ last[l] # None /\ l \notin lost \cup mixed
                        /\ TrackerAbsent(tracker_channel[d], l)
                        /\ (taken[d] = None \/ taken[d].link # l)
TrackerEntered(made, entries, l) ==
  /\ l \in DOMAIN entries
  /\ TrackerSays(made, entries[l].status, l)
TrackerTableTells ==
  \A d \in Tracker!Direction : \A l \in 1..Len(links) :
    links[l].dir = d /\ TrackerSettled(d, l) => TrackerEntered(links, tracker_table[d], l)

TrackerIInv == /\ TrackerTypesKept /\ TrackerTableKept /\ TrackerChannelKept /\ TrackerEventsKept
               /\ TrackerChannelTells /\ TrackerTakenTells /\ TrackerTableTells

LEMMA TrackerInitInvariant == Tracker!Init => TrackerIInv
<1> SUFFICES ASSUME Tracker!Init PROVE TrackerIInv
  OBVIOUS
<1>1. TrackerTypesKept /\ TrackerChannelKept /\ TrackerEventsKept
  BY TrackerAssumption
     DEF Tracker!Init, TrackerTypesKept, TrackerChannelKept, TrackerEventsKept
<1>2. TrackerTableKept
  BY DEF Tracker!Init, TrackerTableKept
<1>3. TrackerChannelTells /\ TrackerTakenTells /\ TrackerTableTells
  BY DEF Tracker!Init, TrackerChannelTells, TrackerQueueTells, TrackerTakenTells,
         TrackerTableTells
<1> QED BY <1>1, <1>2, <1>3 DEF TrackerIInv

LEMMA TrackerMakeStep ==
  ASSUME TrackerIInv, NEW d \in Tracker!Direction, NEW p \in TrackerPeer,
         Tracker!MakeLink(d, p)
  PROVE  TrackerIInv'
<1> DEFINE new == [peer |-> p, dir |-> d, open |-> TRUE]
<1>1. /\ Len(links) < MaxLinks /\ links' = Append(links, new)
      /\ tracker_current' = [tracker_current EXCEPT ![<<d, p>>] = Len(links) + 1]
      /\ UNCHANGED <<tracker_channel, lost, taken, found, tracker_table, mixed, last, events>>
  BY DEF Tracker!MakeLink, Tracker!tracker
<1>2. /\ new \in TrackerMade
      /\ links \in Seq(TrackerMade)
      /\ Len(links) + 1 \in Tracker!Link
  BY <1>1, TrackerAssumption
     DEF TrackerMade, TrackerIInv, TrackerTypesKept, Tracker!Link
<1> HIDE DEF new
<1>3. /\ links' \in Seq(TrackerMade) /\ Len(links') = Len(links) + 1
      /\ \A l \in 1..Len(links) : links'[l] = links[l] /\ l \in 1..Len(links')
  BY <1>1, <1>2
<1>4. TrackerTypesKept' /\ TrackerTableKept' /\ TrackerChannelKept'
  BY <1>1, <1>2, <1>3, TrackerAssumption
     DEF TrackerIInv, TrackerTypesKept, TrackerTableKept, TrackerChannelKept
<1>5. \A c \in Tracker!Direction : \A e : TrackerEventOf(links, c, e) =>
        TrackerEventOf(links', c, e)
  BY <1>3 DEF TrackerEventOf
<1>6. TrackerEventsKept'
  BY <1>1, <1>3, <1>5 DEF TrackerIInv, TrackerEventsKept
<1>7. \A k : \A l \in 1..Len(links) : TrackerSays(links, k, l) =>
        TrackerSays(links', k, l)
  BY <1>3 DEF TrackerSays
<1>8. TrackerChannelTells'
  BY <1>1, <1>7
     DEF TrackerIInv, TrackerEventsKept, TrackerEventOf, TrackerChannelTells,
         TrackerQueueTells
<1>9. TrackerTakenTells'
  BY <1>1, <1>7 DEF TrackerIInv, TrackerEventsKept, TrackerEventOf, TrackerTakenTells
<1>10. ASSUME NEW c \in Tracker!Direction, NEW l \in 1..Len(links'), links'[l].dir = c,
              TrackerSettled(c, l)'
       PROVE  TrackerEntered(links', tracker_table'[c], l)
  <2>1. l \in Tracker!Link /\ last[l] # None
    BY <1>1, <1>2, <1>3, <1>10, TrackerAssumption DEF TrackerSettled, Tracker!Link
  <2>2. l \in 1..Len(links)
    BY <2>1 DEF TrackerIInv, TrackerEventsKept
  <2>3. TrackerSettled(c, l) /\ links[l].dir = c
    BY <1>1, <1>3, <1>10, <2>2 DEF TrackerSettled
  <2> QED BY <1>1, <1>7, <2>2, <2>3 DEF TrackerIInv, TrackerTableTells, TrackerEntered
<1> QED BY <1>4, <1>6, <1>8, <1>9, <1>10 DEF TrackerIInv, TrackerTableTells

LEMMA TrackerDropStep ==
  ASSUME TrackerIInv, NEW d \in Tracker!Direction, NEW p \in TrackerPeer,
         Tracker!Drop(d, p)
  PROVE  TrackerIInv'
<1>1. /\ tracker_current' = [tracker_current EXCEPT ![<<d, p>>] = None]
      /\ UNCHANGED <<links, tracker_channel, lost, taken, found, tracker_table, mixed,
                     last, events>>
  BY DEF Tracker!Drop, Tracker!tracker
<1>2. TrackerTypesKept'
  BY <1>1 DEF TrackerIInv, TrackerTypesKept
<1> QED BY <1>1, <1>2 DEF TrackerIInv, TrackerTableKept, TrackerChannelKept,
                          TrackerEventsKept, TrackerChannelTells, TrackerTakenTells,
                          TrackerTableTells, TrackerSettled

\* An event of link l is put into a queue, which may lose its first.
TrackerTakes(q, e, r, dropped, made, before) ==
  /\ q \in Seq(TrackerEvent) /\ e \in TrackerEvent /\ r \in Seq(TrackerEvent)
  /\ \/ r = Append(q, e) /\ dropped = {}
     \/ r = Tail(Append(q, e)) /\ dropped = {Head(Append(q, e)).link}
  /\ TrackerQueueTells(before, q) /\ TrackerSays(made, e.kind, e.link)
  /\ \A l : l # e.link => made[l] = before[l]
LEMMA TrackerQueued ==
  ASSUME NEW q, NEW e, NEW r, NEW dropped, NEW made, NEW before,
         TrackerTakes(q, e, r, dropped, made, before)
  PROVE  /\ TrackerQueueTells(made, r)
         /\ \A l : l \notin dropped /\ TrackerAbsent(r, l) =>
              l # e.link /\ TrackerAbsent(q, l)
<1> DEFINE a == Append(q, e)
<1>q. /\ q \in Seq(TrackerEvent) /\ e \in TrackerEvent /\ r \in Seq(TrackerEvent)
      /\ (r = a /\ dropped = {}) \/ (r = Tail(a) /\ dropped = {Head(a).link})
      /\ TrackerQueueTells(before, q) /\ TrackerSays(made, e.kind, e.link)
      /\ \A l : l # e.link => made[l] = before[l]
  BY DEF TrackerTakes
<1>1. /\ a \in Seq(TrackerEvent) /\ Len(a) = Len(q) + 1 /\ a[Len(q) + 1] = e
      /\ \A i \in 1..Len(q) : a[i] = q[i] /\ i \in 1..Len(a)
      /\ \A i \in 1..Len(a) : i \in 1..Len(q) \/ i = Len(q) + 1
      /\ Len(q) + 1 \in 1..Len(a) /\ Len(q) \in Nat
  BY <1>q
<1>2. TrackerQueueTells(made, a)
  <2> SUFFICES ASSUME NEW i \in 1..Len(a),
                      \A j \in 1..Len(a) : j > i => a[j].link # a[i].link
               PROVE  TrackerSays(made, a[i].kind, a[i].link)
    BY DEF TrackerQueueTells
  <2>1. CASE i = Len(q) + 1
    BY <1>1, <1>q, <2>1
  <2>2. CASE i \in 1..Len(q)
    <3>1. a[i] = q[i] /\ q[i].link # e.link
      BY <1>1, <2>2
    <3>2. \A j \in 1..Len(q) : j > i => q[j].link # q[i].link
      BY <1>1, <2>2
    <3>3. TrackerSays(before, q[i].kind, q[i].link)
      BY <1>q, <2>2, <3>2 DEF TrackerQueueTells
    <3> QED BY <1>q, <3>1, <3>3 DEF TrackerSays
  <2> QED BY <1>1, <2>1, <2>2
<1>3. \A l : TrackerAbsent(a, l) => l # e.link /\ TrackerAbsent(q, l)
  BY <1>1 DEF TrackerAbsent
<1> HIDE DEF a
<1>4. CASE r = a /\ dropped = {}
  BY <1>2, <1>3, <1>4
<1>5. CASE r = Tail(a) /\ dropped = {Head(a).link}
  <2>1. /\ Head(a) = a[1] /\ Len(r) = Len(a) - 1
        /\ \A i \in 1..Len(r) : r[i] = a[i + 1] /\ i + 1 \in 1..Len(a)
        /\ \A i \in 1..Len(a) : i = 1 \/ (i - 1 \in 1..Len(r) /\ r[i - 1] = a[i])
    BY <1>1, <1>5
  <2>2. TrackerQueueTells(made, r)
    <3> SUFFICES ASSUME NEW i \in 1..Len(r),
                        \A j \in 1..Len(r) : j > i => r[j].link # r[i].link
                 PROVE  TrackerSays(made, r[i].kind, r[i].link)
      BY DEF TrackerQueueTells
    <3>1. r[i] = a[i + 1] /\ i + 1 \in 1..Len(a)
      BY <2>1
    <3>2. ASSUME NEW j \in 1..Len(a), j > i + 1 PROVE a[j].link # a[i + 1].link
      <4>1. j # 1 /\ j - 1 > i
        BY <3>2
      <4>2. j - 1 \in 1..Len(r) /\ r[j - 1] = a[j]
        BY <2>1, <4>1
      <4> QED BY <3>1, <4>1, <4>2
    <3> QED BY <1>2, <3>1, <3>2 DEF TrackerQueueTells
  <2>3. ASSUME NEW l, l # Head(a).link, TrackerAbsent(r, l) PROVE TrackerAbsent(a, l)
    <3> SUFFICES ASSUME NEW i \in 1..Len(a) PROVE a[i].link # l
      BY DEF TrackerAbsent
    <3>1. CASE i = 1
      BY <2>1, <2>3, <3>1
    <3>2. CASE i # 1
      <4>1. i - 1 \in 1..Len(r) /\ r[i - 1] = a[i]
        BY <2>1, <3>2
      <4> QED BY <2>3, <4>1 DEF TrackerAbsent
    <3> QED BY <3>1, <3>2
  <2> QED BY <1>3, <1>5, <2>2, <2>3
<1> QED BY <1>4, <1>5, <1>q

\* A link has an event, its last when it closes: everything that tells of other
\* links tells what it told, and of this one the event tells.
LEMMA TrackerEmitStep ==
  ASSUME TrackerIInv, NEW l \in Tracker!Link, l <= Len(links), links[l].open,
         NEW kind \in Tracker!Kind,
         Tracker!Emit(l, kind), UNCHANGED <<tracker_current, Tracker!tracker>>,
         \/ kind # "closed" /\ UNCHANGED links
         \/ kind = "closed" /\ links' = [links EXCEPT ![l].open = FALSE]
  PROVE  TrackerIInv'
<1> DEFINE d == links[l].dir
           e == [link |-> l, kind |-> kind]
           q == tracker_channel[d]
           dropped == IF Len(Append(q, e)) > TrackerCapacity THEN {Head(Append(q, e)).link} ELSE {}
<1>1. l \in 1..Len(links) /\ links \in Seq(TrackerMade) /\ links[l] \in TrackerMade
  BY DEF TrackerIInv, TrackerTypesKept, Tracker!Link
<1>2. /\ d \in Tracker!Direction /\ e \in TrackerEvent /\ q \in Seq(TrackerEvent)
      /\ e.link = l /\ e.kind = kind
      /\ Len(q) <= TrackerCapacity
  BY <1>1
     DEF TrackerMade, TrackerEvent, TrackerIInv, TrackerTypesKept, TrackerChannelKept
<1>3. /\ tracker_channel' = [tracker_channel EXCEPT ![d] = tracker_channel'[d]]
      /\ \/ tracker_channel'[d] = Append(q, e) /\ dropped = {} /\ Len(Append(q, e)) <= TrackerCapacity
         \/ tracker_channel'[d] = Tail(Append(q, e)) /\ dropped = {Head(Append(q, e)).link}
      /\ lost' = lost \cup dropped
  <2> DEFINE a == Append(q, e)
  <2>1. /\ Len(a) > TrackerCapacity => /\ tracker_channel' = [tracker_channel EXCEPT ![d] = Tail(a)]
                                       /\ lost' = lost \cup {Head(a).link}
        /\ ~(Len(a) > TrackerCapacity) =>
             tracker_channel' = [tracker_channel EXCEPT ![d] = a] /\ lost' = lost
    BY DEF Tracker!Emit
  <2>2. Len(a) \in Nat /\ d \in DOMAIN tracker_channel
    BY <1>2 DEF TrackerIInv, TrackerTypesKept
  <2>3. CASE Len(a) > TrackerCapacity
    <3>1. dropped = {Head(a).link}
      BY <2>3
    <3> HIDE DEF a, dropped
    <3>2. /\ tracker_channel' = [tracker_channel EXCEPT ![d] = Tail(a)]
          /\ lost' = lost \cup dropped
      BY <2>1, <2>3, <3>1
    <3> QED BY <2>2, <3>1, <3>2 DEF a
  <2>4. CASE ~(Len(a) > TrackerCapacity)
    <3>1. dropped = {} /\ Len(a) <= TrackerCapacity
      BY <2>2, <2>4, TrackerAssumption
    <3> HIDE DEF a, dropped
    <3>2. /\ tracker_channel' = [tracker_channel EXCEPT ![d] = a]
          /\ lost' = lost \cup dropped
      BY <2>1, <2>4, <3>1
    <3> QED BY <2>2, <3>1, <3>2 DEF a
  <2> QED BY <2>3, <2>4
<1>4. /\ links' \in Seq(TrackerMade) /\ Len(links') = Len(links)
      /\ \A k \in 1..Len(links) : links'[k].dir = links[k].dir
      /\ \A k : k # l => links'[k] = links[k]
      /\ TrackerSays(links', kind, l)
  <2>1. CASE kind # "closed" /\ UNCHANGED links
    BY <1>1, <2>1 DEF TrackerSays
  <2>2. CASE kind = "closed" /\ links' = [links EXCEPT ![l].open = FALSE]
    <3>1. [links[l] EXCEPT !.open = FALSE] \in TrackerMade
      BY <1>1 DEF TrackerMade
    <3>2. links' = [links EXCEPT ![l] = [links[l] EXCEPT !.open = FALSE]]
      BY <1>1, <2>2
    <3>3. links' \in Seq(TrackerMade) /\ Len(links') = Len(links)
      BY <1>1, <3>1, <3>2
    <3>4. ~links'[l].open /\ links'[l].dir = links[l].dir
      BY <1>1, <3>2 DEF TrackerMade
    <3>5. \A k : k # l => links'[k] = links[k]
      BY <1>1, <3>2
    <3> QED BY <2>2, <3>3, <3>4, <3>5 DEF TrackerSays
  <2> QED BY <2>1, <2>2
<1> HIDE DEF d, e, dropped
<1>5. tracker_channel'[d] \in Seq(TrackerEvent)
      /\ Len(tracker_channel'[d]) <= TrackerCapacity /\ dropped \subseteq Tracker!Link
  <2>1. Append(q, e) \in Seq(TrackerEvent) /\ Append(q, e) # <<>>
        /\ Len(Append(q, e)) = Len(q) + 1
    BY <1>2
  <2>2. /\ Tail(Append(q, e)) \in Seq(TrackerEvent) /\ Len(Tail(Append(q, e))) = Len(q)
        /\ Head(Append(q, e)) \in TrackerEvent
    BY <2>1
  <2> QED BY <1>2, <1>3, <2>1, <2>2 DEF TrackerEvent
<1>6. /\ TrackerQueueTells(links', tracker_channel'[d])
      /\ \A k : k \notin dropped /\ TrackerAbsent(tracker_channel'[d], k) =>
           k # l /\ TrackerAbsent(q, k)
  <2>1. TrackerQueueTells(links, q)
    BY <1>2 DEF TrackerIInv, TrackerChannelTells
  <2>2. TrackerTakes(q, e, tracker_channel'[d], dropped, links', links)
    BY <1>2, <1>3, <1>4, <1>5, <2>1 DEF TrackerTakes
  <2> QED BY <1>2, <2>2, TrackerQueued
<1>7. \A c \in Tracker!Direction : c # d => tracker_channel'[c] = tracker_channel[c]
  <2>1. PICK r : tracker_channel' = [tracker_channel EXCEPT ![d] = r]
    BY <1>3
  <2> QED BY <2>1 DEF TrackerIInv, TrackerTypesKept
<1>8. UNCHANGED <<taken, found, tracker_table, mixed, last, tracker_current>>
  BY DEF Tracker!tracker
<1>9. TrackerTypesKept' /\ TrackerTableKept' /\ TrackerChannelKept'
  <2>1. tracker_channel' \in [Tracker!Direction -> Seq(TrackerEvent)]
    BY <1>2, <1>3, <1>5 DEF TrackerIInv, TrackerTypesKept
  <2>2. lost' \subseteq Tracker!Link
    BY <1>3, <1>5 DEF TrackerIInv, TrackerTypesKept
  <2>3. TrackerTypesKept'
    BY <1>4, <1>8, <2>1, <2>2 DEF TrackerIInv, TrackerTypesKept
  <2>4. TrackerTableKept'
    BY <1>8 DEF TrackerIInv, TrackerTableKept
  <2>5. TrackerChannelKept'
    BY <1>5, <1>7 DEF TrackerIInv, TrackerChannelKept
  <2> QED BY <2>3, <2>4, <2>5
<1>10. \A c \in Tracker!Direction : \A f : TrackerEventOf(links, c, f) =>
         TrackerEventOf(links', c, f)
  BY <1>4 DEF TrackerEventOf
<1>11. \A i \in 1..Len(tracker_channel'[d]) : TrackerEventOf(links', d, tracker_channel'[d][i])
  <2>1. TrackerEventOf(links', d, e)
    BY <1>1, <1>2, <1>4 DEF TrackerEventOf, d
  <2>2. \A i \in 1..Len(q) : TrackerEventOf(links', d, q[i])
    BY <1>2, <1>10 DEF TrackerIInv, TrackerEventsKept
  <2>3. /\ Append(q, e) \in Seq(TrackerEvent) /\ Len(Append(q, e)) = Len(q) + 1
        /\ \A i \in 1..Len(Append(q, e)) : TrackerEventOf(links', d, Append(q, e)[i])
    BY <1>2, <2>1, <2>2
  <2>4. /\ Len(Tail(Append(q, e))) = Len(q)
        /\ \A i \in 1..Len(q) : Tail(Append(q, e))[i] = Append(q, e)[i + 1]
    BY <1>2
  <2>5. CASE tracker_channel'[d] = Append(q, e)
    BY <2>3, <2>5
  <2>6. CASE tracker_channel'[d] = Tail(Append(q, e))
    <3> SUFFICES ASSUME NEW i \in 1..Len(q)
                 PROVE  TrackerEventOf(links', d, tracker_channel'[d][i])
      BY <2>4, <2>6
    <3>1. i + 1 \in 1..Len(Append(q, e))
      BY <1>2, <2>3
    <3> QED BY <2>3, <2>4, <2>6, <3>1
  <2> QED BY <1>3, <2>5, <2>6
<1>12. TrackerEventsKept'
  BY <1>4, <1>7, <1>8, <1>10, <1>11 DEF TrackerIInv, TrackerEventsKept
<1>13. \A k, m : m # l /\ TrackerSays(links, k, m) => TrackerSays(links', k, m)
  BY <1>4 DEF TrackerSays
<1>14. ASSUME NEW c \in Tracker!Direction, c # d, NEW f, TrackerEventOf(links, c, f)
       PROVE  f.link # l
  BY <1>14 DEF TrackerEventOf, d
<1>15. TrackerChannelTells'
  <2>1. ASSUME NEW c \in Tracker!Direction, c # d
        PROVE  TrackerQueueTells(links', tracker_channel'[c])
    BY <1>7, <1>13, <1>14, <2>1
       DEF TrackerIInv, TrackerEventsKept, TrackerChannelTells, TrackerQueueTells
  <2> QED BY <1>6, <2>1 DEF TrackerChannelTells
<1>16. TrackerTakenTells'
  <2> SUFFICES ASSUME NEW c \in Tracker!Direction, taken[c] # None,
                      taken[c].link \notin lost',
                      TrackerAbsent(tracker_channel'[c], taken[c].link)
               PROVE  TrackerSays(links', taken[c].kind, taken[c].link)
    BY <1>8 DEF TrackerTakenTells
  <2>1. taken[c].link # l /\ TrackerAbsent(tracker_channel[c], taken[c].link)
    BY <1>3, <1>6, <1>7, <1>14 DEF TrackerIInv, TrackerEventsKept
  <2> QED BY <1>3, <1>13, <2>1 DEF TrackerIInv, TrackerTakenTells
<1>17. TrackerTableTells'
  <2> SUFFICES ASSUME NEW c \in Tracker!Direction, NEW k \in 1..Len(links),
                      links[k].dir = c,
                      TrackerSettled(c, k)'
               PROVE  TrackerEntered(links', tracker_table[c], k)
    BY <1>4, <1>8 DEF TrackerTableTells
  <2>1. k # l /\ TrackerAbsent(tracker_channel[c], k)
    BY <1>3, <1>6, <1>7 DEF TrackerSettled, d
  <2>2. TrackerSettled(c, k)
    BY <1>3, <1>8, <2>1 DEF TrackerSettled
  <2> QED BY <1>13, <2>1, <2>2 DEF TrackerIInv, TrackerTableTells, TrackerEntered
<1> QED BY <1>9, <1>12, <1>15, <1>16, <1>17 DEF TrackerIInv

LEMMA TrackerTransportStep ==
  ASSUME TrackerIInv, NEW l \in Tracker!Link, Tracker!Happen(l) \/ Tracker!Close(l)
  PROVE  TrackerIInv'
BY TrackerEmitStep DEF Tracker!Happen, Tracker!Close, Tracker!Kind

\* The first event is taken in hand.
LEMMA TrackerTakeStep ==
  ASSUME TrackerIInv, NEW d \in Tracker!Direction, Tracker!Take(d) PROVE TrackerIInv'
<1> DEFINE q == tracker_channel[d]
<1>1. /\ taken[d] = None /\ q # <<>>
      /\ taken' = [taken EXCEPT ![d] = Head(q)]
      /\ tracker_channel' = [tracker_channel EXCEPT ![d] = Tail(q)]
      /\ UNCHANGED <<links, tracker_current, lost, found, tracker_table, mixed, last, events>>
  BY DEF Tracker!Take
<1>2. q \in Seq(TrackerEvent) /\ taken'[d] = Head(q) /\ tracker_channel'[d] = Tail(q)
  BY <1>1 DEF TrackerIInv, TrackerTypesKept
<1>3. /\ Head(q) = q[1] /\ Head(q) \in TrackerEvent /\ Tail(q) \in Seq(TrackerEvent)
      /\ 1 \in 1..Len(q)
      /\ Len(Tail(q)) = Len(q) - 1
      /\ \A i \in 1..Len(Tail(q)) : Tail(q)[i] = q[i + 1] /\ i + 1 \in 1..Len(q)
      /\ \A i \in 1..Len(q) :
           i = 1 \/ (i - 1 \in 1..Len(Tail(q)) /\ Tail(q)[i - 1] = q[i])
  BY <1>1, <1>2
<1> HIDE DEF q
<1>4. TrackerTypesKept' /\ TrackerTableKept'
  BY <1>1, <1>2, <1>3 DEF TrackerIInv, TrackerTypesKept, TrackerTableKept
<1>5. \A c \in Tracker!Direction : c # d =>
        tracker_channel'[c] = tracker_channel[c] /\ taken'[c] = taken[c]
  BY <1>1 DEF TrackerIInv, TrackerTypesKept
<1>6. TrackerChannelKept'
  <2>1. Len(q) \in Nat /\ Len(q) <= TrackerCapacity
    BY <1>2 DEF TrackerIInv, TrackerChannelKept, q
  <2> QED
    BY <1>2, <1>3, <1>5, <2>1, TrackerAssumption
       DEF TrackerIInv, TrackerChannelKept
<1>7. TrackerEventsKept'
  <2>1. \A i \in 1..Len(q) : TrackerEventOf(links, d, q[i])
    BY DEF TrackerIInv, TrackerEventsKept, q
  <2>2. \A i \in 1..Len(tracker_channel'[d]) :
          TrackerEventOf(links', d, tracker_channel'[d][i])
    BY <1>1, <1>2, <1>3, <2>1
  <2>3. TrackerEventOf(links', d, taken'[d])
    BY <1>1, <1>2, <1>3, <2>1
  <2>4. taken'[d] # None
    BY <1>2, <1>3, TrackerAssumption DEF TrackerEvent
  <2> QED BY <1>1, <1>5, <2>2, <2>3, <2>4 DEF TrackerIInv, TrackerEventsKept
<1>8. TrackerQueueTells(links, q)
  BY DEF TrackerIInv, TrackerChannelTells, q
<1>9. TrackerQueueTells(links', tracker_channel'[d])
  <2> SUFFICES ASSUME NEW i \in 1..Len(Tail(q)),
                      \A j \in 1..Len(Tail(q)) : j > i =>
                        Tail(q)[j].link # Tail(q)[i].link
               PROVE  TrackerSays(links, Tail(q)[i].kind, Tail(q)[i].link)
    BY <1>1, <1>2 DEF TrackerQueueTells
  <2>1. Tail(q)[i] = q[i + 1] /\ i + 1 \in 1..Len(q)
    BY <1>3
  <2>2. ASSUME NEW j \in 1..Len(q), j > i + 1 PROVE q[j].link # q[i + 1].link
    <3>1. j # 1 /\ j - 1 > i
      BY <2>2
    <3>2. j - 1 \in 1..Len(Tail(q)) /\ Tail(q)[j - 1] = q[j]
      BY <1>3, <3>1
    <3> QED BY <2>1, <3>1, <3>2
  <2> QED BY <1>8, <2>1, <2>2 DEF TrackerQueueTells
<1>10. TrackerChannelTells'
  BY <1>1, <1>5, <1>9 DEF TrackerIInv, TrackerChannelTells
<1>11. TrackerTakenTells'
  <2>1. ASSUME TrackerAbsent(Tail(q), Head(q).link)
        PROVE  TrackerSays(links, Head(q).kind, Head(q).link)
    <3>1. ASSUME NEW j \in 1..Len(q), j > 1 PROVE q[j].link # q[1].link
      <4>1. j - 1 \in 1..Len(Tail(q)) /\ Tail(q)[j - 1] = q[j]
        BY <1>3, <3>1
      <4> QED BY <1>3, <2>1, <4>1 DEF TrackerAbsent
    <3> QED BY <1>3, <1>8, <3>1 DEF TrackerQueueTells
  <2> SUFFICES ASSUME NEW c \in Tracker!Direction, taken'[c] # None,
                      taken'[c].link \notin lost,
                      TrackerAbsent(tracker_channel'[c], taken'[c].link)
               PROVE  TrackerSays(links, taken'[c].kind, taken'[c].link)
    BY <1>1 DEF TrackerTakenTells
  <2>2. CASE c = d
    BY <1>2, <2>1, <2>2
  <2>3. CASE c # d
    BY <1>5, <2>3 DEF TrackerIInv, TrackerTakenTells
  <2> QED BY <2>2, <2>3
<1>12. TrackerTableTells'
  <2>1. \A l : TrackerAbsent(Tail(q), l) /\ Head(q).link # l => TrackerAbsent(q, l)
    BY <1>3 DEF TrackerAbsent
  <2>2. ASSUME NEW c \in Tracker!Direction, NEW l \in 1..Len(links),
               TrackerSettled(c, l)'
        PROVE  TrackerSettled(c, l)
    <3>1. CASE c = d
      <4>1. Head(q) # None
        BY <1>3, TrackerAssumption DEF TrackerEvent
      <4>2. last[l] # None /\ l \notin lost \cup mixed /\ TrackerAbsent(q, l)
        BY <1>1, <1>2, <2>1, <2>2, <3>1, <4>1 DEF TrackerSettled
      <4> QED BY <1>1, <3>1, <4>2 DEF TrackerSettled, q
    <3>2. CASE c # d
      BY <1>1, <1>5, <2>2, <3>2 DEF TrackerSettled
    <3> QED BY <3>1, <3>2
  <2> QED BY <1>1, <2>2 DEF TrackerIInv, TrackerTableTells
<1> QED BY <1>4, <1>6, <1>7, <1>10, <1>11, <1>12 DEF TrackerIInv

LEMMA TrackerResolveStep ==
  ASSUME TrackerIInv, NEW d \in Tracker!Direction, Tracker!Resolve(d) PROVE TrackerIInv'
<1>1. /\ taken[d] # None /\ found' = [found EXCEPT ![d] = Tracker!Found(d)]
      /\ UNCHANGED <<links, tracker_current, tracker_channel, lost, taken, tracker_table,
                     mixed, last, events>>
  BY DEF Tracker!Resolve
<1>2. Tracker!Found(d) \in Tracker!Link
  <2>1. TrackerEventOf(links, d, taken[d]) /\ links \in Seq(TrackerMade)
    BY <1>1 DEF TrackerIInv, TrackerEventsKept, TrackerTypesKept
  <2>2. taken[d].link \in Tracker!Link /\ links[taken[d].link].peer \in TrackerPeer
    <3>1. taken[d].link \in Tracker!Link /\ taken[d].link \in 1..Len(links)
      BY <2>1 DEF TrackerEventOf, TrackerEvent
    <3>2. links[taken[d].link] \in TrackerMade
      BY <2>1, <3>1
    <3> QED BY <3>1, <3>2 DEF TrackerMade
  <2>3. tracker_current[<<d, links[taken[d].link].peer>>] \in Tracker!Link \cup {None}
    BY <2>2 DEF TrackerIInv, TrackerTypesKept
  <2> QED BY <2>2, <2>3 DEF Tracker!Found
<1>3. TrackerTypesKept'
  BY <1>1, <1>2 DEF TrackerIInv, TrackerTypesKept
<1>4. TrackerEventsKept'
  BY <1>1, <1>2 DEF TrackerIInv, TrackerTypesKept, TrackerEventsKept
<1> QED BY <1>1, <1>3, <1>4 DEF TrackerIInv, TrackerTableKept, TrackerChannelKept,
                                TrackerChannelTells, TrackerTakenTells,
                                TrackerTableTells, TrackerSettled

\* The entry is written: of the link the event is of, or the two are mixed up.
LEMMA TrackerUpdateStep ==
  ASSUME TrackerIInv, NEW d \in Tracker!Direction, Tracker!Update(d) PROVE TrackerIInv'
<1> DEFINE t == taken[d]
           f == found[d]
<1>1. /\ f # None
      /\ tracker_table' = [tracker_table EXCEPT ![d] = [l \in DOMAIN tracker_table[d] \cup {f} |->
                     IF l = f THEN Tracker!UpdatedEntry(d) ELSE tracker_table[d][l]]]
      /\ last' = [last EXCEPT ![t.link] = t.kind]
      /\ mixed' = IF f = t.link THEN mixed ELSE mixed \cup {f, t.link}
      /\ taken' = [taken EXCEPT ![d] = None] /\ found' = [found EXCEPT ![d] = None]
      /\ UNCHANGED <<links, tracker_current, tracker_channel, lost, events>>
  BY DEF Tracker!Update
<1>2. f \in Tracker!Link /\ t # None /\ TrackerEventOf(links, d, t)
  BY <1>1 DEF TrackerIInv, TrackerTypesKept, TrackerEventsKept
<1>3. /\ t.kind \in Tracker!Kind
      /\ t.link \in Tracker!Link
      /\ t.link \in 1..Len(links)
      /\ links[t.link].dir = d
  BY <1>2 DEF TrackerEventOf, TrackerEvent
<1>4. /\ Tracker!UpdatedEntry(d) \in Tracker!Entry
      /\ Tracker!UpdatedEntry(d).status = "closed" <=> t.kind = "closed"
  <2>1. f \in DOMAIN tracker_table[d] => tracker_table[d][f].packets \in Nat
    BY <1>2 DEF TrackerIInv, TrackerTableKept, Tracker!Entry
  <2>2. Tracker!Status(t.kind) \in {"active", "closed"}
        /\ (Tracker!Status(t.kind) = "closed" <=> t.kind = "closed")
    BY DEF Tracker!Status
  <2> QED BY <2>1, <2>2 DEF Tracker!UpdatedEntry, Tracker!Entry
<1>5. /\ tracker_table'[d] = [l \in DOMAIN tracker_table[d] \cup {f} |->
                                IF l = f THEN Tracker!UpdatedEntry(d) ELSE tracker_table[d][l]]
      /\ \A c \in Tracker!Direction : c # d => tracker_table'[c] = tracker_table[c]
      /\ tracker_table' = [c \in Tracker!Direction |-> tracker_table'[c]]
  BY <1>1 DEF TrackerIInv, TrackerTableKept
<1> HIDE DEF f, t
<1>6. TrackerTypesKept' /\ TrackerChannelKept'
  BY <1>1, <1>2, <1>3 DEF TrackerIInv, TrackerTypesKept, TrackerChannelKept
<1>7. TrackerTableKept'
  <2>1. /\ DOMAIN tracker_table'[d] \subseteq Tracker!Link
        /\ \A l \in DOMAIN tracker_table'[d] : tracker_table'[d][l] \in Tracker!Entry
    BY <1>2, <1>4, <1>5 DEF TrackerIInv, TrackerTableKept
  <2>2. \A c \in Tracker!Direction : c # d => /\ DOMAIN tracker_table'[c] \subseteq Tracker!Link
                                              /\ \A l \in DOMAIN tracker_table'[c] :
                                                   tracker_table'[c][l] \in Tracker!Entry
    BY <1>5 DEF TrackerIInv, TrackerTableKept
  <2> QED BY <1>5, <2>1, <2>2 DEF TrackerTableKept
<1>8. TrackerEventsKept'
  <2>1. \A c \in Tracker!Direction : taken'[c] = (IF c = d THEN None ELSE taken[c])
    BY <1>1 DEF TrackerIInv, TrackerTypesKept
  <2>2. \A c \in Tracker!Direction : found'[c] = (IF c = d THEN None ELSE found[c])
    BY <1>1 DEF TrackerIInv, TrackerTypesKept
  <2>3. \A l \in Tracker!Link : last'[l] # None => l \in 1..Len(links)
    BY <1>1, <1>3 DEF TrackerIInv, TrackerTypesKept, TrackerEventsKept
  <2> QED BY <1>1, <2>1, <2>2, <2>3 DEF TrackerIInv, TrackerEventsKept
<1>9. TrackerChannelTells'
  BY <1>1 DEF TrackerIInv, TrackerChannelTells
<1>10. TrackerTakenTells'
  BY <1>1 DEF TrackerIInv, TrackerTypesKept, TrackerTakenTells
<1>11. ASSUME NEW c \in Tracker!Direction, NEW l \in 1..Len(links), links[l].dir = c,
              TrackerSettled(c, l)'
       PROVE  TrackerEntered(links, tracker_table'[c], l)
  <2>0. l \in Tracker!Link
    BY TrackerAssumption DEF TrackerIInv, TrackerTypesKept, Tracker!Link
  <2>1. /\ l \notin lost
        /\ l \notin mixed'
        /\ last'[l] # None
        /\ TrackerAbsent(tracker_channel[c], l)
    BY <1>1, <1>11 DEF TrackerSettled
  <2>2. CASE l = t.link
    <3>1. f = l /\ c = d
      BY <1>1, <1>3, <1>11, <2>1, <2>2
    <3>2. TrackerSays(links, t.kind, l)
      BY <1>2, <2>1, <2>2, <3>1 DEF TrackerIInv, TrackerTakenTells, t
    <3> QED BY <1>4, <1>5, <3>1, <3>2 DEF TrackerEntered, TrackerSays
  <2>3. CASE l # t.link
    <3>1. last[l] # None /\ l \notin mixed /\ f # l
      BY <1>1, <1>3, <2>0, <2>1, <2>3 DEF TrackerIInv, TrackerTypesKept
    <3>2. taken[c] = None \/ taken[c].link # l
      BY <1>1, <1>11, <2>3 DEF TrackerSettled, t, TrackerIInv, TrackerTypesKept
    <3>3. TrackerEntered(links, tracker_table[c], l)
      BY <1>11, <2>1, <3>1, <3>2 DEF TrackerIInv, TrackerTableTells, TrackerSettled
    <3>4. l \in DOMAIN tracker_table'[c] /\ tracker_table'[c][l] = tracker_table[c][l]
      BY <1>5, <3>1, <3>3 DEF TrackerEntered
    <3> QED BY <3>3, <3>4 DEF TrackerEntered
  <2> QED BY <2>2, <2>3
<1> QED BY <1>1, <1>6, <1>7, <1>8, <1>9, <1>10, <1>11 DEF TrackerIInv, TrackerTableTells

LEMMA TrackerInvariantStep ==
  TrackerIInv /\ [Tracker!Next]_(Tracker!vars) => TrackerIInv'
<1>1. ASSUME TrackerIInv, UNCHANGED Tracker!vars PROVE TrackerIInv'
  BY <1>1
     DEF Tracker!vars, TrackerIInv, TrackerTypesKept, TrackerTableKept,
         TrackerChannelKept, TrackerEventsKept, TrackerChannelTells, 
              TrackerTakenTells, TrackerTableTells, TrackerSettled
<1> QED
  BY <1>1, TrackerMakeStep, TrackerDropStep, TrackerTransportStep, TrackerTakeStep,
     TrackerResolveStep, TrackerUpdateStep
     DEF Tracker!Next

LEMMA TrackerKept == TrackerIInv => Tracker!TypeOK /\ Tracker!TableTellsLinks
<1> SUFFICES ASSUME TrackerIInv PROVE Tracker!TypeOK /\ Tracker!TableTellsLinks
  OBVIOUS
<1>1. ASSUME NEW d \in Tracker!Direction,
             NEW e \in Tracker!Range(tracker_channel[d]) \cup ({taken[d]} \ {None})
      PROVE  e.kind \in Tracker!Kind /\ links[e.link].dir = d
  <2>1. CASE e \in Tracker!Range(tracker_channel[d])
    <3>1. tracker_channel[d] \in Seq(TrackerEvent)
      BY DEF TrackerIInv, TrackerTypesKept
    <3>2. PICK i \in 1..Len(tracker_channel[d]) : e = tracker_channel[d][i]
      BY <2>1, <3>1 DEF Tracker!Range
    <3> QED BY <3>2 DEF TrackerIInv, TrackerEventsKept, TrackerEventOf, TrackerEvent
  <2>2. CASE e \in {taken[d]} \ {None}
    BY <2>2 DEF TrackerIInv, TrackerEventsKept, TrackerEventOf, TrackerEvent
  <2> QED BY <2>1, <2>2
<1>2. Tracker!TypeOK
  BY <1>1
     DEF TrackerIInv, TrackerTypesKept, TrackerTableKept, TrackerChannelKept,
         TrackerMade, Tracker!TypeOK
<1>3. ASSUME NEW d \in Tracker!Direction, tracker_channel[d] = <<>>, taken[d] = None,
             NEW l \in 1..Len(links), links[l].dir = d, last[l] # None,
             l \notin lost \cup mixed
      PROVE  /\ l \in DOMAIN tracker_table[d]
             /\ (tracker_table[d][l].status = "closed") = ~links[l].open
  <2>1. TrackerSettled(d, l)
    BY <1>3 DEF TrackerSettled, TrackerAbsent
  <2>2. TrackerEntered(links, tracker_table[d], l)
    BY <1>3, <2>1 DEF TrackerIInv, TrackerTableTells
  <2>3. links[l].open \in BOOLEAN
    <3>1. links[l] \in TrackerMade
      BY DEF TrackerIInv, TrackerTypesKept
    <3> QED BY <3>1 DEF TrackerMade
  <2> QED BY <2>2, <2>3, Zenon DEF TrackerEntered, TrackerSays
<1>4. Tracker!TableTellsLinks
  BY <1>3 DEF Tracker!TableTellsLinks
<1> QED BY <1>2, <1>4
=============================================================================
