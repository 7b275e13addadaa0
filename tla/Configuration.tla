---------------------------- MODULE Configuration ----------------------------
(***************************************************************************)
(* The configurations of qifconfiguration.cpp: groups of settings read     *)
(* from a file and the environment, changed by QIfConfiguration objects    *)
(* and static functions, and applied to the features and service objects   *)
(* that have joined a group.  Every change of a member emits a signal, in  *)
(* whose slot the application may call again: the stack holds the calls    *)
(* under way, the innermost first.                                         *)
(***************************************************************************)
EXTENDS Naturals, Sequences, SequencesExt, Selection

CONSTANTS
    Groups, Configs, Features, ServiceObjects,
    GroupOf,        \* [ServiceObjects -> Groups], the configurationId of a backend
    FeatureOrder,   \* the settings of features, in the order they are applied
    FileSettings,   \* the settings that simulation engines read when they start
    Overridable,    \* the settings with an environment variable
    Values,         \* [Settings -> the values of each]
    Default,        \* the value that a settings object starts with
    Initial,        \* [Settings -> the values that a member starts with]
    Malformed,      \* a value of the file or the environment that is none
    Files,          \* the settings files considered: sequences of groups
    Environments,   \* the overrides considered, in the order they are parsed
    NestedServiceSettings, \* may slots of serviceSettingsChanged() set them again
    AbortedCreation,\* may a feature go, or change its group, in its QML creation
    None,           \* no group, no configuration
    MaxDepth, MaxCalls \* bounds on the stack and on the application's calls

FeatureSettings == ToSet(FeatureOrder)
Settings == FeatureSettings \cup FileSettings \cup {"serviceSettings"}
Members == Features \cup ServiceObjects

ASSUME ConfigurationAssumption ==
    /\ GroupOf \in [ServiceObjects -> Groups]
    /\ FeatureOrder \in Seq(STRING) /\ IsFiniteSet(FileSettings)
    /\ FileSettings \cap FeatureSettings = {}
    /\ "serviceSettings" \notin FileSettings \cup FeatureSettings
    /\ Overridable \subseteq Settings \ {"serviceSettings"}
    /\ Initial = [s \in Settings |-> Initial[s]]
    /\ \A s \in Settings : {Default, Initial[s]} \subseteq Values[s] /\ Malformed \notin Values[s]
    /\ None \notin Groups \cup Configs
    /\ Features \cap ServiceObjects = {}
    /\ {NestedServiceSettings, AbortedCreation} \subseteq BOOLEAN

\* What the reader of a file and the parser of a variable make of their texts
ASSUME InputAssumption ==
    /\ \A f \in Files : /\ f = [i \in 1..Len(f) |-> f[i]] /\ Len(f) \in Nat
                        /\ \A i \in 1..Len(f) :
                             /\ f[i].group \in Groups /\ DOMAIN f[i].values \subseteq Settings
                             /\ \A s \in DOMAIN f[i].values :
                                  f[i].values[s] \in Values[s] \cup {Malformed}
    /\ \A e \in Environments : /\ e = [i \in 1..Len(e) |-> e[i]] /\ Len(e) \in Nat
                               /\ \A i \in 1..Len(e) :
                                    /\ e[i].group \in Groups /\ e[i].setting \in Overridable
                                    /\ e[i].value \in Values[e[i].setting] \cup {Malformed}

VARIABLES
    file, env,      \* what was read
    known,          \* the groups in m_settingsHash
    group,          \* [Groups -> QIfSettingsObject]
    member,         \* [Members -> its group, its QML creation and its settings]
    config,         \* [Configs -> QIfConfiguration]
    registered,     \* m_configurationHash
    stack, calls,
    asserted        \* FALSE once Q_ASSERT(so) has failed

vars == <<file, env, known, group, member, config, registered, stack, calls, asserted>>

-----------------------------------------------------------------------------
(* The settings at the start *)

\* The settings of g in the file; nothing from the first malformed mode on is read.
MalformedAt == {i \in DOMAIN file : \E s \in DOMAIN file[i].values :
                    file[i].values[s] = Malformed}
Read(g) == {i \in DOMAIN file : file[i].group = g /\ \A j \in MalformedAt : i < j}

\* The overrides of g: the last value of a variable wins.  None after a malformed mode.
Given(g, s) == {i \in DOMAIN env :
    env[i].group = g /\ env[i].setting = s /\ env[i].value # Malformed}
Latest(I) == CHOOSE i \in I : \A j \in I : j <= i
Overrides(g) == IF MalformedAt # {} THEN {} ELSE {s \in Settings : Given(g, s) # {}}

ReadInitialSettings(g) ==
    LET inFile == UNION {DOMAIN file[i].values : i \in Read(g)}
    IN  [set |-> inFile \cup Overrides(g), override |-> Overrides(g), members |-> <<>>,
         value |-> [s \in Settings |->
            IF s \in Overrides(g) THEN env[Latest(Given(g, s))].value
            ELSE IF s \in inFile
                 THEN file[Latest({i \in Read(g) : s \in DOMAIN file[i].values})].values[s]
                 ELSE Default]]

\* A malformed override creates the group, except for a file that does not exist.
Created == {g \in Groups :
    \/ Read(g) # {}
    \/ MalformedAt = {} /\ \E i \in DOMAIN env : env[i].group = g
            /\ ~(env[i].value = Malformed /\ env[i].setting \in FileSettings)}

NewMember == [id |-> None, qml |-> FALSE, value |-> Initial, own |-> {}]
NewConfig == [state |-> "none", name |-> None, settings |-> None,
              temp |-> [s \in Settings |-> Default]]

\* A call under way.  The event loop is the last slot.
Frame(op, g, s, who, v) ==
    [op |-> op, group |-> g, setting |-> s, who |-> who, value |-> v, done |-> 0]
Slot == <<Frame("slot", None, "", None, Default)>>
Top == Head(stack)
AtRest == Tail(stack) = <<>>

Init ==
    /\ file \in Files
    /\ env \in Environments
    /\ known = Created
    /\ group = [g \in Groups |-> ReadInitialSettings(g)]
    /\ member = [m \in Members |-> NewMember]
    /\ config = [c \in Configs |-> NewConfig]
    /\ registered = [g \in Groups |-> None]
    /\ stack = Slot
    /\ calls = 0
    /\ asserted = TRUE

-----------------------------------------------------------------------------
(* The calls under way *)

\* The application calls from the event loop or from a slot.
MayCall ==
    /\ asserted
    /\ Top.op = "slot"
    /\ Len(stack) < MaxDepth
    /\ calls < MaxCalls
    /\ calls' = calls + 1

\* Slots do not change a list of members that a setter goes through, and a
\* feature stays in the group that is applying its settings to it.
UnderWay(g) == \E i \in DOMAIN stack : stack[i].op = "set" /\ stack[i].group = g
Joining(m) == \E i \in DOMAIN stack : stack[i].op = "add" /\ stack[i].who = m

Return ==
    /\ Top.op = "slot" /\ ~AtRest
    /\ stack' = Tail(stack)
    /\ UNCHANGED <<file, env, known, group, member, config, registered, calls, asserted>>

\* Assumed of slots: they do not set serviceSettings while a setter passes these on.
MaySetService ==
    \/ NestedServiceSettings
    \/ \A i \in DOMAIN stack : stack[i].setting # "serviceSettings"

\* A member takes a value; the signal of a change runs slots.
Take(m, s, v, frames) ==
    /\ member' = [member EXCEPT ![m].value[s] = v, ![m].own = @ \ {s}]
    /\ stack' = IF member[m].value[s] = v THEN frames ELSE Slot \o frames

\* A feature does not take the invalid mode that settings objects start with.
Refuses(s, v) == s = "discoveryMode" /\ v = Default

-----------------------------------------------------------------------------
(* The manager *)

\* Mutant: the environment is not looked at.
SetsAnyway(g, s, v, frames) ==
    /\ group' = [group EXCEPT ![g].value[s] = v, ![g].set = @ \cup {s}]
    /\ stack' = IF s \in FileSettings THEN frames
                ELSE <<Frame("set", g, s, None, v)>> \o frames

\* The frames of setting s of group g to v, for the caller whose frames are given
Set(g, s, v, frames) ==
    IF s \in group[g].override
    THEN /\ stack' = frames
         /\ UNCHANGED group
    ELSE /\ group' = [group EXCEPT ![g].value[s] = v, ![g].set = @ \cup {s}]
         /\ stack' = IF s \in FileSettings THEN frames
                     ELSE <<Frame("set", g, s, None, v)>> \o frames

Concerns(m, s) == (m \in ServiceObjects) <=> (s = "serviceSettings")

\* Mutant: every setter passes the value it was called with.
AppliesItsArgument ==
    /\ Top.op = "set"
    /\ LET list == group[Top.group].members
           next == Top.done + 1
           frames == <<[Top EXCEPT !.done = next]>> \o Tail(stack)
       IN  IF next > Len(list)
           THEN stack' = Tail(stack) /\ UNCHANGED member
           ELSE IF Concerns(list[next], Top.setting) /\ ~Refuses(Top.setting, Top.value)
                THEN Take(list[next], Top.setting, Top.value, frames)
                ELSE stack' = frames /\ UNCHANGED member
    /\ UNCHANGED <<file, env, known, group, config, registered, calls, asserted>>

\* One round of a setter's loop: features get the group's value, service
\* objects the value that the setter was called with.
ApplyNext ==
    /\ Top.op = "set"
    /\ LET list == group[Top.group].members
           next == Top.done + 1
           frames == <<[Top EXCEPT !.done = next]>> \o Tail(stack)
           v == IF Top.setting = "serviceSettings" THEN Top.value
                ELSE group[Top.group].value[Top.setting]
       IN  IF next > Len(list)
           THEN stack' = Tail(stack) /\ UNCHANGED member
           ELSE IF Concerns(list[next], Top.setting) /\ ~Refuses(Top.setting, v)
                THEN Take(list[next], Top.setting, v, frames)
                ELSE stack' = frames /\ UNCHANGED member
    /\ UNCHANGED <<file, env, known, group, config, registered, calls, asserted>>

\* addAbstractFeature(), addServiceObject()
Add(g, m) ==
    /\ known' = known \cup {g}
    /\ group' = [group EXCEPT ![g].members = Append(@, m)]
    /\ stack' = <<Frame("add", g, "", m, Default)>> \o stack

OrderFor(m) == IF m \in Features THEN FeatureOrder ELSE <<"serviceSettings">>

AddNext ==
    /\ Top.op = "add"
    /\ LET order == OrderFor(Top.who)
           next == Top.done + 1
           frames == <<[Top EXCEPT !.done = next]>> \o Tail(stack)
       IN  IF next > Len(order)
           THEN stack' = Tail(stack) /\ UNCHANGED member
           ELSE IF /\ order[next] \in group[Top.group].set
                   /\ ~Refuses(order[next], group[Top.group].value[order[next]])
                THEN Take(Top.who, order[next], group[Top.group].value[order[next]], frames)
                ELSE stack' = frames /\ UNCHANGED member
    /\ UNCHANGED <<file, env, known, group, config, registered, calls, asserted>>

\* Mutant: only the first entry of the member goes.
WithoutOne(list, m) ==
    LET at == {i \in DOMAIN list : list[i] = m}
    IN  IF at = {} THEN list ELSE RemoveAt(list, CHOOSE i \in at : \A j \in at : i <= j)

\* removeAll()
Without(list, m) == Chosen(list, ToSet(list) \ {m})

\* removeAbstractFeature(): the group is expected to exist.
Removed(g, m) == IF g = None THEN group ELSE [group EXCEPT ![g].members = Without(@, m)]
CanLeave(m) == member[m].id \in known \cup {None} \/ AbortedCreation
LeavesExisting(m) == member[m].id \in known \cup {None}

-----------------------------------------------------------------------------
(* Features and service objects *)

SetConfigurationId(f, g) ==
    LET left == Removed(member[f].id, f)
    IN  /\ MayCall /\ CanLeave(f)
        /\ member[f].id # g
        /\ ~UnderWay(member[f].id) /\ ~UnderWay(g) /\ ~Joining(f)
        /\ member' = [member EXCEPT ![f].id = g, ![f].own = {}]
        /\ asserted' = LeavesExisting(f)
        /\ IF member[f].qml
           THEN group' = left /\ UNCHANGED <<known, stack>>
           ELSE /\ known' = known \cup {g}
                /\ group' = [left EXCEPT ![g].members = Append(@, f)]
                /\ stack' = <<Frame("add", g, "", f, Default)>> \o stack
        /\ UNCHANGED <<file, env, config, registered>>

\* QML creates the feature.  The constructor of a generated feature has joined a group.
ClassBegin(f) ==
    /\ MayCall
    /\ ~member[f].qml /\ ~Joining(f)
    /\ member' = [member EXCEPT ![f].qml = TRUE]
    /\ UNCHANGED <<file, env, known, group, config, registered, stack, asserted>>

\* The discovery that follows is modelled in AbstractFeature.
ComponentComplete(f) ==
    /\ MayCall
    /\ member[f].qml /\ ~UnderWay(member[f].id)
    /\ member' = [member EXCEPT ![f].qml = FALSE, ![f].own = {}]
    /\ IF member[f].id = None THEN UNCHANGED <<known, group, stack>> ELSE Add(member[f].id, f)
    /\ UNCHANGED <<file, env, config, registered, asserted>>

\* The destructor, or the end of a service object's QPointer; another may be made.
Destroy(m) ==
    /\ MayCall /\ CanLeave(m)
    /\ member[m].id # None /\ ~UnderWay(member[m].id) /\ ~Joining(m)
    /\ group' = Removed(member[m].id, m)
    /\ member' = [member EXCEPT ![m] = NewMember]
    /\ asserted' = LeavesExisting(m)
    /\ UNCHANGED <<file, env, known, config, registered, stack>>

\* The manager has got the interface of a backend.
AddServiceObject(o) ==
    /\ MayCall
    /\ member[o].id = None /\ ~UnderWay(GroupOf[o])
    /\ member' = [member EXCEPT ![o].id = GroupOf[o]]
    /\ Add(GroupOf[o], o)
    /\ UNCHANGED <<file, env, config, registered, asserted>>

\* The application sets a feature itself.
SetDirectly(f, s, v) ==
    /\ MayCall
    /\ s \in FeatureSettings /\ ~Refuses(s, v)
    /\ member[f].value[s] # v
    /\ member' = [member EXCEPT ![f].value[s] = v, ![f].own = @ \cup {s}]
    /\ stack' = Slot \o stack
    /\ UNCHANGED <<file, env, known, group, config, registered, asserted>>

-----------------------------------------------------------------------------
(* QIfConfiguration *)

\* A static setter
SetOfGroup(g, s, v) ==
    /\ MayCall
    /\ s = "serviceSettings" => MaySetService
    /\ known' = known \cup {g}
    /\ Set(g, s, v, stack)
    /\ UNCHANGED <<file, env, member, config, registered, asserted>>

\* A setter of an instance: in its QML creation it changes its temporary settings.
SetOfConfiguration(c, s, v) ==
    /\ MayCall
    /\ s = "serviceSettings" => MaySetService
    /\ IF config[c].state = "creating"
       THEN /\ config[c].temp[s] # v
            /\ config' = [config EXCEPT ![c].temp[s] = v]
            /\ stack' = Slot \o stack
            /\ UNCHANGED group
       ELSE /\ config[c].settings # None
            /\ group[config[c].settings].value[s] # v
            /\ Set(config[c].settings, s, v,
                   IF s \in group[config[c].settings].override THEN stack ELSE Slot \o stack)
            /\ UNCHANGED config
    /\ UNCHANGED <<file, env, known, member, registered, asserted>>

\* setName() registers the first configuration of a name.
Registers(c, g) == g # None /\ registered[g] = None

\* The constructor with a name, or setName()
SetName(c, g) ==
    /\ MayCall
    /\ CASE config[c].state = "creating" ->
              /\ config' = [config EXCEPT ![c].name = g]
              /\ stack' = Slot \o stack
              /\ UNCHANGED <<known, registered>>
         [] OTHER ->
              /\ config[c].settings = None /\ Registers(c, g)
              /\ config' = [config EXCEPT ![c].state = "created", ![c].name = g, ![c].settings = g]
              /\ registered' = [registered EXCEPT ![g] = c]
              /\ known' = known \cup {g}
              /\ stack' = Slot \o stack
    /\ UNCHANGED <<file, env, group, member, asserted>>

ConfigurationClassBegin(c) ==
    /\ MayCall
    /\ config[c].state = "none"
    /\ config' = [config EXCEPT ![c].state = "creating"]
    /\ UNCHANGED <<file, env, known, group, member, registered, stack, asserted>>

\* The settings made in QML are applied, those that were not made too.
ConfigurationComplete(c) ==
    /\ MayCall
    /\ config[c].state = "creating" /\ MaySetService
    /\ IF Registers(c, config[c].name)
       THEN /\ config' = [config EXCEPT ![c].state = "created", ![c].settings = config[c].name]
            /\ registered' = [registered EXCEPT ![config[c].name] = c]
            /\ known' = known \cup {config[c].name}
            /\ stack' = Slot \o <<Frame("complete", None, "", c, Default)>> \o stack
       ELSE /\ config' = [config EXCEPT ![c].state = "created"]
            /\ UNCHANGED <<registered, known, stack>>
    /\ UNCHANGED <<file, env, group, member, asserted>>

CopyOrder == <<"serviceSettings">> \o SetToSeq(FileSettings) \o FeatureOrder

CopyNext ==
    /\ Top.op = "complete"
    /\ LET next == Top.done + 1
           s == CopyOrder[next]
           g == config[Top.who].settings
           v == config[Top.who].temp[s]
           frames == <<[Top EXCEPT !.done = next]>> \o Tail(stack)
       IN  IF next > Len(CopyOrder)
           THEN stack' = Tail(stack) /\ UNCHANGED group
           ELSE IF group[g].value[s] = v
                THEN stack' = frames /\ UNCHANGED group
                ELSE Set(g, s, v, IF s \in group[g].override THEN frames ELSE Slot \o frames)
    /\ UNCHANGED <<file, env, known, member, config, registered, calls, asserted>>

\* Mutant: a configuration of QML does not give its name back.
KeepsItsName(c) == registered

\* The destructor removes the entry of its name, whoever has made it.
Unregistered(c) ==
    IF config[c].name = None THEN registered ELSE [registered EXCEPT ![config[c].name] = None]

DestroyConfiguration(c) ==
    /\ MayCall
    /\ config[c].state # "none" /\ \A i \in DOMAIN stack : stack[i].who # c
    /\ registered' = Unregistered(c)
    /\ config' = [config EXCEPT ![c] = NewConfig]
    /\ UNCHANGED <<file, env, known, group, member, stack, asserted>>

Next ==
    \/ Return \/ ApplyNext \/ AddNext \/ CopyNext
    \/ \E f \in Features :
        \/ ClassBegin(f) \/ ComponentComplete(f)
        \/ \E g \in Groups : SetConfigurationId(f, g)
        \/ \E s \in FeatureSettings : \E v \in Values[s] : SetDirectly(f, s, v)
    \/ \E m \in Members : Destroy(m)
    \/ \E o \in ServiceObjects : AddServiceObject(o)
    \/ \E g \in Groups, s \in Settings : \E v \in Values[s] : SetOfGroup(g, s, v)
    \/ \E c \in Configs :
        \/ \E s \in Settings : \E v \in Values[s] : SetOfConfiguration(c, s, v)
        \/ \E g \in Groups : SetName(c, g)
        \/ ConfigurationClassBegin(c) \/ ConfigurationComplete(c) \/ DestroyConfiguration(c)

Spec == Init /\ [][Next]_vars

-----------------------------------------------------------------------------
(* Properties *)

Assignments == {a \in [Settings -> UNION {Values[s] : s \in Settings}] :
                  \A s \in Settings : a[s] \in Values[s]}
SettingsObjects == [set : SUBSET Settings, override : SUBSET Settings,
                    value : Assignments, members : Seq(Members)]

\* Types of the configurations (qifconfiguration_p.h).
TypeOK ==
    /\ known \subseteq Groups
    /\ group \in [Groups -> SettingsObjects]
    /\ member \in [Members -> [id : Groups \cup {None}, qml : BOOLEAN,
                               value : Assignments, own : SUBSET Settings]]
    /\ config \in [Configs -> [state : {"none", "creating", "created"}, name : Groups \cup {None},
                               settings : Groups \cup {None}, temp : Assignments]]
    /\ registered \in [Groups -> Configs \cup {None}]
    /\ asserted \in BOOLEAN

\* "applies it to all ... instances with a matching configurationId"
\* (qifconfiguration.cpp:1075): when every call has returned, each member of a
\* group has every value set for the group, unless the application has set the
\* member itself since.  Slots may have set the same or other settings again,
\* and members may have joined, in the middle of a setter or of a joining.
MembersAgree ==
    AtRest =>
        \A g \in Groups : \A i \in DOMAIN group[g].members : \A s \in group[g].set :
            LET m == group[g].members[i]
            IN  (Concerns(m, s) /\ s \notin FileSettings \cup member[m].own)
                    => member[m].value[s] = group[g].value[s] \/ Refuses(s, group[g].value[s])

\* No group applies its settings to a feature that has left it or is gone:
\* m_configurationId and the list of the group agree, however often QML has
\* added the feature (qifabstractfeature.cpp:476, 581), and a group that is left
\* exists (Q_ASSERT(so) in removeAbstractFeature(), qifconfiguration.cpp:259).
MembersBelong ==
    /\ TypeOK
    /\ asserted
    /\ \A g \in Groups : \A i \in DOMAIN group[g].members : member[group[g].members[i]].id = g

\* "Once an override has been set, the value cannot be changed at runtime
\* anymore" (qifconfiguration.cpp:540): the last well-formed override of every
\* setting holds for ever, if the settings file was well-formed.
OverridesHold ==
    MalformedAt = {} =>
        \A g \in Groups, s \in Settings : Given(g, s) # {} =>
            /\ g \in known /\ s \in group[g].set
            /\ group[g].value[s] = env[Latest(Given(g, s))].value

\* m_configurationHash holds no configuration that is gone, or that changes
\* another group than the one of its entry (setName(), ~QIfConfiguration()).
RegisteredIsUsable ==
    \A g \in Groups : registered[g] # None =>
        config[registered[g]].name = g /\ config[registered[g]].settings = g
=============================================================================
