------------------------ MODULE AccountStore_proofs ------------------------
(***************************************************************************)
(* The accounts file of AccountStore, for any number of processes, names   *)
(* and credentials: its default is an account that is listed, no crash     *)
(* leaves it half written, and a listed account has a whole pair.          *)
(***************************************************************************)
EXTENDS AccountStore, TLAPS

\* Content whose default is listed, if there are accounts at all.
Good == {d \in Data : IF d.default = None THEN d = Empty ELSE Listed(d, d.default)}

GoodFiles == [is : {"missing", "blank", "whole"}, data : Good, writer : Procs \cup {None}]

Steps == {"idle", "probe", "allowed", "ask", "key", "secret", "answer", "open", "reopen",
          "write", "replace"}

Commands == [at : Steps, op : {"none", "add", "remove", "use", "get"},
             name : Names \cup {None}, cred : Creds \cup {None}, data : Good,
             stale : BOOLEAN, got : [Halves -> Creds \cup {None, "given"}]]

\* The types, with good content everywhere and a name for every active process.
StoreInv ==
  /\ file \in GoodFiles /\ tmp \in GoodFiles
  /\ keyring \in [Names -> [Halves -> Creds \cup {None}]]
  /\ tainted \subseteq Names /\ cut \subseteq Names
  /\ met \subseteq Procs /\ robbed \in BOOLEAN
  /\ proc \in [Procs -> Commands]
  /\ \A p \in Procs : Active(p) => proc[p].name \in Names

\* While no temporary file was taken from its process, the one that writes or
\* replaces is the only one to do so, and the file is its own.
OwnTmp ==
  /\ tainted \subseteq Names /\ (robbed => tainted = Names)
  /\ ~robbed =>
       /\ file.is # "blank" /\ file.writer = None
       /\ \A p \in Procs : proc[p].at = "write" => tmp.is = "blank" /\ tmp.writer = p
       /\ \A p \in Procs : proc[p].at = "replace" =>
            tmp.is = "whole" /\ tmp.writer = None /\ tmp.data = proc[p].data
       /\ \A p, q \in Procs : proc[p].at = "replace" /\ proc[q].at = "replace" => p = q

-----------------------------------------------------------------------------
(* What the commands do with the content of the file *)

\* The empty file is good.
LEMMA EmptyGood == Empty \in Good /\ Empty \in Data
BY NoneAssumption DEF Empty, Good, Data, Entries

\* What a process loads is good.
LEMMA LoadGood ==
  ASSUME StoreInv
  PROVE  Load \in Good
BY EmptyGood DEF StoreInv, GoodFiles, Load

\* With a new entry the first account becomes the default (add).
LEMMA WithGood ==
  ASSUME NEW d \in Good, NEW n \in Names, NEW e \in {"keyring", "plaintext"}
  PROVE  With(d, n, e) \in Good
<1>1. With(d, n, e) \in Data
  BY DEF Good, Data, Entries, With
<1>2. With(d, n, e).default # None
  BY NoneAssumption DEF With
<1>3. Listed(With(d, n, e), With(d, n, e).default)
  <2>1. CASE d.default = None
    BY <2>1 DEF With, Listed, Good, Data
  <2>2. CASE d.default # None
    BY <2>2 DEF With, Listed, Good, Data
  <2> QED
    BY <2>1, <2>2
<1> QED
  BY <1>1, <1>2, <1>3 DEF Good

\* Without an entry the default is one of the accounts that remain (remove).
LEMMA WithoutGood ==
  ASSUME NEW d \in Good, NEW n \in Names, Listed(d, n), NEW x \in Without(d, n)
  PROVE  x \in Good
<1> DEFINE rest == {m \in Names \ {n} : Listed(d, m)}
<1>1. PICK y \in IF d.default # n THEN {d.default}
                 ELSE IF rest = {} THEN {None} ELSE rest :
        x = [default |-> y, entry |-> [d.entry EXCEPT ![n] = "absent"]]
  BY DEF Without
<1>2. /\ d.entry \in [Names -> Entries] /\ d.default \in Names \cup {None}
      /\ d.default # None
  BY DEF Good, Data, Listed, Empty
<1>3. x \in Data
  BY <1>1, <1>2 DEF Data, Entries
<1>4. CASE d.default # n
  <2>1. x.default = d.default /\ x.entry[d.default] = d.entry[d.default]
    BY <1>1, <1>2, <1>4
  <2>2. Listed(d, d.default)
    BY <1>2 DEF Good
  <2> QED
    BY <1>2, <1>3, <2>1, <2>2 DEF Good, Listed
<1>5. CASE d.default = n /\ rest = {}
  <2>1. x.default = None
    BY <1>1, <1>5
  <2>2. x.entry = [m \in Names |-> "absent"]
    BY <1>1, <1>2, <1>5 DEF Listed
  <2>3. x = Empty
    BY <1>1, <2>1, <2>2 DEF Empty
  <2> QED
    BY <2>1, <2>3, <1>3 DEF Good
<1>6. CASE d.default = n /\ rest # {}
  <2>1. x.default \in rest /\ x.entry = [d.entry EXCEPT ![n] = "absent"]
    BY <1>1, <1>6
  <2> QED
    BY <1>2, <1>3, <2>1, NoneAssumption DEF Good, Listed
<1> QED
  BY <1>4, <1>5, <1>6

\* An account that is listed can be the default (set_default).
LEMMA UseGood ==
  ASSUME NEW d \in Good, NEW n \in Names, Listed(d, n)
  PROVE  [d EXCEPT !.default = n] \in Good
BY NoneAssumption DEF Good, Data, Listed

-----------------------------------------------------------------------------
(* Types and content *)

\* A command that begins holds good content.
LEMMA BeginStep ==
  ASSUME StoreInv, NEW p \in Procs, NEW n \in Names, NEW at \in Steps,
         NEW op \in {"none", "add", "remove", "use", "get"}, NEW c \in Creds \cup {None},
         NEW data \in Good, Begin(p, n, op, at, c, data)
  PROVE  StoreInv'
<1> DEFINE r == [Idle EXCEPT !.at = at, !.op = op, !.name = n, !.cred = c, !.data = data]
<1>1. r \in Commands /\ r.name = n
  BY DEF Idle, Commands
<1>2. proc' = [proc EXCEPT ![p] = r] /\ UNCHANGED <<file, tmp, keyring, cut, met, robbed>>
      /\ tainted' \subseteq tainted \cup {n}
  BY DEF Begin, Overlap
<1> HIDE DEF r
<1> QED
  BY <1>1, <1>2 DEF StoreInv, Active

\* The commands (account_add, account_remove, account_use, get_credentials).
LEMMA CommandStep ==
  ASSUME StoreInv, NEW p \in Procs, Command(p)
  PROVE  StoreInv'
<1>1. CASE AccountAdd(p)
  <2>1. PICK n \in Names, c \in Creds : Begin(p, n, "add", "probe", c, Load)
    BY <1>1 DEF AccountAdd
  <2> QED
    BY <2>1, LoadGood, BeginStep DEF Steps
<1>2. CASE AccountRemove(p)
  <2>1. PICK n \in Names :
          /\ Listed(Load, n)
          /\ \E d \in Without(Load, n) :
               Begin(p, n, "remove", IF Load.entry[n] = "keyring" THEN "key" ELSE "open",
                     None, d)
    BY <1>2 DEF AccountRemove
  <2>2. PICK d \in Without(Load, n) :
           Begin(p, n, "remove", IF Load.entry[n] = "keyring" THEN "key" ELSE "open",
                 None, d)
    BY <2>1
  <2>3. d \in Good
    BY <2>1, LoadGood, WithoutGood
  <2>4. (IF Load.entry[n] = "keyring" THEN "key" ELSE "open") \in Steps
    BY DEF Steps
  <2> QED
    BY <2>2, <2>3, <2>4, BeginStep
<1>3. CASE AccountUse(p)
  <2>1. PICK n \in Names : /\ Listed(Load, n)
                           /\ Begin(p, n, "use", "open", None, [Load EXCEPT !.default = n])
    BY <1>3 DEF AccountUse
  <2>2. [Load EXCEPT !.default = n] \in Good
    BY <2>1, LoadGood, UseGood
  <2> QED
    BY <2>1, <2>2, BeginStep DEF Steps
<1>4. CASE GetCredentials(p)
  <2>1. PICK cli \in SUBSET Halves, env \in SUBSET Halves, named \in Names \cup {None} :
          \E n \in Resolve(cli, env, named) :
            /\ proc' = [proc EXCEPT ![p] =
                    [Idle EXCEPT !.at = "key", !.op = "get", !.name = n,
                       !.got = [h \in Halves |-> IF h \in cli \cup env
                                                 THEN "given" ELSE None]]]
            /\ UNCHANGED <<file, tmp, keyring, marks>>
    BY <1>4 DEF GetCredentials
  <2>2. PICK n \in Resolve(cli, env, named) :
            /\ proc' = [proc EXCEPT ![p] =
                    [Idle EXCEPT !.at = "key", !.op = "get", !.name = n,
                       !.got = [h \in Halves |-> IF h \in cli \cup env
                                                 THEN "given" ELSE None]]]
            /\ UNCHANGED <<file, tmp, keyring, marks>>
    BY <2>1
  <2> DEFINE r == [Idle EXCEPT !.at = "key", !.op = "get", !.name = n,
                       !.got = [h \in Halves |-> IF h \in cli \cup env
                                                 THEN "given" ELSE None]]
  <2>3. n \in Names
    BY LoadGood DEF Resolve, Good, Data
  <2>4. r \in Commands /\ r.name = n
    BY <2>3, EmptyGood DEF Idle, Commands, Steps
  <2>5. proc' = [proc EXCEPT ![p] = r]
    BY <2>2
  <2> HIDE DEF r
  <2> QED
    BY <2>2, <2>3, <2>4, <2>5 DEF StoreInv, Active, marks
<1> QED
  BY <1>1, <1>2, <1>3, <1>4 DEF Command

\* A process that moves on, with the rest of its locals as they were or good.
LEMMA LocalStep ==
  ASSUME StoreInv, NEW p \in Procs, NEW r \in Commands, r.at = "idle" \/ r.name \in Names,
         proc' = [proc EXCEPT ![p] = r], file' \in GoodFiles, tmp' \in GoodFiles,
         keyring' \in [Names -> [Halves -> Creds \cup {None}]],
         tainted' \subseteq Names, cut' \subseteq Names, met' \subseteq Procs,
         robbed' \in BOOLEAN
  PROVE  StoreInv'
BY DEF StoreInv, Active

\* A command that is over.
LEMMA IdleCommand == Idle \in Commands /\ Idle.at = "idle"
BY EmptyGood DEF Idle, Commands, Steps

\* The same when only its place changes.
LEMMA MoveStep ==
  ASSUME StoreInv, NEW p \in Procs, Active(p), NEW at \in Steps,
         proc' = Move(p, at), file' \in GoodFiles, tmp' \in GoodFiles,
         keyring' \in [Names -> [Halves -> Creds \cup {None}]],
         tainted' \subseteq Names, cut' \subseteq Names, met' \subseteq Procs,
         robbed' \in BOOLEAN
  PROVE  StoreInv'
<1> DEFINE r == [proc[p] EXCEPT !.at = at]
<1>1. proc[p] \in Commands /\ proc[p].name \in Names /\ proc \in [Procs -> Commands]
  BY DEF StoreInv
<1>2. r \in Commands /\ r.name \in Names
  BY <1>1 DEF Commands
<1>3. proc' = [proc EXCEPT ![p] = r]
  BY <1>1 DEF Commands, Move
<1> HIDE DEF r
<1> QED
  BY <1>2, <1>3, LocalStep

\* The probe, the prompt and the keyring (_keyring_available, account_add).
LEMMA KeyringSteps ==
  ASSUME StoreInv, NEW p \in Procs, Probe(p) \/ Confirm(p) \/ KeyringStep(p) \/ Answer(p)
  PROVE  StoreInv'
<1>1. proc[p] \in Commands /\ proc[p].name \in Names /\ Active(p)
  BY DEF StoreInv, Active, Probe, Confirm, KeyringStep, Answer, Halves
<1>2. /\ file \in GoodFiles /\ tmp \in GoodFiles /\ tainted \subseteq Names
      /\ cut \subseteq Names /\ keyring \in [Names -> [Halves -> Creds \cup {None}]]
      /\ met \subseteq Procs /\ robbed \in BOOLEAN /\ proc \in [Procs -> Commands]
  BY DEF StoreInv
<1>3. ASSUME NEW e \in {"keyring", "plaintext"}, NEW at \in Steps,
             proc' = [proc EXCEPT ![p].at = at, ![p].data = With(@, proc[p].name, e)],
             UNCHANGED <<file, tmp, keyring, tainted, cut, robbed>>, met' \subseteq met
      PROVE  StoreInv'
  <2> DEFINE r == [proc[p] EXCEPT !.at = at, !.data = With(@, proc[p].name, e)]
  <2>1. proc' = [proc EXCEPT ![p] = r]
    BY <1>1, <1>2, <1>3 DEF Commands
  <2>2. With(proc[p].data, proc[p].name, e) \in Good
    BY <1>1, WithGood DEF Commands
  <2>3. r \in Commands /\ r.name \in Names
    BY <1>1, <2>2 DEF Commands
  <2> HIDE DEF r
  <2> QED
    BY <1>2, <1>3, <2>1, <2>3, LocalStep
<1>4. ASSUME NEW at \in Steps, proc' = Move(p, at),
             UNCHANGED <<file, tmp, keyring, tainted, cut, robbed>>, met' \subseteq met
      PROVE  StoreInv'
  BY <1>1, <1>2, <1>4, MoveStep
<1>5. ASSUME proc' = [proc EXCEPT ![p] = Idle],
             UNCHANGED <<file, tmp, keyring, tainted, cut, robbed>>, met' \subseteq met
      PROVE  StoreInv'
  BY <1>2, <1>5, IdleCommand, LocalStep
<1>6. CASE Probe(p)
  BY <1>3, <1>4, <1>6 DEF Probe, Steps, marks
<1>7. CASE Confirm(p)
  BY <1>4, <1>5, <1>7 DEF Confirm, Steps, marks
<1>8. CASE KeyringStep(p)
  <2>1. PICK h \in Halves :
          /\ Touch(p, h)
          /\ proc' = [proc EXCEPT ![p].at = After(proc[p].op, h),
                  ![p].got[h] = IF proc[p].op = "get" /\ @ = None
                                THEN keyring[proc[p].name][h] ELSE @]
          /\ met' = IF keyring' = keyring THEN met ELSE met \cup Readers(proc[p].name)
          /\ UNCHANGED <<file, tmp, tainted, robbed>>
    BY <1>8 DEF KeyringStep
  <2> DEFINE r == [proc[p] EXCEPT !.at = After(proc[p].op, h),
                     !.got[h] = IF proc[p].op = "get" /\ @ = None
                                THEN keyring[proc[p].name][h] ELSE @]
  <2>2. proc' = [proc EXCEPT ![p] = r]
    BY <1>1, <1>2, <2>1 DEF Commands
  <2>3. r \in Commands /\ r.name \in Names
    <3>1. After(proc[p].op, h) \in Steps
      BY DEF After, Steps
    <3>2. keyring[proc[p].name][h] \in Creds \cup {None}
      BY <1>1, <1>2
    <3> QED
      BY <1>1, <3>1, <3>2 DEF Commands
  <2>4. /\ keyring' \in [Names -> [Halves -> Creds \cup {None}]]
        /\ cut' \subseteq Names
    <3> DEFINE n == proc[p].name
    <3>1. CASE proc[p].op = "add"
      <4>1. keyring' = [keyring EXCEPT ![n][h] = proc[p].cred] /\ cut' = cut
        BY <2>1, <3>1 DEF Touch
      <4>2. n \in Names /\ proc[p].cred \in Creds \cup {None}
        BY <1>1 DEF Commands
      <4> HIDE DEF n
      <4> QED
        BY <1>2, <4>1, <4>2
    <3>2. CASE proc[p].op = "remove"
      <4>1. PICK v \in {None, keyring[n][h]} : keyring' = [keyring EXCEPT ![n][h] = v]
        BY <2>1, <3>2 DEF Touch
      <4>2. cut' = cut \cup {n}
        BY <2>1, <3>2 DEF Touch
      <4>3. n \in Names
        BY <1>1
      <4> HIDE DEF n
      <4>4. v \in Creds \cup {None}
        BY <1>2, <4>1, <4>3
      <4> QED
        BY <1>2, <4>1, <4>2, <4>3, <4>4
    <3>3. CASE proc[p].op \notin {"add", "remove"}
      <4>1. UNCHANGED <<keyring, cut>>
        BY <2>1, <3>3 DEF Touch
      <4> QED
        BY <1>2, <4>1
    <3> QED
      BY <3>1, <3>2, <3>3
  <2>5. met' \subseteq Procs
    BY <1>2, <2>1 DEF Readers
  <2> HIDE DEF r
  <2> QED
    BY <1>2, <2>1, <2>2, <2>3, <2>4, <2>5, LocalStep
<1>9. CASE Answer(p)
  BY <1>5, <1>9 DEF Answer
<1> QED
  BY <1>6, <1>7, <1>8, <1>9

\* Saving and dying (_save).
LEMMA SaveStep ==
  ASSUME StoreInv, NEW p \in Procs, Save(p) \/ Die(p)
  PROVE  StoreInv'
<1>1. proc[p] \in Commands /\ proc[p].name \in Names /\ Active(p)
  BY DEF StoreInv, Active, Save, OpenTmp, Write, Replace, Die
<1>2. /\ file \in GoodFiles /\ tmp \in GoodFiles /\ tainted \subseteq Names
      /\ cut \subseteq Names /\ keyring \in [Names -> [Halves -> Creds \cup {None}]]
      /\ met \subseteq Procs /\ robbed \in BOOLEAN /\ proc \in [Procs -> Commands]
  BY DEF StoreInv
<1>3. NoFile \in GoodFiles /\ [is |-> "blank", data |-> Empty, writer |-> p] \in GoodFiles
  BY EmptyGood DEF NoFile, GoodFiles
<1>4. CASE OpenTmp(p)
  <2>1. PICK at \in Steps : proc' = Move(p, at)
    BY <1>4 DEF OpenTmp, Steps
  <2>2. /\ tmp' \in GoodFiles /\ tainted' \subseteq Names /\ robbed' \in BOOLEAN
        /\ UNCHANGED <<file, keyring, cut, met>>
    BY <1>2, <1>3, <1>4 DEF OpenTmp
  <2> QED
    BY <1>1, <1>2, <2>1, <2>2, MoveStep
<1>5. CASE Write(p)
  <2>1. proc' = Move(p, "replace") /\ UNCHANGED <<keyring, tainted, cut, met, robbed>>
    BY <1>5 DEF Write, marks
  <2>2. file' \in GoodFiles /\ tmp' \in GoodFiles
    BY <1>1, <1>2, <1>5 DEF Write, GoodFiles, Commands
  <2>3. "replace" \in Steps
    BY DEF Steps
  <2> QED
    BY <1>1, <1>2, <2>1, <2>2, <2>3, MoveStep
<1>6. CASE Replace(p)
  <2>1. /\ file' = tmp /\ tmp' = NoFile /\ tainted' \subseteq Names /\ cut' \subseteq Names
        /\ UNCHANGED <<keyring, met, robbed>>
    BY <1>2, <1>6 DEF Replace
  <2>2. proc' = [q \in Procs |->
                   IF q = p THEN Idle ELSE [proc[q] EXCEPT !.stale = Active(q)]]
    BY <1>6 DEF Replace
  <2>3. \A q \in Procs : /\ [proc[q] EXCEPT !.stale = Active(q)] \in Commands
                         /\ [proc[q] EXCEPT !.stale = Active(q)].name = proc[q].name
                         /\ [proc[q] EXCEPT !.stale = Active(q)].at = proc[q].at
    <3>1. ASSUME NEW c \in Commands, NEW b \in BOOLEAN
          PROVE  /\ [c EXCEPT !.stale = b] \in Commands
                 /\ [c EXCEPT !.stale = b].name = c.name /\ [c EXCEPT !.stale = b].at = c.at
      BY DEF Commands
    <3>2. \A q \in Procs : Active(q) \in BOOLEAN
      BY DEF Active
    <3> QED
      BY <1>2, <3>1, <3>2
  <2>4. proc' \in [Procs -> Commands]
    BY <2>2, <2>3, IdleCommand
  <2>5. \A q \in Procs : proc'[q].at # "idle" => proc'[q].name \in Names
    BY <2>2, <2>3, IdleCommand DEF StoreInv, Active
  <2> QED
    BY <1>2, <1>3, <2>1, <2>4, <2>5 DEF StoreInv, Active
<1>7. CASE Die(p)
  <2>1. /\ proc' = [proc EXCEPT ![p] = Idle] /\ UNCHANGED <<keyring, tainted, cut, robbed>>
        /\ met' \subseteq met
    BY <1>7 DEF Die
  <2>2. file' \in GoodFiles /\ tmp' \in GoodFiles
    BY <1>2, <1>7 DEF Die, GoodFiles
  <2> QED
    BY <1>2, <2>1, <2>2, IdleCommand, LocalStep
<1> QED
  BY <1>4, <1>5, <1>6, <1>7 DEF Save

\* The invariant of the types and of the content.
LEMMA StoreInvariant == Spec => []StoreInv
<1>1. Init => StoreInv
  <2> SUFFICES ASSUME Init PROVE StoreInv
    OBVIOUS
  <2>1. NoFile \in GoodFiles
    BY EmptyGood DEF NoFile, GoodFiles
  <2>2. proc \in [Procs -> Commands] /\ \A p \in Procs : ~Active(p)
    BY IdleCommand DEF Init, Active
  <2> QED
    BY <2>1, <2>2 DEF Init, StoreInv
<1>2. StoreInv /\ [Next]_vars => StoreInv'
  <2> SUFFICES ASSUME StoreInv, [Next]_vars PROVE StoreInv'
    OBVIOUS
  <2>1. CASE UNCHANGED vars
    BY <2>1 DEF vars, marks, StoreInv, Active
  <2> QED
    BY <2>1, CommandStep, KeyringSteps, SaveStep DEF Next
<1> QED
  BY <1>1, <1>2, PTL DEF Spec

\* Every variable keeps its type (AccountStore, account_cmd.py).
THEOREM TypeCorrect == Spec => []TypeOK
<1>1. StoreInv => TypeOK
  <2> SUFFICES ASSUME StoreInv PROVE TypeOK
    OBVIOUS
  <2>1. file \in Files /\ tmp \in Files
    BY DEF StoreInv, GoodFiles, Good, Files
  <2>2. \A p \in Procs :
          /\ proc[p].name \in Names \cup {None} /\ proc[p].cred \in Creds \cup {None}
          /\ proc[p].data \in Data /\ proc[p].stale \in BOOLEAN
          /\ proc[p].got \in [Halves -> Creds \cup {None, "given"}]
    BY DEF StoreInv, Commands, Good
  <2> QED
    BY <2>1, <2>2 DEF StoreInv, TypeOK
<1> QED
  BY <1>1, StoreInvariant, PTL

\* The default of every file, old, new or about to be written, is listed in it, and
\* a file with accounts has one (add, remove, set_default).
THEOREM DefaultAlwaysListed == Spec => []DefaultListed
<1>1. StoreInv => DefaultListed
  <2> SUFFICES ASSUME StoreInv,
                      NEW d \in {file.data, tmp.data} \cup {proc[p].data : p \in Procs}
               PROVE  IF d.default = None THEN d = Empty ELSE Listed(d, d.default)
    BY DEF DefaultListed
  <2>1. d \in Good
    BY DEF StoreInv, GoodFiles, Commands
  <2> QED
    BY <2>1 DEF Good
<1> QED
  BY <1>1, StoreInvariant, PTL

-----------------------------------------------------------------------------
(* The file is whole *)

\* The names that raced never get fewer.
LEMMA TaintedGrows ==
  ASSUME tainted \subseteq Names, [Next]_vars
  PROVE  tainted \subseteq tainted'
<1>1. ASSUME NEW p \in Procs, Command(p) PROVE tainted \subseteq tainted'
  BY <1>1 DEF Command, AccountAdd, AccountRemove, AccountUse, GetCredentials, Begin, marks
<1>2. ASSUME NEW p \in Procs, Save(p) PROVE tainted \subseteq tainted'
  BY <1>2 DEF Save, OpenTmp, Write, Replace, marks
<1>3. ASSUME NEW p \in Procs, Die(p) \/ Probe(p) \/ Confirm(p) \/ Answer(p)
      PROVE  tainted \subseteq tainted'
  BY <1>3 DEF Die, Probe, Confirm, Answer, marks
<1>4. ASSUME NEW p \in Procs, KeyringStep(p) PROVE tainted \subseteq tainted'
  BY <1>4 DEF KeyringStep
<1>5. CASE UNCHANGED vars
  BY <1>5 DEF vars, marks
<1> QED
  BY <1>1, <1>2, <1>3, <1>4, <1>5 DEF Next

\* What was taken from a process that saves is not forgotten, and taints every name.
LEMMA RobbedStays ==
  ASSUME OwnTmp, StoreInv, StoreInv', [Next]_vars
  PROVE  (robbed => robbed') /\ (robbed' => tainted' = Names)
<1>1. tainted \subseteq tainted' /\ tainted' \subseteq Names
  BY TaintedGrows DEF StoreInv
<1>2. \/ robbed' = robbed
      \/ robbed' = TRUE /\ tainted' = Names
  <2>1. ASSUME NEW p \in Procs, OpenTmp(p)
        PROVE  robbed' = robbed \/ (robbed' = TRUE /\ tainted' = Names)
    BY <2>1 DEF OpenTmp
  <2>2. ASSUME NEW p \in Procs, Command(p) PROVE robbed' = robbed
    BY <2>2 DEF Command, AccountAdd, AccountRemove, AccountUse, GetCredentials, Begin, marks
  <2>3. ASSUME NEW p \in Procs,
               \/ Write(p) \/ Replace(p) \/ Die(p)
               \/ Probe(p) \/ Confirm(p) \/ KeyringStep(p) \/ Answer(p)
        PROVE  robbed' = robbed
    BY <2>3 DEF Write, Replace, Die, Probe, Confirm, KeyringStep, Answer, marks
  <2>4. CASE UNCHANGED vars
    BY <2>4 DEF vars, marks
  <2> QED
    BY <2>1, <2>2, <2>3, <2>4 DEF Next, Save
<1> QED
  BY <1>1, <1>2 DEF OwnTmp

\* A process that stays off the temporary file does not disturb its owner.
LEMMA OwnTmpKept ==
  ASSUME OwnTmp, StoreInv, StoreInv', NEW p \in Procs, UNCHANGED <<file, tmp>>,
         robbed => robbed', robbed' => tainted' = Names,
         \A q \in Procs \ {p} : proc'[q] = proc[q],
         proc'[p].at \notin {"write", "replace"}
  PROVE  OwnTmp'
BY DEF OwnTmp, StoreInv

\* _save and a crash in it: the file that is taken away, if any, was nobody's.
LEMMA OwnTmpSave ==
  ASSUME OwnTmp, StoreInv, StoreInv', ~robbed, ~robbed',
         NEW p \in Procs, Save(p) \/ Die(p)
  PROVE  OwnTmp'
<1>1. /\ proc \in [Procs -> Commands] /\ file \in GoodFiles /\ tmp \in GoodFiles
      /\ None \notin Procs
  BY NoneAssumption DEF StoreInv
<1>2. CASE OpenTmp(p)
  <2>1. file' = file /\ \A q \in Procs \ {p} : proc'[q] = proc[q]
    BY <1>1, <1>2 DEF OpenTmp, Move
  <2>2. \A q \in Procs \ {p} : proc[q].at \notin {"write", "replace"}
    <3>1. CASE tmp = NoFile
      BY <1>1, <3>1 DEF OwnTmp, NoFile
    <3>2. CASE tmp # NoFile
      BY <1>1, <1>2, <3>2 DEF OpenTmp, OwnTmp
    <3> QED
      BY <3>1, <3>2
  <2>3. \/ proc'[p].at = "write" /\ tmp'.is = "blank" /\ tmp'.writer = p
        \/ proc'[p].at = "reopen"
    BY <1>1, <1>2 DEF OpenTmp, Move, Commands
  <2> QED
    BY <2>1, <2>2, <2>3 DEF OwnTmp, StoreInv
<1>3. CASE Write(p)
  <2>1. \A q \in Procs \ {p} : proc[q].at \notin {"write", "replace"}
    BY <1>1, <1>3 DEF Write, OwnTmp
  <2>2. /\ proc'[p].at = "replace" /\ \A q \in Procs \ {p} : proc'[q] = proc[q]
        /\ tmp.writer = p
    BY <1>1, <1>3 DEF Write, Move, Commands, OwnTmp
  <2>3. tmp'.is = "whole" /\ tmp'.writer = None /\ tmp'.data = proc'[p].data
    BY <1>1, <1>3, <2>2 DEF Write, Move, Commands
  <2>4. file'.is # "blank" /\ file'.writer = None
    BY <1>1, <1>3 DEF Write, OwnTmp
  <2> QED
    BY <2>1, <2>2, <2>3, <2>4 DEF OwnTmp, StoreInv
<1>4. CASE Replace(p)
  <2>1. tmp.is = "whole" /\ tmp.writer = None /\ file' = tmp
    BY <1>4 DEF Replace, OwnTmp
  <2>2. \A q \in Procs \ {p} : proc[q].at \notin {"write", "replace"}
    BY <1>1, <1>4 DEF Replace, OwnTmp
  <2>3. \A q \in Procs : proc'[q].at \notin {"write", "replace"}
    BY <1>1, <1>4, <2>2 DEF Replace, Idle, Commands
  <2> QED
    BY <2>1, <2>3 DEF OwnTmp, StoreInv
<1>5. CASE Die(p)
  <2>1. /\ proc'[p].at = "idle" /\ \A q \in Procs \ {p} : proc'[q] = proc[q]
    BY <1>1, <1>5 DEF Die, Idle
  <2>2. /\ file'.is = file.is /\ tmp'.is = tmp.is /\ tmp'.data = tmp.data
        /\ file'.writer = None
    BY <1>1, <1>5 DEF Die, GoodFiles, OwnTmp
  <2>3. \/ tmp'.writer = tmp.writer
        \/ tmp.writer = p /\ tmp'.writer = None
    BY <1>1, <1>5 DEF Die, GoodFiles
  <2>4. ASSUME NEW q \in Procs, proc'[q].at \in {"write", "replace"}
        PROVE  q # p /\ proc'[q] = proc[q]
    BY <2>1, <2>4
  <2>5. \A q \in Procs : proc'[q].at = "write" => tmp'.is = "blank" /\ tmp'.writer = q
    BY <1>1, <2>2, <2>3, <2>4 DEF OwnTmp
  <2>6. \A q \in Procs : proc'[q].at = "replace" =>
          tmp'.is = "whole" /\ tmp'.writer = None /\ tmp'.data = proc'[q].data
    BY <1>1, <2>2, <2>3, <2>4, NoneAssumption DEF OwnTmp
  <2>7. \A q, u \in Procs : proc'[q].at = "replace" /\ proc'[u].at = "replace" => q = u
    BY <1>1, <2>4 DEF OwnTmp
  <2>8. file'.is # "blank"
    BY <1>1, <1>5, <2>2 DEF Die, OwnTmp
  <2> QED
    BY <2>2, <2>5, <2>6, <2>7, <2>8 DEF OwnTmp, StoreInv
<1> QED
  BY <1>2, <1>3, <1>4, <1>5 DEF Save

\* Who writes or replaces is alone with its file in every behaviour.
LEMMA OwnTmpInvariant == Spec => []OwnTmp
<1>1. Init => OwnTmp
  BY DEF Init, OwnTmp, NoFile, Idle
<1>2. OwnTmp /\ StoreInv /\ StoreInv' /\ [Next]_vars => OwnTmp'
  <2> SUFFICES ASSUME OwnTmp, StoreInv, StoreInv', [Next]_vars PROVE OwnTmp'
    OBVIOUS
  <2>1. (robbed => robbed') /\ (robbed' => tainted' = Names) /\ tainted' \subseteq Names
    BY RobbedStays DEF StoreInv
  <2>2. CASE robbed'
    BY <2>1, <2>2 DEF OwnTmp
  <2>3. CASE UNCHANGED vars
    BY <2>3 DEF vars, marks, OwnTmp
  <2>4. ASSUME NEW p \in Procs, ~robbed', Save(p) \/ Die(p)
        PROVE  OwnTmp'
    BY <2>1, <2>4, OwnTmpSave
  <2>5. ASSUME NEW p \in Procs, Command(p) PROVE OwnTmp'
    <3>1. /\ UNCHANGED <<file, tmp>>
          /\ \A q \in Procs \ {p} : proc'[q] = proc[q]
          /\ proc'[p].at \notin {"write", "replace"}
      <4> SUFFICES ASSUME NEW r, r.at \notin {"write", "replace"},
                          proc' = [proc EXCEPT ![p] = r]
                   PROVE  /\ \A q \in Procs \ {p} : proc'[q] = proc[q]
                          /\ proc'[p].at \notin {"write", "replace"}
        BY <2>5 DEF Command, AccountAdd, AccountRemove, AccountUse, GetCredentials, Begin,
                    Idle
      <4> QED
        BY DEF StoreInv
    <3> QED
      BY <2>1, <3>1, OwnTmpKept
  <2>6. ASSUME NEW p \in Procs, Probe(p) \/ Confirm(p) \/ KeyringStep(p) \/ Answer(p)
        PROVE  OwnTmp'
    <3>1. UNCHANGED <<file, tmp>>
      BY <2>6 DEF Probe, Confirm, KeyringStep, Answer
    <3>2. proc[p] \in Commands /\ proc \in [Procs -> Commands]
      BY DEF StoreInv
    <3>3. /\ \A q \in Procs \ {p} : proc'[q] = proc[q]
          /\ proc'[p].at \notin {"write", "replace"}
      <4>1. CASE Probe(p)
        BY <3>2, <4>1 DEF Probe, Move, Commands
      <4>2. CASE Confirm(p)
        BY <3>2, <4>2 DEF Confirm, Move, Commands, Idle
      <4>3. CASE KeyringStep(p)
        BY <3>2, <4>3 DEF KeyringStep, Commands, After, Halves
      <4>4. CASE Answer(p)
        BY <3>2, <4>4 DEF Answer, Idle
      <4> QED
        BY <2>6, <4>1, <4>2, <4>3, <4>4
    <3> QED
      BY <2>1, <3>1, <3>3, OwnTmpKept
  <2> QED
    BY <2>1, <2>2, <2>3, <2>4, <2>5, <2>6 DEF Next
<1> QED
  BY <1>1, <1>2, StoreInvariant, PTL DEF Spec

\* No crash leaves accounts.yaml blank, nor do commands side by side, as long as none
\* unlinks the temporary file of one that is saving (O_EXCL and os.replace in _save).
THEOREM FileAlwaysWhole == Spec => []FileWhole
<1>1. OwnTmp => FileWhole
  BY DEF OwnTmp, FileWhole
<1> QED
  BY <1>1, OwnTmpInvariant, PTL

-----------------------------------------------------------------------------
(* The pairs in the keyring *)

\* What kind of command can be where.
OpsOK ==
  \A p \in Procs : Active(p) =>
    /\ proc[p].op \in {"add", "remove", "use", "get"}
    /\ proc[p].op = "get" => proc[p].at \in {"key", "secret", "answer"}
    /\ proc[p].at = "answer" => proc[p].op = "get"
    /\ proc[p].at \in {"probe", "allowed", "ask"} => proc[p].op = "add"

Whole(n) == keyring[n]["key"] = keyring[n]["secret"] /\ keyring[n]["key"] # None

\* Of a pair that is listed one half may be gone, but no half is of another pair.
PairListed(n) ==
  Load.entry[n] = "keyring" =>
    /\ None \in {keyring[n]["key"], keyring[n]["secret"]} \/ Whole(n)
    /\ n \notin cut => Whole(n)

\* No two commands that write run for this name.
Alone(p, n) ==
  Writer(p) /\ proc[p].name = n =>
    \A q \in Procs \ {p} : Writer(q) => proc[q].name # n

\* A command for another name has an up-to-date entry of this one in its copy.
Copied(p, n) ==
  Active(p) /\ proc[p].op # "get" /\ proc[p].name # n /\ ~proc[p].stale =>
    proc[p].data.entry[n] = Load.entry[n]

\* How far a command for this name has come.
Adding(p, n) ==
  /\ Load.entry[n] = "absent" /\ proc[p].cred \in Creds
  /\ proc[p].at \in {"key", "secret"} => proc[p].data.entry[n] = "keyring"
  /\ proc[p].at = "secret" => keyring[n]["key"] = proc[p].cred
  /\ /\ proc[p].at \in {"open", "reopen", "write", "replace"}
     /\ proc[p].data.entry[n] = "keyring"
     => keyring[n]["key"] = proc[p].cred /\ keyring[n]["secret"] = proc[p].cred

Getting(p, n) ==
  /\ None \in {keyring[n]["key"], keyring[n]["secret"]} \/ Whole(n)
  /\ proc[p].at = "key" => proc[p].got["key"] = None
  /\ proc[p].at \in {"secret", "answer"} => proc[p].got["key"] = keyring[n]["key"]
  /\ proc[p].at \in {"key", "secret"} => proc[p].got["secret"] = None
  /\ proc[p].at = "answer" => proc[p].got["secret"] = keyring[n]["secret"]

Own(p, n) ==
  Active(p) /\ proc[p].name = n =>
    /\ proc[p].op = "add" => Adding(p, n)
    /\ proc[p].op = "remove" => proc[p].data.entry[n] = "absent"
    /\ proc[p].op = "use" => proc[p].data.entry[n] = Load.entry[n]
    /\ proc[p].op = "get" /\ p \notin met => Getting(p, n)

Process(p, n) == Alone(p, n) /\ Copied(p, n) /\ Own(p, n)

PairInv ==
  OpsOK /\ \A n \in Names \ tainted : PairListed(n) /\ \A p \in Procs : Process(p, n)

\* What is known before and after a step that leaves the name n untainted.
Known(n) ==
  /\ StoreInv /\ StoreInv' /\ OwnTmp /\ PairInv /\ n \in Names /\ n \notin tainted'
  /\ n \notin tainted

\* A step of one process that leaves the content of the file alone, and the
\* keyring's pair of n too unless it is the process's own; those who read it then
\* have met it.
LEMMA PairFrame ==
  ASSUME NEW n, Known(n), NEW p \in Procs, Load' = Load,
         \A q \in Procs \ {p} : proc'[q] = proc[q],
         met \subseteq met' \cup {p},
         \/ keyring'[n] = keyring[n]
         \/ Writer(p) /\ proc[p].name = n /\ Readers(n) \subseteq met',
         Writer(p)' /\ proc'[p].name = n =>
           \A q \in Procs \ {p} : Writer(q) => proc[q].name # n,
         PairListed(n)', Copied(p, n)', Own(p, n)'
  PROVE  PairListed(n)' /\ \A q \in Procs : Process(q, n)'
<1>1. Process(p, n)'
  BY DEF Process, Alone, Writer, Active
<1>2. ASSUME NEW q \in Procs \ {p} PROVE Process(q, n)'
  <2>1. Process(q, n) /\ Process(p, n)
    BY DEF Known, PairInv
  <2>2. Alone(q, n)'
    <3> SUFFICES ASSUME Writer(q), proc[q].name = n, NEW u \in Procs \ {q}, Writer(u)',
                        proc'[u].name = n
                 PROVE  FALSE
      BY DEF Alone, Writer, Active
    <3>1. CASE u = p
      BY <3>1
    <3>2. CASE u # p
      BY <2>1, <3>2 DEF Process, Alone, Writer, Active
    <3> QED
      BY <3>1, <3>2
  <2>3. Copied(q, n)'
    BY <2>1 DEF Process, Copied, Active
  <2>4. Own(q, n)'
    <3>1. CASE Writer(q) /\ proc[q].name = n
      <4>1. keyring'[n] = keyring[n]
        BY <2>1, <3>1 DEF Process, Alone
      <4> QED
        BY <2>1, <3>1, <4>1 DEF Process, Own, Adding, Writer, Active
    <3>2. CASE q \in Readers(n)
      <4>1. q \notin met' => keyring'[n] = keyring[n] /\ q \notin met
        BY <3>2
      <4>2. q \notin met' => Getting(q, n)'
        BY <2>1, <3>2, <4>1 DEF Process, Own, Getting, Whole, Readers, Active
      <4> QED
        BY <3>2, <4>2 DEF Own, Readers, Active
    <3>3. CASE ~(Active(q) /\ proc[q].name = n)
      BY <3>3 DEF Own, Active
    <3> QED
      BY <3>1, <3>2, <3>3 DEF Writer, Readers
  <2> QED
    BY <2>2, <2>3, <2>4 DEF Process
<1> QED
  BY <1>1, <1>2

\* A command begins: it runs alone, or its name is tainted.
LEMMA PairBegin ==
  ASSUME NEW n, Known(n), NEW p \in Procs, ~Active(p), NEW r \in Commands,
         r.at # "idle", proc' = [proc EXCEPT ![p] = r],
         UNCHANGED <<file, tmp, keyring, cut, met>>,
         r.op # "get" => tainted' = tainted \cup Overlap(p, r.name),
         r.op # "get" /\ r.name # n => r.data.entry[n] = Load.entry[n],
         Own(p, n)'
  PROVE  PairListed(n)' /\ \A q \in Procs : Process(q, n)'
<1>1. Load' = Load
  BY DEF Load
<1>2. proc'[p] = r /\ \A q \in Procs \ {p} : proc'[q] = proc[q]
  BY DEF Known, StoreInv
<1>3. PairListed(n)'
  BY <1>1 DEF Known, PairInv, PairListed, Whole
<1>4. Writer(p)' /\ proc'[p].name = n =>
        \A q \in Procs \ {p} : Writer(q) => proc[q].name # n
  BY <1>2 DEF Known, Overlap, Writer
<1>5. Copied(p, n)'
  BY <1>1, <1>2 DEF Copied
<1> QED
  BY <1>1, <1>2, <1>3, <1>4, <1>5, PairFrame

\* The four commands begin with what Adding, Own and Getting say of them.
LEMMA PairCommand ==
  ASSUME NEW n, Known(n), NEW p \in Procs, Command(p)
  PROVE  PairListed(n)' /\ \A q \in Procs : Process(q, n)'
<1> USE DEF Known
<1>1. Load' = Load
  BY DEF Load, Command, AccountAdd, AccountRemove, AccountUse, GetCredentials, Begin, marks
<1>2. proc \in [Procs -> Commands] /\ proc' \in [Procs -> Commands]
  BY DEF StoreInv
<1>3. CASE AccountAdd(p)
  <2>1. PICK m \in Names, c \in Creds :
          MayAdd(Load, m) /\ Begin(p, m, "add", "probe", c, Load)
    BY <1>3 DEF AccountAdd
  <2> DEFINE r == [Idle EXCEPT !.at = "probe", !.op = "add", !.name = m, !.cred = c,
                               !.data = Load]
  <2>2. /\ proc' = [proc EXCEPT ![p] = r] /\ ~Active(p)
        /\ UNCHANGED <<file, tmp, keyring, cut, met>> /\ tainted' = tainted \cup Overlap(p, m)
    BY <2>1 DEF Begin
  <2>3. proc'[p] = r
    BY <1>2, <2>2
  <2>4. r \in Commands
    BY <1>2, <2>3
  <2>5. r.at = "probe" /\ r.op = "add" /\ r.name = m /\ r.cred = c /\ r.data = Load
    BY DEF Idle
  <2> HIDE DEF r
  <2>6. Own(p, n)'
    BY <1>1, <2>1, <2>3, <2>5 DEF Own, Adding, MayAdd, Listed
  <2> QED
    BY <2>2, <2>4, <2>5, <2>6, PairBegin
<1>4. CASE AccountRemove(p)
  <2>1. PICK m \in Names :
          /\ Listed(Load, m)
          /\ \E d \in Without(Load, m) :
               Begin(p, m, "remove", IF Load.entry[m] = "keyring" THEN "key" ELSE "open",
                     None, d)
    BY <1>4 DEF AccountRemove
  <2>2. PICK d \in Without(Load, m) :
          Begin(p, m, "remove", IF Load.entry[m] = "keyring" THEN "key" ELSE "open", None, d)
    BY <2>1
  <2> DEFINE r == [Idle EXCEPT !.at = IF Load.entry[m] = "keyring" THEN "key" ELSE "open",
                               !.op = "remove", !.name = m, !.cred = None, !.data = d]
  <2>3. /\ proc' = [proc EXCEPT ![p] = r] /\ ~Active(p)
        /\ UNCHANGED <<file, tmp, keyring, cut, met>> /\ tainted' = tainted \cup Overlap(p, m)
    BY <2>2 DEF Begin
  <2>4. proc'[p] = r
    BY <1>2, <2>3
  <2>5. r \in Commands
    BY <1>2, <2>4
  <2>6. r.at \in {"key", "open"} /\ r.op = "remove" /\ r.name = m /\ r.data = d
    BY DEF Idle
  <2> HIDE DEF r
  <2>7. d.entry = [Load.entry EXCEPT ![m] = "absent"]
    BY DEF Without
  <2>8. Load.entry \in [Names -> Entries]
    BY LoadGood DEF Good, Data
  <2>9. Own(p, n)'
    BY <1>1, <2>4, <2>6, <2>7, <2>8 DEF Own
  <2> QED
    BY <2>3, <2>5, <2>6, <2>7, <2>8, <2>9, PairBegin
<1>5. CASE AccountUse(p)
  <2>1. PICK m \in Names : Begin(p, m, "use", "open", None, [Load EXCEPT !.default = m])
    BY <1>5 DEF AccountUse
  <2> DEFINE r == [Idle EXCEPT !.at = "open", !.op = "use", !.name = m, !.cred = None,
                               !.data = [Load EXCEPT !.default = m]]
  <2>2. /\ proc' = [proc EXCEPT ![p] = r] /\ ~Active(p)
        /\ UNCHANGED <<file, tmp, keyring, cut, met>> /\ tainted' = tainted \cup Overlap(p, m)
    BY <2>1 DEF Begin
  <2>3. proc'[p] = r
    BY <1>2, <2>2
  <2>4. r \in Commands
    BY <1>2, <2>3
  <2>5. r.at = "open" /\ r.op = "use" /\ r.name = m /\ r.data.entry = Load.entry
    <3>1. Load \in Data
      BY LoadGood DEF Good
    <3> QED
      BY <3>1 DEF Idle, Data
  <2> HIDE DEF r
  <2>6. Own(p, n)'
    BY <1>1, <2>3, <2>5 DEF Own
  <2> QED
    BY <2>2, <2>4, <2>5, <2>6, PairBegin
<1>6. CASE GetCredentials(p)
  <2>1. PICK cli \in SUBSET Halves, env \in SUBSET Halves, named \in Names \cup {None} :
          \E m \in Resolve(cli, env, named) :
            /\ ~Active(p) /\ Load.entry[m] = "keyring"
            /\ proc' = [proc EXCEPT ![p] =
                    [Idle EXCEPT !.at = "key", !.op = "get", !.name = m,
                       !.got = [h \in Halves |-> IF h \in cli \cup env
                                                 THEN "given" ELSE None]]]
            /\ UNCHANGED <<file, tmp, keyring, marks>>
    BY <1>6 DEF GetCredentials
  <2> DEFINE g == [h \in Halves |-> IF h \in cli \cup env THEN "given" ELSE None]
  <2>2. PICK m \in Resolve(cli, env, named) :
            /\ ~Active(p) /\ Load.entry[m] = "keyring"
            /\ proc' = [proc EXCEPT ![p] =
                    [Idle EXCEPT !.at = "key", !.op = "get", !.name = m, !.got = g]]
            /\ UNCHANGED <<file, tmp, keyring, marks>>
    BY <2>1
  <2> DEFINE r == [Idle EXCEPT !.at = "key", !.op = "get", !.name = m, !.got = g]
  <2>3. proc'[p] = r /\ proc' = [proc EXCEPT ![p] = r]
    BY <1>2, <2>2
  <2>4. r \in Commands
    BY <1>2, <2>3
  <2>5. cli \cup env = {}
    BY DEF Resolve
  <2>6. r.at = "key" /\ r.op = "get" /\ r.name = m /\ r.got["key"] = None
        /\ r.got["secret"] = None
    BY <2>5 DEF Idle, Halves
  <2> HIDE DEF r
  <2>7. Own(p, n)'
    <3> SUFFICES ASSUME n = m PROVE Getting(p, n)'
      BY <2>3, <2>6 DEF Own
    <3>1. None \in {keyring[n]["key"], keyring[n]["secret"]} \/ Whole(n)
      BY <2>2 DEF PairInv, PairListed
    <3> QED
      BY <2>2, <2>3, <2>6, <3>1 DEF Getting, Whole
  <2> QED
    BY <2>2, <2>3, <2>4, <2>6, <2>7, PairBegin DEF marks
<1> QED
  BY <1>3, <1>4, <1>5, <1>6 DEF Command

\* A process is over.
LEMMA PairIdle ==
  ASSUME NEW n, Known(n), NEW p \in Procs, Load' = Load,
         proc' = [proc EXCEPT ![p] = Idle], UNCHANGED <<keyring, cut>>,
         met \subseteq met' \cup {p}
  PROVE  PairListed(n)' /\ \A q \in Procs : Process(q, n)'
<1>1. proc'[p] = Idle /\ \A q \in Procs \ {p} : proc'[q] = proc[q]
  BY DEF Known, StoreInv
<1>2. ~Active(p)'
  BY <1>1 DEF Active, Idle
<1>3. PairListed(n)'
  BY DEF Known, PairInv, PairListed, Whole
<1> QED
  BY <1>1, <1>2, <1>3, PairFrame DEF Copied, Own, Writer

\* A process moves on; nothing that is known of its command depends on it.
LEMMA PairMove ==
  ASSUME NEW n, Known(n), NEW p \in Procs, Active(p), NEW r \in Commands, Load' = Load,
         proc' = [proc EXCEPT ![p] = r], UNCHANGED <<keyring, cut, met>>,
         r.op = proc[p].op, r.name = proc[p].name, r.stale = proc[p].stale,
         r.name # n => r.data.entry[n] = proc[p].data.entry[n],
         Own(p, n)'
  PROVE  PairListed(n)' /\ \A q \in Procs : Process(q, n)'
<1>1. proc'[p] = r /\ \A q \in Procs \ {p} : proc'[q] = proc[q]
  BY DEF Known, StoreInv
<1>2. PairListed(n)'
  BY DEF Known, PairInv, PairListed, Whole
<1>3. Process(p, n)
  BY DEF Known, PairInv
<1>4. Copied(p, n)'
  BY <1>1, <1>3 DEF Process, Copied
<1>5. Writer(p)' /\ proc'[p].name = n =>
        \A q \in Procs \ {p} : Writer(q) => proc[q].name # n
  BY <1>1, <1>3 DEF Process, Alone, Writer
<1> QED
  BY <1>1, <1>2, <1>4, <1>5, PairFrame

\* The probe and the prompt: only here an entry is added to the copy.
LEMMA PairProbe ==
  ASSUME NEW n, Known(n), NEW p \in Procs, Probe(p) \/ Confirm(p) \/ Answer(p)
  PROVE  PairListed(n)' /\ \A q \in Procs : Process(q, n)'
<1>1. Load' = Load /\ UNCHANGED <<keyring, cut>> /\ met \subseteq met' \cup {p}
  BY DEF Load, Probe, Confirm, Answer, marks
<1>2. /\ proc \in [Procs -> Commands] /\ proc' \in [Procs -> Commands]
      /\ proc[p] \in Commands /\ Active(p) /\ Process(p, n)
      /\ proc[p].at \in {"probe", "allowed", "ask"} => proc[p].op = "add"
  BY DEF Known, StoreInv, Active, PairInv, OpsOK, Probe, Confirm, Answer
<1>3. ASSUME NEW e \in {"keyring", "plaintext"}, NEW at \in {"key", "open"},
             at = "open" => e = "plaintext", at = "key" => e = "keyring",
             proc[p].at \in {"probe", "allowed"},
             proc' = [proc EXCEPT ![p].at = at, ![p].data = With(@, proc[p].name, e)],
             met' = met
      PROVE  PairListed(n)' /\ \A q \in Procs : Process(q, n)'
  <2> DEFINE d == With(proc[p].data, proc[p].name, e)
             r == [proc[p] EXCEPT !.at = at, !.data = d]
  <2>1. proc' = [proc EXCEPT ![p] = r] /\ proc'[p] = r
    BY <1>2, <1>3 DEF Commands
  <2>2. r \in Commands
    BY <1>2, <2>1
  <2>3. d.entry = [proc[p].data.entry EXCEPT ![proc[p].name] = e]
        /\ proc[p].data.entry \in [Names -> Entries]
    BY <1>2 DEF With, Commands, Good, Data
  <2>4. /\ r.op = "add" /\ r.name = proc[p].name /\ r.stale = proc[p].stale
        /\ r.at = at /\ r.data = d /\ r.cred = proc[p].cred
    BY <1>2, <1>3 DEF Commands
  <2> HIDE DEF r, d
  <2>5. Own(p, n)'
    <3> SUFFICES ASSUME proc[p].name = n PROVE Adding(p, n)'
      BY <1>2, <2>1, <2>4 DEF Own
    <3>1. Adding(p, n) /\ n \in Names
      BY <1>2, <1>3 DEF Process, Own, Known
    <3>2. proc'[p].data.entry[n] = e /\ proc'[p].at = at /\ proc'[p].cred = proc[p].cred
      BY <2>1, <2>3, <2>4, <3>1
    <3> QED
      BY <1>1, <1>3, <3>1, <3>2 DEF Adding
  <2>6. r.name # n => r.data.entry[n] = proc[p].data.entry[n]
    <3>1. n \in Names
      BY DEF Known
    <3> QED
      BY <2>3, <2>4, <3>1
  <2>7. r.op = proc[p].op
    BY <1>2, <1>3, <2>4
  <2> QED
    BY <1>1, <1>2, <1>3, <2>1, <2>2, <2>4, <2>5, <2>6, <2>7, PairMove
<1>4. ASSUME NEW at \in {"ask", "allowed"}, proc[p].at \in {"probe", "ask"},
             proc' = Move(p, at), met' = met
      PROVE  PairListed(n)' /\ \A q \in Procs : Process(q, n)'
  <2> DEFINE r == [proc[p] EXCEPT !.at = at]
  <2>1. proc' = [proc EXCEPT ![p] = r] /\ proc'[p] = r
    BY <1>2, <1>4 DEF Commands, Move
  <2>2. r \in Commands
    BY <1>2, <2>1
  <2>3. /\ r.op = "add" /\ proc[p].op = "add" /\ r.name = proc[p].name
        /\ r.stale = proc[p].stale /\ r.at = at /\ r.data = proc[p].data
        /\ r.cred = proc[p].cred
    BY <1>2, <1>4 DEF Commands
  <2> HIDE DEF r
  <2>4. Own(p, n)'
    BY <1>1, <1>2, <1>4, <2>1, <2>3 DEF Own, Adding, Process
  <2> QED
    BY <1>1, <1>2, <1>4, <2>1, <2>2, <2>3, <2>4, PairMove
<1>5. CASE proc' = [proc EXCEPT ![p] = Idle]
  BY <1>1, <1>5, PairIdle
<1>6. CASE Probe(p)
  BY <1>3, <1>4, <1>6 DEF Probe, marks
<1>7. CASE Confirm(p)
  BY <1>4, <1>5, <1>7 DEF Confirm, marks
<1>8. CASE Answer(p)
  BY <1>5, <1>8 DEF Answer
<1> QED
  BY <1>6, <1>7, <1>8

\* One half of a pair is written, deleted or read (set_password, delete_password,
\* get_password).
LEMMA PairTouch ==
  ASSUME NEW n, Known(n), NEW p \in Procs, KeyringStep(p)
  PROVE  PairListed(n)' /\ \A q \in Procs : Process(q, n)'
<1>1. Load' = Load
  BY DEF Load, KeyringStep
<1>2. /\ proc \in [Procs -> Commands] /\ proc' \in [Procs -> Commands]
      /\ proc[p] \in Commands /\ Active(p) /\ Process(p, n) /\ PairListed(n)
      /\ proc[p].op \in {"add", "remove", "use", "get"} /\ proc[p].name \in Names
      /\ keyring \in [Names -> [Halves -> Creds \cup {None}]] /\ n \in Names
  BY DEF Known, StoreInv, Active, PairInv, OpsOK, KeyringStep, Halves
<1>3. PICK h \in Halves :
        /\ proc[p].at = h /\ Touch(p, h)
        /\ proc' = [proc EXCEPT ![p].at = After(proc[p].op, h),
              ![p].got[h] = IF proc[p].op = "get" /\ @ = None
                            THEN keyring[proc[p].name][h] ELSE @]
  BY DEF KeyringStep
<1>4. /\ proc'[p].op = proc[p].op /\ proc'[p].name = proc[p].name
      /\ proc'[p].stale = proc[p].stale /\ proc'[p].data = proc[p].data
      /\ proc'[p].cred = proc[p].cred /\ proc'[p].at = After(proc[p].op, h)
      /\ \A q \in Procs \ {p} : proc'[q] = proc[q]
  BY <1>2, <1>3 DEF Commands
<1>5. proc'[p].got = [proc[p].got EXCEPT ![h] = IF proc[p].op = "get" /\ @ = None
                            THEN keyring[proc[p].name][h] ELSE @]
  BY <1>2, <1>3 DEF Commands
<1>6. proc[p].got \in [Halves -> Creds \cup {None, "given"}]
  BY <1>2 DEF Commands
<1>7. /\ met \subseteq met' \cup {p}
      /\ \/ keyring'[n] = keyring[n]
         \/ Writer(p) /\ proc[p].name = n /\ Readers(n) \subseteq met'
  <2>1. met' = IF keyring' = keyring THEN met ELSE met \cup Readers(proc[p].name)
    BY DEF KeyringStep
  <2>2. keyring'[n] # keyring[n] => Writer(p) /\ proc[p].name = n
    BY <1>2, <1>3 DEF Touch, Writer
  <2> QED
    BY <2>1, <2>2
<1>8. Copied(p, n)'
  BY <1>1, <1>2, <1>4 DEF Process, Copied, Active
<1>9. Writer(p)' /\ proc'[p].name = n =>
        \A q \in Procs \ {p} : Writer(q) => proc[q].name # n
  BY <1>2, <1>4 DEF Process, Alone, Writer
<1>10. PairListed(n)' /\ Own(p, n)'
  <2>1. CASE proc[p].name # n
    <3>1. keyring'[n] = keyring[n] /\ (n \in cut' <=> n \in cut)
      BY <1>2, <1>3, <2>1 DEF Touch
    <3> QED
      BY <1>1, <1>2, <1>4, <2>1, <3>1 DEF PairListed, Whole, Own
  <2>2. CASE proc[p].name = n /\ proc[p].op = "add"
    <3>1. keyring' = [keyring EXCEPT ![n][h] = proc[p].cred] /\ Adding(p, n)
      BY <1>2, <1>3, <2>2 DEF Touch, Process, Own
    <3>2. PairListed(n)'
      BY <1>1, <3>1 DEF PairListed, Adding
    <3>3. h = "key" => keyring'[n]["key"] = proc[p].cred /\ proc'[p].at = "secret"
      BY <1>2, <1>4, <3>1 DEF After, Halves
    <3>4. h = "secret" => /\ keyring'[n]["key"] = proc[p].cred
                          /\ keyring'[n]["secret"] = proc[p].cred /\ proc'[p].at = "open"
      BY <1>2, <1>3, <1>4, <2>2, <3>1 DEF After, Halves, Adding
    <3>5. Adding(p, n)'
      BY <1>1, <1>3, <1>4, <3>1, <3>3, <3>4 DEF Adding, Halves
    <3> QED
      BY <1>4, <2>2, <3>2, <3>5 DEF Own
  <2>3. CASE proc[p].name = n /\ proc[p].op = "remove"
    <3>1. PICK v \in {None, keyring[n][h]} : keyring' = [keyring EXCEPT ![n][h] = v]
      BY <1>3, <2>3 DEF Touch
    <3>2. n \in cut'
      BY <1>3, <2>3 DEF Touch
    <3>3. PairListed(n)'
      <4>1. CASE v = None
        BY <1>1, <1>2, <3>1, <3>2, <4>1 DEF PairListed, Whole, Halves
      <4>2. CASE v = keyring[n][h]
        <5>1. keyring'[n] = keyring[n]
          BY <1>2, <3>1, <4>2
        <5> QED
          BY <1>1, <1>2, <3>2, <5>1 DEF PairListed, Whole
      <4> QED
        BY <4>1, <4>2
    <3> QED
      BY <1>2, <1>4, <2>3, <3>3 DEF Own, Process
  <2>4. CASE proc[p].name = n /\ proc[p].op = "use"
    <3>1. UNCHANGED <<keyring, cut>>
      BY <1>3, <2>4 DEF Touch
    <3> QED
      BY <1>1, <1>2, <1>4, <2>4, <3>1 DEF Own, Process, PairListed, Whole
  <2>5. CASE proc[p].name = n /\ proc[p].op = "get"
    <3>1. UNCHANGED <<keyring, cut, met>>
      BY <1>3, <2>5 DEF Touch, KeyringStep
    <3>2. PairListed(n)'
      BY <1>1, <1>2, <3>1 DEF PairListed, Whole
    <3>3. ASSUME p \notin met' PROVE Getting(p, n)'
      <4>1. Getting(p, n)
        BY <1>2, <2>5, <3>1, <3>3 DEF Process, Own
      <4>2. CASE h = "key"
        <5>1. /\ proc'[p].at = "secret" /\ proc'[p].got["key"] = keyring[n]["key"]
              /\ proc'[p].got["secret"] = None
          BY <1>3, <1>4, <1>5, <1>6, <2>5, <4>1, <4>2 DEF After, Getting, Halves
        <5> QED
          BY <3>1, <4>1, <5>1 DEF Getting, Whole
      <4>3. CASE h = "secret"
        <5>1. /\ proc'[p].at = "answer" /\ proc'[p].got["key"] = keyring[n]["key"]
              /\ proc'[p].got["secret"] = keyring[n]["secret"]
          BY <1>3, <1>4, <1>5, <1>6, <2>5, <4>1, <4>3 DEF After, Getting, Halves
        <5> QED
          BY <3>1, <4>1, <5>1 DEF Getting, Whole
      <4> QED
        BY <4>2, <4>3 DEF Halves
    <3> QED
      BY <1>4, <2>5, <3>2, <3>3 DEF Own
  <2> QED
    BY <1>2, <2>1, <2>2, <2>3, <2>4, <2>5
<1> QED
  BY <1>1, <1>4, <1>7, <1>8, <1>9, <1>10, PairFrame

\* The steps of _save up to the replacement.
LEMMA PairSave ==
  ASSUME NEW n, Known(n), NEW p \in Procs, OpenTmp(p) \/ Write(p)
  PROVE  PairListed(n)' /\ \A q \in Procs : Process(q, n)'
<1>1. /\ proc \in [Procs -> Commands] /\ proc[p] \in Commands /\ Active(p)
      /\ Process(p, n) /\ proc[p].at \in {"open", "reopen", "write"}
      /\ None \notin Procs
  BY NoneAssumption DEF Known, StoreInv, PairInv, Active, OpenTmp, Write
<1>2. UNCHANGED <<keyring, cut, met>>
  BY DEF OpenTmp, Write, marks
<1>3. file' = file
  <2>1. ~robbed
    BY DEF Known, OwnTmp
  <2>2. file.writer = None
    BY <2>1 DEF Known, OwnTmp
  <2> QED
    BY <1>1, <2>2 DEF OpenTmp, Write
<1>4. Load' = Load
  BY <1>3 DEF Load
<1>5. PICK at \in {"reopen", "write", "replace"} : proc' = Move(p, at)
  BY DEF OpenTmp, Write
<1> DEFINE r == [proc[p] EXCEPT !.at = at]
<1>6. proc' = [proc EXCEPT ![p] = r] /\ proc'[p] = r
  BY <1>1, <1>5 DEF Commands, Move
<1>7. /\ r \in Commands /\ r.op = proc[p].op /\ r.name = proc[p].name /\ r.at = at
      /\ r.stale = proc[p].stale /\ r.data = proc[p].data /\ r.cred = proc[p].cred
  BY <1>1 DEF Commands, Steps
<1> HIDE DEF r
<1>8. Own(p, n)'
  <2> SUFFICES ASSUME proc[p].name = n
               PROVE  /\ proc[p].op = "add" => Adding(p, n)'
                      /\ proc[p].op = "remove" => proc[p].data.entry[n] = "absent"
                      /\ proc[p].op = "use" => proc[p].data.entry[n] = Load.entry[n]
                      /\ proc[p].op # "get"
    BY <1>1, <1>4, <1>6, <1>7 DEF Own
  <2>1. proc[p].op # "get"
    BY <1>1 DEF Known, PairInv, OpsOK
  <2>2. proc[p].op = "add" => Adding(p, n)'
    BY <1>1, <1>2, <1>4, <1>6, <1>7 DEF Process, Own, Adding
  <2> QED
    BY <1>1, <2>1, <2>2 DEF Process, Own
<1> QED
  BY <1>1, <1>2, <1>4, <1>6, <1>7, <1>8, PairMove

\* The new file: what it says of a name that did not race is what the old one said,
\* or what the command for that name made of it (os.replace).
LEMMA PairReplace ==
  ASSUME NEW n, Known(n), NEW p \in Procs, Replace(p)
  PROVE  PairListed(n)' /\ \A q \in Procs : Process(q, n)'
<1>1. /\ proc \in [Procs -> Commands] /\ proc[p] \in Commands /\ Active(p)
      /\ \A q \in Procs : Process(q, n)
      /\ PairListed(n) /\ n \in Names
  BY DEF Known, StoreInv, PairInv, Active, Replace
<1>2. ~proc[p].stale /\ proc[p].at = "replace" /\ proc[p].op \in {"add", "remove", "use"}
  BY <1>1 DEF Known, Replace, PairInv, OpsOK
<1>3. Load' = proc[p].data /\ UNCHANGED <<keyring, met>>
  <2>1. ~robbed
    BY DEF Known, OwnTmp
  <2>2. tmp.is = "whole" /\ tmp.data = proc[p].data
    BY <1>2, <2>1 DEF Known, OwnTmp
  <2> QED
    BY <2>2 DEF Replace, Load
<1>4. proc'[p] = Idle /\ ~Active(p)'
  BY DEF Replace, Active, Idle
<1>5. ASSUME NEW q \in Procs \ {p}
      PROVE  /\ proc'[q] = [proc[q] EXCEPT !.stale = Active(q)]
             /\ proc'[q].at = proc[q].at /\ proc'[q].op = proc[q].op
             /\ proc'[q].name = proc[q].name /\ proc'[q].cred = proc[q].cred
             /\ proc'[q].data = proc[q].data /\ proc'[q].got = proc[q].got
             /\ (proc'[q].stale <=> Active(q)) /\ (Active(q)' <=> Active(q))
  <2>1. proc'[q] = [proc[q] EXCEPT !.stale = Active(q)]
    BY DEF Replace
  <2>2. proc[q] \in Commands /\ Active(q) \in BOOLEAN
    BY <1>1 DEF Active
  <2> QED
    BY <2>1, <2>2 DEF Commands, Active
<1>6. proc[p].name # n => Load'.entry[n] = Load.entry[n]
  BY <1>1, <1>2, <1>3 DEF Process, Copied
<1>7. PairListed(n)'
  <2>1. CASE proc[p].name # n
    <3>1. n \in cut' <=> n \in cut
      BY <2>1 DEF Replace
    <3> QED
      BY <1>1, <1>3, <1>6, <2>1, <3>1 DEF PairListed, Whole
  <2>2. CASE proc[p].name = n /\ proc[p].op = "add"
    <3>1. Adding(p, n)
      BY <1>1, <2>2 DEF Process, Own
    <3> QED
      BY <1>2, <1>3, <3>1, NoneAssumption DEF Adding, PairListed, Whole
  <2>3. CASE proc[p].name = n /\ proc[p].op = "remove"
    BY <1>1, <1>3, <2>3 DEF Process, Own, PairListed
  <2>4. CASE proc[p].name = n /\ proc[p].op = "use"
    <3>1. Load'.entry[n] = Load.entry[n] /\ cut' = cut
      BY <1>1, <1>3, <2>4 DEF Process, Own, Replace
    <3> QED
      BY <1>1, <1>3, <3>1 DEF PairListed, Whole
  <2> QED
    BY <1>2, <2>1, <2>2, <2>3, <2>4
<1>8. Process(p, n)'
  BY <1>4 DEF Process, Alone, Copied, Own, Writer
<1>9. ASSUME NEW q \in Procs \ {p} PROVE Process(q, n)'
  <2>1. Alone(q, n)'
    <3> SUFFICES ASSUME Writer(q)', proc'[q].name = n, NEW u \in Procs \ {q}, Writer(u)',
                        proc'[u].name = n
                 PROVE  FALSE
      BY DEF Alone
    <3>1. u # p
      BY <1>4 DEF Writer
    <3> QED
      <4>1. Writer(q) /\ proc[q].name = n /\ Writer(u) /\ proc[u].name = n
        BY <1>5, <3>1 DEF Writer
      <4>2. Alone(q, n)
        BY <1>1 DEF Process
      <4> QED
        BY <4>1, <4>2 DEF Alone
  <2>2. Copied(q, n)'
    BY <1>5 DEF Copied
  <2>3. Own(q, n)'
    <3> SUFFICES ASSUME Active(q), proc[q].name = n PROVE Own(q, n)'
      BY <1>5 DEF Own
    <3>1. Own(q, n)
      BY <1>1 DEF Process
    <3>2. /\ proc'[q].at = proc[q].at /\ proc'[q].op = proc[q].op
          /\ proc'[q].cred = proc[q].cred /\ proc'[q].data = proc[q].data
          /\ proc'[q].got = proc[q].got /\ keyring' = keyring /\ met' = met
      BY <1>3, <1>5
    <3>3. proc[q].op = "get" /\ q \notin met => Getting(q, n)'
      BY <3>1, <3>2 DEF Own, Getting, Whole
    <3>4. ASSUME proc[q].op # "get"
          PROVE  /\ proc[q].op = "add" => Adding(q, n)'
                 /\ proc[q].op = "remove" => proc'[q].data.entry[n] = "absent"
                 /\ proc[q].op = "use" => proc'[q].data.entry[n] = Load'.entry[n]
      <4>1. proc[p].name # n
        BY <1>1, <1>2, <3>4 DEF Process, Alone, Writer
      <4>2. Load'.entry[n] = Load.entry[n]
        BY <1>6, <4>1
      <4>3. proc[q].op = "add" => Adding(q, n)'
        BY <3>1, <3>2, <4>2 DEF Own, Adding
      <4> QED
        BY <3>1, <3>2, <4>2, <4>3 DEF Own
    <3> QED
      BY <3>2, <3>3, <3>4 DEF Own
  <2> QED
    BY <2>1, <2>2, <2>3 DEF Process
<1> QED
  BY <1>7, <1>8, <1>9

\* Commands are where they can be.
LEMMA OpsStep ==
  ASSUME StoreInv, OpsOK, [Next]_vars
  PROVE  OpsOK'
<1>1. proc \in [Procs -> Commands]
  BY DEF StoreInv
<1>2. ASSUME NEW p \in Procs, NEW r, proc' = [proc EXCEPT ![p] = r],
             r.at # "idle" =>
               /\ r.op \in {"add", "remove", "use", "get"}
               /\ r.op = "get" => r.at \in {"key", "secret", "answer"}
               /\ r.at = "answer" => r.op = "get"
               /\ r.at \in {"probe", "allowed", "ask"} => r.op = "add"
      PROVE  OpsOK'
  BY <1>1, <1>2 DEF OpsOK, Active
<1>3. ASSUME NEW p \in Procs, Command(p) PROVE OpsOK'
  <2>1. CASE AccountAdd(p)
    BY <1>2, <2>1 DEF AccountAdd, Begin, Idle
  <2>2. CASE AccountRemove(p)
    BY <1>2, <2>2 DEF AccountRemove, Begin, Idle
  <2>3. CASE AccountUse(p)
    BY <1>2, <2>3 DEF AccountUse, Begin, Idle
  <2>4. CASE GetCredentials(p)
    BY <1>2, <2>4 DEF GetCredentials, Idle
  <2> QED
    BY <1>3, <2>1, <2>2, <2>3, <2>4 DEF Command
<1>4. ASSUME NEW p \in Procs, Probe(p) PROVE OpsOK'
  <2>1. proc[p] \in Commands /\ proc[p].at \in {"probe", "allowed"} /\ proc[p].op = "add"
    BY <1>1, <1>4 DEF OpsOK, Active, Probe
  <2>2. /\ \A q \in Procs \ {p} : proc'[q] = proc[q]
        /\ proc'[p].at \in {"key", "ask", "open"} /\ proc'[p].op = "add"
    BY <1>1, <1>4, <2>1 DEF Probe, Move, Commands
  <2> QED
    BY <2>2 DEF OpsOK, Active
<1>5. ASSUME NEW p \in Procs, Confirm(p) PROVE OpsOK'
  BY <1>1, <1>5 DEF OpsOK, Active, Confirm, Move, Commands, Idle
<1>6. ASSUME NEW p \in Procs, KeyringStep(p) PROVE OpsOK'
  BY <1>1, <1>6 DEF OpsOK, Active, KeyringStep, Halves, After, Commands
<1>7. ASSUME NEW p \in Procs, Answer(p) PROVE OpsOK'
  BY <1>1, <1>7 DEF OpsOK, Active, Answer, Idle
<1>8. ASSUME NEW p \in Procs, OpenTmp(p) \/ Write(p) PROVE OpsOK'
  BY <1>1, <1>8 DEF OpsOK, Active, OpenTmp, Write, Move, Commands
<1>9. ASSUME NEW p \in Procs, Replace(p) PROVE OpsOK'
  <2>1. \A q \in Procs : \/ proc'[q].at = "idle"
                         \/ proc'[q].at = proc[q].at /\ proc'[q].op = proc[q].op
    BY <1>1, <1>9 DEF Replace, Commands, Idle
  <2> QED
    BY <2>1 DEF OpsOK, Active
<1>10. ASSUME NEW p \in Procs, Die(p) PROVE OpsOK'
  BY <1>1, <1>10 DEF OpsOK, Active, Die, Idle
<1>11. CASE UNCHANGED vars
  BY <1>11 DEF vars, OpsOK, Active
<1> QED
  BY <1>3, <1>4, <1>5, <1>6, <1>7, <1>8, <1>9, <1>10, <1>11 DEF Next, Save

\* What is known of pairs and commands holds in every state.
LEMMA PairInvariant == Spec => []PairInv
<1>1. Init => PairInv
  <2> SUFFICES ASSUME Init PROVE PairInv
    OBVIOUS
  <2>1. \A p \in Procs : ~Active(p)
    BY DEF Init, Active, Idle
  <2>2. \A n \in Names : Load.entry[n] = "absent"
    BY DEF Init, Load, NoFile, Empty
  <2> QED
    BY <2>1, <2>2 DEF PairInv, OpsOK, PairListed, Process, Alone, Copied, Own, Writer
<1>2. StoreInv /\ StoreInv' /\ OwnTmp /\ PairInv /\ [Next]_vars => PairInv'
  <2> SUFFICES ASSUME StoreInv, StoreInv', OwnTmp, PairInv, [Next]_vars PROVE PairInv'
    OBVIOUS
  <2>1. OpsOK'
    BY OpsStep DEF PairInv
  <2>2. ASSUME NEW n \in Names \ tainted'
        PROVE  PairListed(n)' /\ \A q \in Procs : Process(q, n)'
    <3>1. Known(n)
      BY <2>2, TaintedGrows DEF Known, StoreInv
    <3>2. CASE UNCHANGED vars
      <4>1. Load' = Load
        BY <3>2 DEF vars, Load
      <4>2. PairListed(n) /\ \A q \in Procs : Process(q, n)
        BY <3>1 DEF Known, PairInv
      <4> QED
        BY <3>2, <4>1, <4>2 DEF vars, marks, PairListed, Whole, Process, Alone, Copied, Own,
                                Adding, Getting, Active, Writer
    <3>3. ASSUME NEW p \in Procs, Die(p)
          PROVE  PairListed(n)' /\ \A q \in Procs : Process(q, n)'
      <4>1. Load' = Load
        BY <3>3 DEF Die, Load, StoreInv, GoodFiles
      <4> QED
        BY <3>1, <3>3, <4>1, PairIdle DEF Die
    <3> QED
      BY <3>1, <3>2, <3>3, PairCommand, PairProbe, PairTouch, PairSave, PairReplace
         DEF Next, Save
  <2> QED
    BY <2>1, <2>2 DEF PairInv
<1> QED
  BY <1>1, <1>2, StoreInvariant, OwnTmpInvariant, PTL DEF Spec

\* A listed account has both halves of one pair in the keyring, unless its removal
\* was cut short or two processes raced (add writes the keyring before the file).
THEOREM ListedAlwaysPaired == Spec => []ListedHasPair
<1>1. PairInv => ListedHasPair
  BY DEF PairInv, PairListed, Whole, ListedHasPair
<1> QED
  BY <1>1, PairInvariant, PTL

\* What a command holds comes from the keyring.
Stored == \A p \in Procs : \A h \in Halves : proc[p].got[h] # "given"

\* A flag or a variable is used with its like or not at all (resolve_credentials).
LEMMA StoredInvariant == Spec => []Stored
<1>1. Idle.got = [h \in Halves |-> None]
  BY DEF Idle
<1>2. Init => Stored
  BY <1>1, GivenAssumption DEF Init, Stored
<1>3. StoreInv /\ Stored /\ [Next]_vars => Stored'
  <2> SUFFICES ASSUME StoreInv, Stored, [Next]_vars PROVE Stored'
    OBVIOUS
  <2>1. proc \in [Procs -> Commands]
    BY DEF StoreInv
  <2>2. ASSUME NEW p \in Procs, NEW r, proc' = [proc EXCEPT ![p] = r],
               r.got = [h \in Halves |-> None] \/ r.got = proc[p].got
        PROVE  Stored'
    BY <2>1, <2>2, GivenAssumption DEF Stored
  <2>3. ASSUME NEW p \in Procs, Command(p) PROVE Stored'
    <3>1. CASE AccountAdd(p) \/ AccountRemove(p) \/ AccountUse(p)
      BY <1>1, <2>2, <3>1 DEF AccountAdd, AccountRemove, AccountUse, Begin, Idle
    <3>2. CASE GetCredentials(p)
      <4>1. PICK cli \in SUBSET Halves, env \in SUBSET Halves, named \in Names \cup {None} :
              \E m \in Resolve(cli, env, named) :
                /\ ~Active(p) /\ Load.entry[m] = "keyring"
                /\ proc' = [proc EXCEPT ![p] =
                    [Idle EXCEPT !.at = "key", !.op = "get", !.name = m,
                       !.got = [h \in Halves |-> IF h \in cli \cup env
                                                 THEN "given" ELSE None]]]
                /\ UNCHANGED <<file, tmp, keyring, marks>>
        BY <3>2 DEF GetCredentials
      <4>2. cli \cup env = {}
        BY <4>1 DEF Resolve
      <4> QED
        BY <2>2, <4>1, <4>2 DEF Idle
    <3> QED
      BY <2>3, <3>1, <3>2 DEF Command
  <2>4. ASSUME NEW p \in Procs, KeyringStep(p) PROVE Stored'
    <3>1. PICK h \in Halves :
            proc' = [proc EXCEPT ![p].at = After(proc[p].op, h),
              ![p].got[h] = IF proc[p].op = "get" /\ @ = None
                            THEN keyring[proc[p].name][h] ELSE @]
      BY <2>4 DEF KeyringStep
    <3>2. /\ proc[p].name \in Names /\ proc[p] \in Commands
          /\ \A q \in Procs \ {p} : proc'[q] = proc[q]
      BY <2>1, <2>4, <3>1 DEF StoreInv, Active, KeyringStep, Halves
    <3>3. keyring[proc[p].name][h] # "given"
      BY <3>2, GivenAssumption DEF StoreInv
    <3>4. proc'[p].got = [proc[p].got EXCEPT ![h] = IF proc[p].op = "get" /\ @ = None
                            THEN keyring[proc[p].name][h] ELSE @]
      BY <2>1, <3>1, <3>2 DEF Commands
    <3>5. proc[p].got \in [Halves -> Creds \cup {None, "given"}]
      BY <3>2 DEF Commands
    <3>6. ASSUME NEW q \in Procs, NEW k \in Halves PROVE proc'[q].got[k] # "given"
      <4>1. proc[q].got[k] # "given"
        BY DEF Stored
      <4>2. CASE q # p
        BY <3>2, <4>1, <4>2
      <4>3. CASE q = p /\ k # h
        BY <3>4, <3>5, <4>1, <4>3
      <4>4. CASE q = p /\ k = h
        <5>1. proc'[q].got[k] = IF proc[p].op = "get" /\ proc[p].got[h] = None
                                THEN keyring[proc[p].name][h] ELSE proc[p].got[h]
          BY <3>4, <3>5, <4>4
        <5> QED
          BY <3>3, <4>1, <4>4, <5>1
      <4> QED
        BY <4>2, <4>3, <4>4
    <3> QED
      BY <3>6 DEF Stored
  <2>5. ASSUME NEW p \in Procs, Probe(p) PROVE Stored'
    <3>1. \A q \in Procs \ {p} : proc'[q] = proc[q]
      BY <2>1, <2>5 DEF Probe, Move
    <3>2. proc'[p].got = proc[p].got
      BY <2>1, <2>5 DEF Probe, Move, Commands
    <3> QED
      BY <3>1, <3>2 DEF Stored
  <2>6. ASSUME NEW p \in Procs, \/ Confirm(p) \/ Answer(p) \/ OpenTmp(p) \/ Write(p) \/ Die(p)
        PROVE  Stored'
    <3>1. \/ proc' = [proc EXCEPT ![p] = Idle]
          \/ \E at \in {"allowed", "write", "reopen", "replace"} :
               proc' = [proc EXCEPT ![p].at = at]
      BY <2>6 DEF Confirm, Answer, OpenTmp, Write, Die, Move
    <3>2. CASE proc' = [proc EXCEPT ![p] = Idle]
      BY <1>1, <2>2, <3>2
    <3>3. ASSUME NEW at, proc' = [proc EXCEPT ![p].at = at] PROVE Stored'
      BY <2>1, <3>3 DEF Stored, Commands
    <3> QED
      BY <3>1, <3>2, <3>3
  <2>7. ASSUME NEW p \in Procs, Replace(p) PROVE Stored'
    <3>1. \A q \in Procs : proc'[q].got = Idle.got \/ proc'[q].got = proc[q].got
      BY <2>1, <2>7 DEF Replace, Commands
    <3> QED
      BY <1>1, <3>1, GivenAssumption DEF Stored
  <2>8. CASE UNCHANGED vars
    BY <2>8 DEF vars, Stored
  <2> QED
    BY <2>3, <2>4, <2>5, <2>6, <2>7, <2>8 DEF Next, Save
<1> QED
  BY <1>2, <1>3, StoreInvariant, PTL DEF Spec

\* The halves a command ends up with are of one pair, and none is mixed with a flag;
\* all that mixes two pairs is a change of the pair under the command that reads it,
\* or writers that raced on its name before (get_credentials, resolve_credentials).
THEOREM AnswersAlwaysWhole == Spec => []AnswerWhole
<1>1. StoreInv /\ PairInv /\ Stored => AnswerWhole
  <2> SUFFICES ASSUME StoreInv, PairInv, Stored, NEW p \in Procs, proc[p].at = "answer",
                      None \notin {proc[p].got[h] : h \in Halves},
                      proc[p].got["key"] # proc[p].got["secret"]
               PROVE  /\ "given" \notin {proc[p].got[h] : h \in Halves}
                      /\ p \in met \/ proc[p].name \in tainted
    BY DEF AnswerWhole
  <2>1. "given" \notin {proc[p].got[h] : h \in Halves}
    BY DEF Stored
  <2>2. ASSUME p \notin met, proc[p].name \notin tainted
        PROVE  FALSE
    <3> DEFINE n == proc[p].name
    <3>1. Active(p) /\ n \in Names /\ proc[p].op = "get"
      BY DEF StoreInv, PairInv, OpsOK, Active
    <3>2. Getting(p, n)
      BY <2>2, <3>1 DEF PairInv, Process, Own
    <3>3. proc[p].got["key"] # None /\ proc[p].got["secret"] # None
      BY DEF Halves
    <3> QED
      BY <3>2, <3>3 DEF Getting, Whole
  <2> QED
    BY <2>1, <2>2
<1> QED
  BY <1>1, StoreInvariant, PairInvariant, StoredInvariant, PTL
=============================================================================
