---------------------------- MODULE AccountStore ----------------------------
(***************************************************************************)
(* core/account_store.py under the commands of cli/account_cmd.py.  Every  *)
(* command is a process of its own: it loads the whole YAML file, works on *)
(* the copy, writes the keyring one secret at a time, and replaces the     *)
(* file through one temporary file whose name all processes share.  A      *)
(* process may die anywhere (Ctrl-C, kill, an exception of the keyring or  *)
(* of the file system).                                                    *)
(*                                                                         *)
(* A pair of secrets is a credential c; each half is stored as c.  What is *)
(* only copied is left out: exchange, timestamps, the verified mark, and   *)
(* the secrets of a plaintext entry.                                       *)
(***************************************************************************)
EXTENDS FiniteSets

CONSTANTS
  Procs,    \* processes of the CLI
  Names,    \* account names
  Creds,    \* pairs of api key and secret
  None      \* no name, no credential

ASSUME NoneAssumption == None \notin Procs \cup Names \cup Creds
ASSUME GivenAssumption == "given" \notin Creds \cup {None}

VARIABLES
  file,     \* accounts.yaml: what it holds and which process has it open
  tmp,      \* accounts.yaml.tmp, likewise
  keyring,  \* [name -> [key, secret]], each half a credential or None
  proc,     \* the processes: where they are and their locals
  tainted,  \* auxiliary: names on which two processes that write raced
  cut,      \* auxiliary: names whose removal has begun and is not saved yet
  met,      \* auxiliary: processes in get_credentials whose pair another process
            \* has changed since they found it listed
  robbed    \* auxiliary: a temporary file was unlinked under a process that saves

marks == <<tainted, cut, met, robbed>>
vars == <<file, tmp, keyring, proc, marks>>

Halves == {"key", "secret"}

\* An entry of the file: none, by reference to the keyring, or in plaintext.
Entries == {"absent", "keyring", "plaintext"}
Data == [default : Names \cup {None}, entry : [Names -> Entries]]
Empty == [default |-> None, entry |-> [n \in Names |-> "absent"]]

\* A file is opened empty and filled when it is closed: the text is shorter than
\* the buffer of the stream.  A missing or blank file reads as Empty.
Files == [is : {"missing", "blank", "whole"}, data : Data, writer : Procs \cup {None}]
NoFile == [is |-> "missing", data |-> Empty, writer |-> None]

Idle == [at |-> "idle", op |-> "none", name |-> None, cred |-> None,
         data |-> Empty, stale |-> FALSE, got |-> [h \in Halves |-> None]]

Active(p) == proc[p].at # "idle"
Move(p, at) == [proc EXCEPT ![p].at = at]

-----------------------------------------------------------------------------
\* A missing or blank file is read as an empty one: yaml.safe_load(f) or {}.
Load == IF file.is = "whole" THEN file.data ELSE Empty

Listed(d, n) == d.entry[n] # "absent"

\* Mutant: the default is kept although its account is gone.
WithoutKeepsDefault(d, n) == {[d EXCEPT !.entry[n] = "absent"]}

\* `remaining[0]` is abstracted to any of the remaining names.
Without(d, n) ==
  LET rest == {m \in Names \ {n} : Listed(d, m)}
  IN {[default |-> x, entry |-> [d.entry EXCEPT ![n] = "absent"]] :
        x \in IF d.default # n THEN {d.default}
              ELSE IF rest = {} THEN {None} ELSE rest}

\* Mutant: the entry, not its name, becomes the default.
WithDefaultEntry(d, n, e) ==
  [default |-> IF d.default = None THEN e ELSE d.default,
   entry |-> [d.entry EXCEPT ![n] = e]]

With(d, n, e) ==
  [default |-> IF d.default = None THEN n ELSE d.default,
   entry |-> [d.entry EXCEPT ![n] = e]]

\* Mutant: an account may be added again under its name.
MayAddAgain(d, n) == TRUE

MayAdd(d, n) == ~Listed(d, n)

Writer(p) == Active(p) /\ proc[p].op # "get"

\* Two commands that write, on one name at a time.
Overlap(p, n) ==
  IF \E q \in Procs \ {p} : Writer(q) /\ proc[q].name = n THEN {n} ELSE {}

\* A command loads the file and finds out whether its name is listed as it
\* must be; otherwise it ends with an error and nothing has changed.
Begin(p, n, op, at, c, data) ==
  /\ ~Active(p)
  /\ proc' = [proc EXCEPT ![p] =
                [Idle EXCEPT !.at = at, !.op = op, !.name = n, !.cred = c,
                             !.data = data]]
  /\ tainted' = tainted \cup Overlap(p, n)
  /\ UNCHANGED <<file, tmp, keyring, cut, met, robbed>>

\* `account add`, its key verified or not: from here on the store is open.
AccountAdd(p) ==
  \E n \in Names, c \in Creds :
    MayAdd(Load, n) /\ Begin(p, n, "add", "probe", c, Load)

AccountRemove(p) ==
  \E n \in Names :
    /\ Listed(Load, n)
    /\ \E d \in Without(Load, n) :
         Begin(p, n, "remove", IF Load.entry[n] = "keyring" THEN "key" ELSE "open",
               None, d)

AccountUse(p) ==
  \E n \in Names :
    Listed(Load, n) /\ Begin(p, n, "use", "open", None, [Load EXCEPT !.default = n])

\* Mutant: one half alone falls through to the next source.
ResolveFallsThrough(cli, env, named) ==
  IF Halves \in {cli, env} THEN {}
  ELSE {IF named # None THEN named ELSE Load.default} \ {None}

\* The accounts that may be read, given which halves the flags and the
\* environment hold: none if they hold a pair, none (an error) for half a pair.
Resolve(cli, env, named) ==
  IF cli \cup env # {} THEN {}
  ELSE {IF named # None THEN named ELSE Load.default} \ {None}

\* get_credentials, for `account test` and for a history.
GetCredentials(p) ==
  \E cli, env \in SUBSET Halves, named \in Names \cup {None} :
    \E n \in Resolve(cli, env, named) :
      /\ ~Active(p) /\ Load.entry[n] = "keyring"
      /\ proc' = [proc EXCEPT ![p] =
                    [Idle EXCEPT !.at = "key", !.op = "get", !.name = n,
                       !.got = [h \in Halves |-> IF h \in cli \cup env
                                                 THEN "given" ELSE None]]]
      /\ UNCHANGED <<file, tmp, keyring, marks>>

-----------------------------------------------------------------------------
(* The keyring *)

\* The probe can fail at any time; then the user is asked, once, for plaintext.
Probe(p) ==
  /\ \/ proc[p].at \in {"probe", "allowed"}
        /\ proc' = [proc EXCEPT ![p].at = "key",
                      ![p].data = With(@, proc[p].name, "keyring")]
     \/ proc[p].at = "probe" /\ proc' = Move(p, "ask")
     \/ proc[p].at = "allowed"
        /\ proc' = [proc EXCEPT ![p].at = "open",
                      ![p].data = With(@, proc[p].name, "plaintext")]
  /\ UNCHANGED <<file, tmp, keyring, marks>>

\* The answer to the prompt: add again with allow_plaintext, or abort.
Confirm(p) ==
  /\ proc[p].at = "ask"
  /\ proc' = Move(p, "allowed") \/ proc' = [proc EXCEPT ![p] = Idle]
  /\ UNCHANGED <<file, tmp, keyring, marks>>

\* set_password, delete_password (whose errors are suppressed) or get_password.
Touch(p, h) ==
  LET n == proc[p].name IN
  CASE proc[p].op = "add" ->
         /\ keyring' = [keyring EXCEPT ![n][h] = proc[p].cred]
         /\ UNCHANGED cut
    [] proc[p].op = "remove" ->
         /\ \E v \in {None, keyring[n][h]} : keyring' = [keyring EXCEPT ![n][h] = v]
         /\ cut' = cut \cup {n}
    [] OTHER -> UNCHANGED <<keyring, cut>>

Readers(n) == {q \in Procs : Active(q) /\ proc[q].op = "get" /\ proc[q].name = n}

After(op, h) ==
  IF h = "key" THEN "secret" ELSE IF op = "get" THEN "answer" ELSE "open"

KeyringStep(p) ==
  \E h \in Halves :
    /\ proc[p].at = h
    /\ Touch(p, h)
    /\ proc' = [proc EXCEPT ![p].at = After(proc[p].op, h),
                  ![p].got[h] = IF proc[p].op = "get" /\ @ = None
                                THEN keyring[proc[p].name][h] ELSE @]
    /\ met' = IF keyring' = keyring THEN met ELSE met \cup Readers(proc[p].name)
    /\ UNCHANGED <<file, tmp, tainted, robbed>>

\* The credentials are used, or "missing or empty" is raised.
Answer(p) ==
  /\ proc[p].at = "answer"
  /\ proc' = [proc EXCEPT ![p] = Idle]
  /\ met' = met \ {p}
  /\ UNCHANGED <<file, tmp, keyring, tainted, cut, robbed>>

-----------------------------------------------------------------------------
(* _save *)

\* Mutant: the accounts file itself is opened and written.
OpenTmpInPlace(p) ==
  /\ proc[p].at = "open"
  /\ file' = [is |-> "blank", data |-> Empty, writer |-> p]
  /\ proc' = Move(p, "write")
  /\ UNCHANGED <<tmp, keyring, marks>>

\* os.open with O_EXCL; on a collision the other file is unlinked first.
OpenTmp(p) ==
  /\ \/ proc[p].at \in {"open", "reopen"} /\ tmp = NoFile
        /\ tmp' = [is |-> "blank", data |-> Empty, writer |-> p]
        /\ proc' = Move(p, "write")
        /\ UNCHANGED <<tainted, robbed>>
     \/ proc[p].at = "open" /\ tmp # NoFile
        /\ tmp' = NoFile
        /\ proc' = Move(p, "reopen")
        /\ IF tmp.writer = None /\ \A q \in Procs : proc[q].at # "replace"
           THEN UNCHANGED <<tainted, robbed>>
           ELSE tainted' = Names /\ robbed' = TRUE
  /\ UNCHANGED <<file, keyring, cut, met>>

\* The text goes to the file the process opened, wherever that is by now.
Write(p) ==
  /\ proc[p].at = "write"
  /\ LET Fill(f) == IF f.writer # p THEN f
                    ELSE [is |-> "whole", data |-> proc[p].data, writer |-> None]
     IN file' = Fill(file) /\ tmp' = Fill(tmp)
  /\ proc' = Move(p, "replace")
  /\ UNCHANGED <<keyring, marks>>

\* os.replace, of whatever bears the name of the temporary file.
Replace(p) ==
  /\ proc[p].at = "replace" /\ tmp # NoFile
  /\ file' = tmp /\ tmp' = NoFile
  /\ proc' = [q \in Procs |->
                IF q = p THEN Idle ELSE [proc[q] EXCEPT !.stale = Active(q)]]
  /\ tainted' = IF proc[p].stale THEN Names ELSE tainted
  /\ cut' = IF proc[p].op = "remove" THEN cut \ {proc[p].name} ELSE cut
  /\ UNCHANGED <<keyring, met, robbed>>

\* A kill, or an exception: missing temporary file, keyring error, full disk.
\* The descriptor is closed and what was not written is lost.
Die(p) ==
  /\ Active(p)
  /\ proc' = [proc EXCEPT ![p] = Idle]
  /\ LET Close(f) == IF f.writer = p THEN [f EXCEPT !.writer = None] ELSE f
     IN file' = Close(file) /\ tmp' = Close(tmp)
  /\ met' = met \ {p}
  /\ UNCHANGED <<keyring, tainted, cut, robbed>>

-----------------------------------------------------------------------------
Init ==
  /\ file = NoFile /\ tmp = NoFile
  /\ keyring = [n \in Names |-> [h \in Halves |-> None]]
  /\ proc = [p \in Procs |-> Idle]
  /\ tainted = {} /\ cut = {} /\ met = {} /\ robbed = FALSE

Command(p) == AccountAdd(p) \/ AccountRemove(p) \/ AccountUse(p) \/ GetCredentials(p)
Save(p) == OpenTmp(p) \/ Write(p) \/ Replace(p)

Next ==
  \E p \in Procs :
    \/ Command(p) \/ Save(p) \/ Die(p)
    \/ Probe(p) \/ Confirm(p) \/ KeyringStep(p) \/ Answer(p)

Spec == Init /\ [][Next]_vars

-----------------------------------------------------------------------------
(* Properties *)

TypeOK ==
  /\ file \in Files /\ tmp \in Files
  /\ keyring \in [Names -> [Halves -> Creds \cup {None}]]
  /\ tainted \subseteq Names /\ cut \subseteq Names /\ met \subseteq Procs
  /\ robbed \in BOOLEAN
  /\ \A p \in Procs :
       /\ proc[p].name \in Names \cup {None} /\ proc[p].cred \in Creds \cup {None}
       /\ proc[p].data \in Data /\ proc[p].stale \in BOOLEAN
       /\ proc[p].got \in [Halves -> Creds \cup {None, "given"}]

\* A crash by itself never leaves accounts.yaml blank, wherever it strikes, and nor do
\* commands that run side by side: that takes a process whose temporary file another
\* one unlinked while it was saving (O_EXCL and os.replace in _save).
FileWhole == file.is = "blank" => robbed

\* The accounts file is never blank, however many commands run: "this is a
\* single-user CLI, so unlinking on collision is safe" (account_store.py, _save).
FileNeverBlank == file.is # "blank"

\* Every file that is or will be the accounts file has a default exactly when it
\* has accounts, and the default is one of them (add, remove, set_default).
DefaultListed ==
  \A d \in {file.data, tmp.data} \cup {proc[p].data : p \in Procs} :
    IF d.default = None THEN d = Empty ELSE Listed(d, d.default)

\* An account listed by reference has both halves of one pair in the keyring,
\* unless a removal was cut short or two processes raced (add writes the keyring
\* before the file, and refuses a name that is listed).
ListedHasPair ==
  \A n \in Names \ (tainted \cup cut) :
    Load.entry[n] = "keyring" =>
      keyring[n]["key"] = keyring[n]["secret"] /\ keyring[n]["key"] # None

\* The halves a command ends up with are of one pair.  A flag or variable never comes
\* with a stored half; and the key of one registration comes with the secret of
\* another only if some process changed the pair while the command was reading it, or
\* writers raced on the name before (resolve_credentials, get_credentials).
AnswerWhole ==
  \A p \in Procs :
    LET got == {proc[p].got[h] : h \in Halves} IN
    proc[p].at = "answer" /\ None \notin got /\ proc[p].got["key"] # proc[p].got["secret"] =>
      "given" \notin got /\ (p \in met \/ proc[p].name \in tainted)
=============================================================================
