------------------------- MODULE PrivateVaultProofs -------------------------
(***************************************************************************)
(* What the tabs of a browser wrote can be opened, the master key stays    *)
(* the one first stored, and a locked mailbox stays locked: for any tabs,  *)
(* calls, views and passwords.                                             *)
(*                                                                         *)
(* The invariant says what a page, a form and an asynchronous call may     *)
(* carry: they were made from what was stored then, and outlive it.        *)
(***************************************************************************)
EXTENDS PrivateVault, TLAPS

\* What the state is made of.
Keys == Nat \ {0}
Secrets == Nat \cup Passwords

Vaults ==
    {NoVault} \cup
    {v \in [mdk : Keys, secret : Passwords, rmdk : Keys, code : Keys] : v.mdk = v.rmdk}

Boxes == {NoBox} \cup [mode : Modes, key : Keys, under : Secrets, verifier : Secrets]

Pages == [vault : Vaults, box : Boxes]

Forms ==
    {NoForm} \cup
    {f \in [kind : {"setup", "recover"}, dek : [mdk : Keys, secret : Passwords],
            rec : [mdk : Keys, secret : Keys], out : Keys] : f.dek.mdk = f.rec.mdk}

TabStates ==
    [mdk : Nat, feature : Nat, page : Pages, form : Forms, key : Nat,
     suppressed : BOOLEAN, failed : BOOLEAN, due : BOOLEAN, shown : SUBSET Views,
     rendering : SUBSET Views, calm : BOOLEAN]

KeyPoints == {"key", "derive", "use", "failed"}

FormCalls ==
    [kind : {"setup", "recover"}, pc : {"dek", "recovery"}, secret : Passwords,
     mdk : Keys, code : Keys]

UnlockCalls == [kind : {"unlock"}, secret : Passwords, wrapped : Vaults, then : BOOLEAN]

\* A call that got past the verifier has the mailbox of its page.
MailCalls ==
    {c \in [kind : {"mail"}, pc : KeyPoints \cup {"import"}, fk : Nat, stage : {1, 2},
            box : Boxes, auto : BOOLEAN] :
        /\ c.pc \in {"derive", "use"} => c.fk # None
        /\ c.stage = 2 \/ c.pc = "import" => c.box # NoBox}

PhraseCalls ==
    {c \in [kind : {"phrase"}, pc : {"unwrap", "failed", "import"}, secret : Passwords, box : Boxes] :
        c.box # NoBox}

EntryCalls == [kind : {"entry"}, pc : KeyPoints, fk : Nat]

\* A mailbox that opens with the account password is wrapped with the secret
\* that the server will verify.
BoxCalls ==
    {c \in [kind : {"boxsetup"}, pc : KeyPoints \cup {"submit"}, fk : Nat, stage : {1, 2},
            mode : Modes, secret : Passwords, key : Keys, under : Secrets] :
        c.mode = "account_password" => c.pc = "submit" /\ c.under = c.secret}

PasswordCalls == [kind : {"password"}, cur : Passwords, new : Passwords, page : Pages]

Calls ==
    {Idle} \cup FormCalls \cup UnlockCalls \cup MailCalls \cup PhraseCalls
    \cup EntryCalls \cup BoxCalls \cup PasswordCalls

-----------------------------------------------------------------------------
\* A call that may end with the mailbox open, and one that opens it by itself.
MailIn(c) == c.kind \in {"mail", "phrase"} \/ (c.kind = "unlock" /\ c.then)
AutoMail(c) == c.kind = "mail" /\ c.auto

\* A calm tab has nothing in flight, and would not start anything by itself;
\* a tab that says it is being unlocked is.
LocalOK(r, k) ==
    /\ r.calm => /\ r.suppressed /\ ~r.due /\ r.key = None
                 /\ r.shown = {} /\ r.rendering = {}
                 /\ \A s \in Slots : ~MailIn(k[s])
    /\ AutoUnlockAllowed(r) /\ ~r.failed => r.due \/ \E s \in Slots : AutoMail(k[s])

\* Pages, and what was recovered from them, carry the stored master key.
SameMdk(m, v) == v # NoVault /\ v.mdk = m
AgreesPage(p, v) == p.vault # NoVault => SameMdk(p.vault.mdk, v)

AgreesCall(c, v) ==
    /\ c.kind = "recover" => SameMdk(c.mdk, v)
    /\ c.kind = "password" => AgreesPage(c.page, v)

Agrees(r, k, v) ==
    /\ AgreesPage(r.page, v)
    /\ r.form.kind = "recover" => SameMdk(r.form.dek.mdk, v)
    /\ \A s \in Slots : AgreesCall(k[s], v)

VaultIInv ==
    /\ password \in Passwords /\ vault \in Vaults /\ box \in Boxes /\ made \in Nat
    /\ tab \in [Tabs -> TabStates]
    /\ task \in [Tabs -> [Slots -> Calls]]
    /\ PasswordOpens
    /\ \A t \in Tabs : LocalOK(tab[t], task[t])
    /\ ~reset => \A t \in Tabs : Agrees(tab[t], task[t], vault)

-----------------------------------------------------------------------------
\* What the functions on a tab's state do to each of its fields.
LEMMA AskedFields ==
  ASSUME NEW r \in TabStates
  PROVE  /\ Asked(r) \in TabStates
         /\ Asked(r) = [r EXCEPT !.due = Asked(r).due]
         /\ AutoUnlockAllowed(Asked(r)) <=> AutoUnlockAllowed(r)
         /\ AutoUnlockAllowed(r) => Asked(r).due
         /\ ~AutoUnlockAllowed(r) => Asked(r) = r
BY DEF TabStates, Asked, AutoUnlockAllowed

LEMMA UnlockedFields ==
  ASSUME NEW r \in TabStates, NEW m \in Nat
  PROVE  /\ Unlocked(r, m) \in TabStates
         /\ Unlocked(r, m).page = r.page /\ Unlocked(r, m).form = r.form
         /\ Unlocked(r, m).key = r.key /\ Unlocked(r, m).suppressed = r.suppressed
         /\ Unlocked(r, m).shown = r.shown /\ Unlocked(r, m).rendering = r.rendering
         /\ Unlocked(r, m).calm = r.calm
         /\ AutoUnlockAllowed(Unlocked(r, m)) => Unlocked(r, m).due
         /\ r.suppressed => Unlocked(r, m).due = r.due
<1> DEFINE q == [r EXCEPT !.mdk = m, !.feature = None, !.failed = FALSE]
<1>1. q \in TabStates
  BY DEF TabStates, None
<1>2. /\ q.page = r.page /\ q.form = r.form /\ q.key = r.key /\ q.suppressed = r.suppressed
      /\ q.shown = r.shown /\ q.rendering = r.rendering /\ q.calm = r.calm /\ q.due = r.due
  BY DEF TabStates
<1> HIDE DEF q
<1>3. Unlocked(r, m) = Asked(q)
  BY DEF Unlocked, q
<1>4. /\ Asked(q) \in TabStates
      /\ Asked(q) = [q EXCEPT !.due = Asked(q).due]
      /\ AutoUnlockAllowed(Asked(q)) => Asked(q).due
      /\ ~AutoUnlockAllowed(q) => Asked(q) = q
  BY <1>1, AskedFields
<1>5. q.suppressed => ~AutoUnlockAllowed(q)
  BY DEF AutoUnlockAllowed
<1> QED
  BY <1>1, <1>2, <1>3, <1>4, <1>5 DEF TabStates

LEMMA LockedFields ==
  ASSUME NEW r \in TabStates
  PROVE  /\ Locked(r) \in TabStates
         /\ Locked(r).mdk = None
         /\ Locked(r).page = r.page /\ Locked(r).form = r.form
         /\ Locked(r).key \in {None, r.key}
         /\ Locked(r).suppressed = r.suppressed
         /\ Locked(r).failed = r.failed /\ Locked(r).due = r.due
         /\ Locked(r).shown = r.shown /\ Locked(r).rendering = r.rendering
         /\ Locked(r).calm = r.calm
BY DEF TabStates, Locked, None

LEMMA RenderedFields ==
  ASSUME NEW r \in TabStates
  PROVE  /\ Rendered(r) \in TabStates
         /\ Rendered(r).mdk = r.mdk
         /\ Rendered(r).page = r.page /\ Rendered(r).form = r.form
         /\ Rendered(r).key = r.key
         /\ Rendered(r).suppressed = r.suppressed
         /\ Rendered(r).failed = r.failed /\ Rendered(r).due = r.due
         /\ Rendered(r).calm = r.calm
         /\ r.key = None => Rendered(r).shown = {} /\ Rendered(r).rendering = r.rendering
BY DEF TabStates, Rendered

LEMMA NewTabFields ==
  ASSUME NEW m \in Nat, NEW p \in Pages
  PROVE  /\ NewTab(m, p) \in TabStates
         /\ NewTab(m, p).page = p /\ NewTab(m, p).form = NoForm
         /\ ~NewTab(m, p).calm
BY DEF TabStates, NewTab, Forms, None

-----------------------------------------------------------------------------
\* A step of one tab.
LEMMA OneTab ==
  ASSUME VaultIInv, NEW t \in Tabs, NEW r \in TabStates, NEW k \in [Slots -> Calls],
         tab' = [tab EXCEPT ![t] = r], task' = [task EXCEPT ![t] = k], LocalOK(r, k),
         password' \in Passwords, vault' \in Vaults, box' \in Boxes, made' \in Nat, PasswordOpens',
         ~reset' => /\ ~reset
                    /\ \A m \in Keys : SameMdk(m, vault) => SameMdk(m, vault')
                    /\ Agrees(r, k, vault')
  PROVE  VaultIInv'
<1>1. tab' \in [Tabs -> TabStates] /\ task' \in [Tabs -> [Slots -> Calls]]
  BY DEF VaultIInv
<1>2. /\ tab'[t] = r /\ task'[t] = k
      /\ \A u \in Tabs : u # t => tab'[u] = tab[u] /\ task'[u] = task[u]
  BY DEF VaultIInv
<1>3. \A u \in Tabs : LocalOK(tab'[u], task'[u])
  BY <1>2 DEF VaultIInv
<1>4. ASSUME ~reset', NEW u \in Tabs PROVE Agrees(tab'[u], task'[u], vault')
  <2>1. CASE u = t
    BY <1>2, <1>4, <2>1
  <2>2. CASE u # t
    <3>1. tab'[u] = tab[u] /\ task'[u] = task[u] /\ Agrees(tab[u], task[u], vault)
      BY <1>2, <1>4, <2>2 DEF VaultIInv
    <3>2. \A m \in Keys : SameMdk(m, vault) => SameMdk(m, vault')
      BY <1>4
    <3>3. /\ tab[u].page.vault \in Vaults
          /\ tab[u].page.vault # NoVault => tab[u].page.vault.mdk \in Keys
          /\ tab[u].form.kind = "recover" => tab[u].form.dek.mdk \in Keys
      <4>1. tab[u].page \in Pages /\ tab[u].form \in Forms
        BY DEF VaultIInv, TabStates
      <4> QED
        BY <4>1 DEF Pages, Vaults, Forms, NoForm
    <3>4. ASSUME NEW s \in Slots
          PROVE  /\ task[u][s].kind = "recover" => task[u][s].mdk \in Keys
                 /\ task[u][s].kind = "password" =>
                       (task[u][s].page.vault # NoVault => task[u][s].page.vault.mdk \in Keys)
      <4>1. task[u][s] \in Calls
        BY DEF VaultIInv
      <4> QED
        BY <4>1 DEF Calls, Idle, FormCalls, UnlockCalls, MailCalls, PhraseCalls, EntryCalls,
                    BoxCalls, PasswordCalls, Pages, Vaults
    <3>5. AgreesPage(tab'[u].page, vault')
      BY <3>1, <3>2, <3>3 DEF Agrees, AgreesPage
    <3>6. tab'[u].form.kind = "recover" => SameMdk(tab'[u].form.dek.mdk, vault')
      BY <3>1, <3>2, <3>3 DEF Agrees
    <3>7. \A s \in Slots : AgreesCall(task'[u][s], vault')
      BY <3>1, <3>2, <3>4 DEF Agrees, AgreesCall, AgreesPage
    <3> QED
      BY <3>5, <3>6, <3>7 DEF Agrees
  <2> QED
    BY <2>1, <2>2
<1> QED
  BY <1>1, <1>3, <1>4 DEF VaultIInv

\* A step of one call, which may write the state of its tab.
LEMMA OneCall ==
  ASSUME VaultIInv, NEW t \in Tabs, NEW s \in Slots, NEW r \in TabStates, NEW c \in Calls,
         tab' = [tab EXCEPT ![t] = r], task' = [task EXCEPT ![t][s] = c],
         r.calm => /\ tab[t].calm
                   /\ r.suppressed /\ ~r.due /\ r.key = None
                   /\ r.shown = {} /\ r.rendering = {} /\ ~MailIn(c),
         AutoUnlockAllowed(r) /\ ~r.failed =>
            \/ r.due \/ AutoMail(c)
            \/ /\ AutoUnlockAllowed(tab[t]) /\ ~tab[t].failed /\ ~tab[t].due
               /\ ~AutoMail(task[t][s]),
         ~reset => /\ AgreesPage(r.page, vault)
                   /\ r.form.kind = "recover" => SameMdk(r.form.dek.mdk, vault)
                   /\ AgreesCall(c, vault),
         password' \in Passwords, vault' = vault, box' \in Boxes, made' \in Nat,
         PasswordOpens', reset' = reset
  PROVE  VaultIInv'
<1>1. PICK k \in [Slots -> Calls] : k = task[t]
  BY DEF VaultIInv
<1>2. PICK q \in TabStates : q = tab[t]
  BY DEF VaultIInv
<1>3. PICK v \in Vaults : v = vault
  BY DEF VaultIInv
<1>4. PICK n : n = [k EXCEPT ![s] = c]
  OBVIOUS
<1>5. /\ n \in [Slots -> Calls] /\ n[s] = c
      /\ \A i \in Slots : i # s => n[i] = k[i]
  BY <1>4
<1>6. task' = [task EXCEPT ![t] = n]
  BY <1>1, <1>4 DEF VaultIInv
<1>7. LocalOK(q, k)
  BY <1>1, <1>2 DEF VaultIInv
<1>8. LocalOK(r, n)
  <2>1. r.calm => /\ r.suppressed /\ ~r.due /\ r.key = None
                  /\ r.shown = {} /\ r.rendering = {}
                  /\ \A i \in Slots : ~MailIn(n[i])
    BY <1>2, <1>5, <1>7 DEF LocalOK
  <2>2. ASSUME AutoUnlockAllowed(r), ~r.failed, ~r.due PROVE \E i \in Slots : AutoMail(n[i])
    <3>1. CASE AutoMail(c)
      BY <1>5, <3>1
    <3>2. CASE ~AutoMail(c)
      <4>1. PICK i \in Slots : AutoMail(k[i])
        BY <1>2, <1>7, <2>2, <3>2 DEF LocalOK
      <4>2. i # s
        BY <1>1, <2>2, <3>2, <4>1
      <4> QED
        BY <1>5, <4>1, <4>2
    <3> QED
      BY <3>1, <3>2
  <2> QED
    BY <2>1, <2>2 DEF LocalOK
<1>9. ASSUME ~reset PROVE Agrees(r, n, v)
  <2>1. \A i \in Slots : AgreesCall(k[i], v)
    BY <1>1, <1>3, <1>9 DEF VaultIInv, Agrees
  <2> QED
    BY <1>3, <1>5, <1>9, <2>1 DEF Agrees
<1>10. vault' = v
  BY <1>3
<1>11. VaultIInv'
  BY <1>3, <1>5, <1>6, <1>8, <1>9, <1>10, OneTab
<1> QED
  BY <1>11

\* A step of one call that writes nothing else.
LEMMA CallOnly ==
  ASSUME VaultIInv, NEW t \in Tabs, NEW s \in Slots, NEW c \in Calls,
         task' = [task EXCEPT ![t][s] = c],
         UNCHANGED <<password, vault, box, tab, reset>>, made' \in Nat,
         MailIn(c) => MailIn(task[t][s]) \/ ~tab[t].calm,
         AutoMail(task[t][s]) => AutoMail(c),
         ~reset => AgreesCall(c, vault)
  PROVE  VaultIInv'
<1>1. PICK r \in TabStates : r = tab[t]
  BY DEF VaultIInv
<1>2. tab' = [tab EXCEPT ![t] = r]
  BY <1>1 DEF VaultIInv
<1>3. LocalOK(tab[t], task[t])
  BY DEF VaultIInv
<1>4. r.calm => /\ tab[t].calm
                /\ r.suppressed /\ ~r.due /\ r.key = None
                /\ r.shown = {} /\ r.rendering = {} /\ ~MailIn(c)
  BY <1>1, <1>3 DEF LocalOK
<1>5. AutoUnlockAllowed(r) /\ ~r.failed =>
         \/ r.due \/ AutoMail(c)
         \/ /\ AutoUnlockAllowed(tab[t]) /\ ~tab[t].failed /\ ~tab[t].due
            /\ ~AutoMail(task[t][s])
  BY <1>1
<1>6. ~reset => /\ AgreesPage(r.page, vault)
                /\ r.form.kind = "recover" => SameMdk(r.form.dek.mdk, vault)
                /\ AgreesCall(c, vault)
  BY <1>1 DEF VaultIInv, Agrees
<1>7. /\ password' \in Passwords /\ vault' = vault /\ box' \in Boxes
      /\ PasswordOpens' /\ reset' = reset
  BY DEF VaultIInv, PasswordOpens
<1> QED
  BY <1>2, <1>4, <1>5, <1>6, <1>7, OneCall

\* A call is made.
LEMMA CallBegins ==
  ASSUME VaultIInv, NEW t \in Tabs, NEW c \in Calls, Begin(t, c),
         UNCHANGED <<password, vault, box, tab, reset>>, made' \in Nat,
         MailIn(c) => ~tab[t].calm,
         ~reset => AgreesCall(c, vault)
  PROVE  VaultIInv'
<1>1. PICK s \in Slots : task[t][s] = Idle /\ task' = [task EXCEPT ![t][s] = c]
  BY DEF Begin
<1>2. ~AutoMail(task[t][s])
  BY <1>1 DEF AutoMail, Idle
<1> QED
  BY <1>1, <1>2, CallOnly

-----------------------------------------------------------------------------
\* A call is of the form that its kind says.
LEMMA CallKinds ==
  ASSUME NEW c \in Calls
  PROVE  /\ c.kind \in {"setup", "recover"} => c \in FormCalls
         /\ c.kind = "unlock" => c \in UnlockCalls
         /\ c.kind = "mail" => c \in MailCalls
         /\ c.kind = "phrase" => c \in PhraseCalls
         /\ c.kind = "entry" => c \in EntryCalls
         /\ c.kind = "boxsetup" => c \in BoxCalls
         /\ c.kind = "password" => c \in PasswordCalls
BY DEF Calls, Idle, FormCalls, UnlockCalls, MailCalls, PhraseCalls, EntryCalls, BoxCalls, PasswordCalls

\* What the page of a tab is made of.
LEMMA PageParts ==
  ASSUME VaultIInv, NEW t \in Tabs
  PROVE  /\ tab[t] \in TabStates /\ tab[t].page \in Pages
         /\ tab[t].page.vault \in Vaults /\ tab[t].page.box \in Boxes
         /\ tab[t].form \in Forms
         /\ tab[t].mdk \in Nat /\ tab[t].feature \in Nat
         /\ LocalOK(tab[t], task[t])
         /\ \A s \in Slots : task[t][s] \in Calls
         /\ ~reset => Agrees(tab[t], task[t], vault)
<1>1. tab[t] \in TabStates /\ task[t] \in [Slots -> Calls]
  BY DEF VaultIInv
<1> QED
  BY <1>1 DEF VaultIInv, TabStates, Pages

LEMMA SetupStep ==
  ASSUME VaultIInv, NEW t \in Tabs, NEW p \in Passwords, Setup(t, p)
  PROVE  VaultIInv'
<1>1. PICK c : c = [kind |-> "setup", pc |-> "dek", secret |-> p, mdk |-> made + 1, code |-> made + 2]
  OBVIOUS
<1>2. made \in Nat /\ made' \in Nat
  BY DEF VaultIInv, Setup, Fresh
<1>3. c \in FormCalls
  BY <1>1, <1>2 DEF FormCalls, Keys
<1>4. c \in Calls /\ ~MailIn(c) /\ \A v : AgreesCall(c, v)
  BY <1>1, <1>3 DEF Calls, MailIn, AgreesCall
<1>5. Begin(t, c) /\ UNCHANGED <<password, vault, box, tab, reset>>
  BY <1>1 DEF Setup, serverVars
<1> QED
  BY <1>2, <1>4, <1>5, CallBegins

LEMMA RecoverStep ==
  ASSUME VaultIInv, NEW t \in Tabs, NEW p \in Passwords, Recover(t, p)
  PROVE  VaultIInv'
<1>1. PICK v \in Vaults : v = tab[t].page.vault
  BY PageParts
<1>2. PICK c : c = [kind |-> "recover", pc |-> "dek", secret |-> p, mdk |-> v.rmdk, code |-> made + 1]
  OBVIOUS
<1>3. made \in Nat /\ made' \in Nat
  BY DEF VaultIInv, Recover, Fresh
<1>4. v # NoVault /\ v.rmdk \in Keys /\ v.rmdk = v.mdk
  BY <1>1 DEF Recover, Vaults
<1>5. c \in FormCalls
  BY <1>2, <1>3, <1>4 DEF FormCalls, Keys
<1>6. c \in Calls /\ ~MailIn(c)
  BY <1>2, <1>5 DEF Calls, MailIn
<1>7. ~reset => AgreesCall(c, vault)
  <2>1. ~reset => AgreesPage(tab[t].page, vault)
    BY PageParts DEF Agrees
  <2> QED
    BY <1>1, <1>2, <1>4, <2>1 DEF AgreesPage, AgreesCall
<1>8. Begin(t, c) /\ UNCHANGED <<password, vault, box, tab, reset>>
  BY <1>1, <1>2 DEF Recover, serverVars
<1> QED
  BY <1>3, <1>6, <1>7, <1>8, CallBegins

LEMMA ChangePasswordStep ==
  ASSUME VaultIInv, NEW t \in Tabs, NEW p \in Passwords, NEW q \in Passwords,
         ChangePassword(t, p, q)
  PROVE  VaultIInv'
<1>1. PICK page \in Pages : page = tab[t].page
  BY PageParts
<1>2. PICK c : c = [kind |-> "password", cur |-> p, new |-> q, page |-> page]
  OBVIOUS
<1>3. c \in Calls /\ ~MailIn(c)
  BY <1>2 DEF Calls, PasswordCalls, MailIn
<1>4. ~reset => AgreesCall(c, vault)
  <2>1. ~reset => AgreesPage(tab[t].page, vault)
    BY PageParts DEF Agrees
  <2> QED
    BY <1>1, <1>2, <2>1 DEF AgreesCall
<1>5. Begin(t, c) /\ UNCHANGED <<password, vault, box, tab, reset>> /\ made' \in Nat
  BY <1>1, <1>2 DEF ChangePassword, serverVars, VaultIInv
<1> QED
  BY <1>3, <1>4, <1>5, CallBegins

LEMMA SaveEntryStep ==
  ASSUME VaultIInv, NEW t \in Tabs, SaveEntry(t)
  PROVE  VaultIInv'
<1>1. PICK c : c = [kind |-> "entry", pc |-> "key", fk |-> None]
  OBVIOUS
<1>2. c \in EntryCalls
  BY <1>1 DEF EntryCalls, KeyPoints, None
<1>3. c \in Calls /\ ~MailIn(c) /\ \A v : AgreesCall(c, v)
  BY <1>1, <1>2 DEF Calls, MailIn, AgreesCall
<1>4. Begin(t, c) /\ UNCHANGED <<password, vault, box, tab, reset>> /\ made' \in Nat
  BY <1>1 DEF SaveEntry, serverVars, VaultIInv
<1> QED
  BY <1>3, <1>4, CallBegins

LEMMA HandleSetupStep ==
  ASSUME VaultIInv, NEW t \in Tabs, NEW mode \in Modes, NEW p \in Passwords,
         HandleSetup(t, mode, p)
  PROVE  VaultIInv'
<1>1. PICK c : c = [kind |-> "boxsetup", pc |-> IF mode = "master" THEN "key" ELSE "submit",
                    fk |-> None, stage |-> 1, mode |-> mode, secret |-> p,
                    key |-> made + 1, under |-> p]
  OBVIOUS
<1>2. made \in Nat /\ made' \in Nat
  BY DEF VaultIInv, HandleSetup, Fresh
<1>3. c \in BoxCalls
  BY <1>1, <1>2 DEF BoxCalls, KeyPoints, Keys, Secrets, None
<1>4. c \in Calls /\ ~MailIn(c) /\ \A v : AgreesCall(c, v)
  BY <1>1, <1>3 DEF Calls, MailIn, AgreesCall
<1>5. Begin(t, c) /\ UNCHANGED <<password, vault, box, tab, reset>>
  BY <1>1 DEF HandleSetup, serverVars
<1> QED
  BY <1>2, <1>4, <1>5, CallBegins

LEMMA WrapMdkStep ==
  ASSUME VaultIInv, NEW t \in Tabs, NEW s \in Slots, WrapMdk(t, s)
  PROVE  VaultIInv'
<1>1. PICK o \in Calls : o = task[t][s]
  BY PageParts
<1>2. PICK c : c = [o EXCEPT !.pc = "recovery"]
  OBVIOUS
<1>3. o \in FormCalls
  BY <1>1, CallKinds DEF WrapMdk
<1>4. c \in Calls /\ ~MailIn(c) /\ ~AutoMail(o)
  BY <1>2, <1>3 DEF Calls, FormCalls, MailIn, AutoMail
<1>5. ~reset => AgreesCall(c, vault)
  <2>1. ~reset => AgreesCall(o, vault)
    BY <1>1, PageParts DEF Agrees
  <2> QED
    BY <1>2, <1>3, <2>1 DEF AgreesCall, FormCalls
<1>6. /\ task' = [task EXCEPT ![t][s] = c]
      /\ UNCHANGED <<password, vault, box, tab, reset>> /\ made' \in Nat
  <2>1. task' = [task EXCEPT ![t][s].pc = "recovery"]
    BY DEF WrapMdk
  <2> QED
    BY <1>1, <1>2, <2>1 DEF WrapMdk, serverVars, VaultIInv
<1> QED
  BY <1>1, <1>4, <1>5, <1>6, CallOnly

LEMMA FeatureKeyStep ==
  ASSUME VaultIInv, NEW t \in Tabs, NEW s \in Slots, FeatureKey(t, s)
  PROVE  VaultIInv'
<1>1. PICK o \in Calls : o = task[t][s]
  BY PageParts
<1>2. PICK r \in TabStates : r = tab[t]
  BY PageParts
<1>3. PICK c : c = CASE r.mdk = None -> [o EXCEPT !.pc = "failed"]
                     [] r.mdk # None /\ r.feature # None -> [o EXCEPT !.pc = "use", !.fk = r.feature]
                     [] OTHER -> [o EXCEPT !.pc = "derive", !.fk = r.mdk]
  OBVIOUS
<1>4. o.kind \in {"mail", "entry", "boxsetup"} /\ o.pc = "key"
  BY <1>1 DEF FeatureKey
<1>5. PICK pc \in KeyPoints, fk \in Nat :
         /\ c = [o EXCEPT !.pc = pc, !.fk = fk]
         /\ pc \in {"derive", "use"} => fk # None
  <2>1. r.mdk \in Nat /\ r.feature \in Nat
    BY DEF TabStates
  <2>2. "fk" \in DOMAIN o /\ o.fk \in Nat /\ o = [o EXCEPT !.fk = o.fk]
    BY <1>4, CallKinds DEF MailCalls, EntryCalls, BoxCalls
  <2>3. CASE r.mdk = None
    <3>1. c = [o EXCEPT !.pc = "failed", !.fk = o.fk]
      BY <1>3, <2>2, <2>3
    <3> QED
      BY <2>2, <3>1 DEF KeyPoints
  <2>4. CASE r.mdk # None
    BY <1>3, <2>1, <2>4 DEF KeyPoints
  <2> QED
    BY <2>3, <2>4
<1>6. /\ c \in Calls /\ c.kind = o.kind
      /\ o.kind = "mail" => c.auto = o.auto
  <2>1. CASE o.kind = "mail"
    <3>1. o \in MailCalls
      BY <2>1, CallKinds
    <3>2. c \in MailCalls /\ c.kind = o.kind /\ c.auto = o.auto
      BY <1>4, <1>5, <3>1 DEF MailCalls, KeyPoints
    <3> QED
      BY <3>2 DEF Calls
  <2>2. CASE o.kind = "entry"
    <3>1. o \in EntryCalls
      BY <2>2, CallKinds
    <3>2. c \in EntryCalls /\ c.kind = o.kind
      BY <1>5, <3>1 DEF EntryCalls
    <3> QED
      BY <2>2, <3>2 DEF Calls
  <2>3. CASE o.kind = "boxsetup"
    <3>1. o \in BoxCalls /\ o.mode # "account_password"
      BY <1>4, <2>3, CallKinds DEF BoxCalls
    <3>2. c \in BoxCalls /\ c.kind = o.kind
      BY <1>5, <3>1 DEF BoxCalls
    <3> QED
      BY <2>3, <3>2 DEF Calls
  <2> QED
    BY <1>4, <2>1, <2>2, <2>3
<1>7. /\ MailIn(c) => MailIn(o)
      /\ AutoMail(o) => AutoMail(c)
      /\ AgreesCall(c, vault)
  BY <1>4, <1>6 DEF MailIn, AutoMail, AgreesCall
<1>8. /\ task' = [task EXCEPT ![t][s] = c]
      /\ UNCHANGED <<password, vault, box, tab, reset>> /\ made' \in Nat
  BY <1>1, <1>2, <1>3 DEF FeatureKey, serverVars, VaultIInv
<1> QED
  BY <1>1, <1>6, <1>7, <1>8, CallOnly

LEMMA UnwrapMailboxKeyStep ==
  ASSUME VaultIInv, NEW t \in Tabs, NEW s \in Slots, UnwrapMailboxKey(t, s)
  PROVE  VaultIInv'
<1>1. PICK o \in Calls : o = task[t][s]
  BY PageParts
<1>2. PICK opens \in BOOLEAN :
         opens = CASE o.kind = "phrase" -> o.secret = o.box.under
                   [] o.kind = "mail" /\ o.stage = 1 -> o.fk = o.box.verifier
                   [] OTHER -> o.fk = o.box.under
  OBVIOUS
<1>3. PICK c : c = CASE ~opens -> [o EXCEPT !.pc = "failed"]
                     [] opens /\ o.kind = "mail" /\ o.stage = 1 -> [o EXCEPT !.pc = "key", !.stage = 2]
                     [] OTHER -> [o EXCEPT !.pc = "import"]
  OBVIOUS
<1>4. \/ o.kind = "mail" /\ o.pc = "use"
      \/ o.kind = "phrase" /\ o.pc = "unwrap"
  BY <1>1 DEF UnwrapMailboxKey
<1>5. c \in Calls /\ c.kind = o.kind /\ (o.kind = "mail" => c.auto = o.auto)
  <2>1. CASE o.kind = "mail"
    <3>1. o \in MailCalls /\ o.fk # None /\ o.pc = "use"
      BY <1>4, <2>1, CallKinds DEF MailCalls
    <3>2. o.stage = 1 /\ opens => o.box # NoBox
      <4>1. o.stage = 1 => opens = (o.fk = o.box.verifier)
        BY <1>2, <2>1
      <4>2. NoBox.verifier = None
        BY DEF NoBox
      <4> QED
        BY <3>1, <4>1, <4>2
    <3>3. CASE ~opens
      <4>1. c = [o EXCEPT !.pc = "failed"]
        BY <1>3, <3>3
      <4> QED
        BY <3>1, <4>1 DEF MailCalls, KeyPoints, Calls
    <3>4. CASE opens /\ o.stage = 1
      <4>1. c = [o EXCEPT !.pc = "key", !.stage = 2]
        BY <1>3, <2>1, <3>4
      <4> QED
        BY <3>1, <3>2, <3>4, <4>1 DEF MailCalls, KeyPoints, Calls
    <3>5. CASE opens /\ o.stage # 1
      <4>1. c = [o EXCEPT !.pc = "import"]
        BY <1>3, <3>5
      <4>2. o.box # NoBox
        BY <3>1, <3>5 DEF MailCalls
      <4> QED
        BY <3>1, <4>1, <4>2 DEF MailCalls, KeyPoints, Calls
    <3> QED
      BY <3>3, <3>4, <3>5
  <2>2. CASE o.kind = "phrase"
    <3>1. o \in PhraseCalls
      BY <2>2, CallKinds
    <3>2. c = [o EXCEPT !.pc = "failed"] \/ c = [o EXCEPT !.pc = "import"]
      BY <1>3, <2>2
    <3> QED
      BY <2>2, <3>1, <3>2 DEF PhraseCalls, Calls
  <2> QED
    BY <1>4, <2>1, <2>2
<1>6. /\ MailIn(c) => MailIn(o)
      /\ AutoMail(o) => AutoMail(c)
      /\ AgreesCall(c, vault)
  BY <1>4, <1>5 DEF MailIn, AutoMail, AgreesCall
<1>7. /\ task' = [task EXCEPT ![t][s] = c]
      /\ UNCHANGED <<password, vault, box, tab, reset>> /\ made' \in Nat
  BY <1>1, <1>2, <1>3 DEF UnwrapMailboxKey, serverVars, VaultIInv
<1> QED
  BY <1>1, <1>5, <1>6, <1>7, CallOnly

LEMMA WrapWithMasterKeyStep ==
  ASSUME VaultIInv, NEW t \in Tabs, NEW s \in Slots, WrapWithMasterKey(t, s)
  PROVE  VaultIInv'
<1>1. PICK o \in Calls : o = task[t][s]
  BY PageParts
<1>2. PICK c : c = IF o.stage = 1 THEN [o EXCEPT !.pc = "key", !.stage = 2, !.under = o.fk]
                   ELSE [o EXCEPT !.pc = "submit"]
  OBVIOUS
<1>3. o \in BoxCalls /\ o.mode # "account_password" /\ o.kind = "boxsetup"
  BY <1>1, CallKinds DEF WrapWithMasterKey, BoxCalls
<1>4. c \in BoxCalls /\ c.kind = "boxsetup"
  BY <1>2, <1>3 DEF BoxCalls, KeyPoints, Secrets
<1>5. c \in Calls /\ ~MailIn(c) /\ ~AutoMail(o) /\ AgreesCall(c, vault)
  BY <1>3, <1>4 DEF Calls, MailIn, AutoMail, AgreesCall
<1>6. /\ task' = [task EXCEPT ![t][s] = c]
      /\ UNCHANGED <<password, vault, box, tab, reset>> /\ made' \in Nat
  BY <1>1, <1>2 DEF WrapWithMasterKey, serverVars, VaultIInv
<1> QED
  BY <1>1, <1>5, <1>6, CallOnly

LEMMA EntryEncryptedStep ==
  ASSUME VaultIInv, NEW t \in Tabs, NEW s \in Slots, EntryEncrypted(t, s)
  PROVE  VaultIInv'
<1>1. /\ task' = [task EXCEPT ![t][s] = Idle]
      /\ UNCHANGED <<password, vault, box, tab, reset>> /\ made' \in Nat
  BY DEF EntryEncrypted, End, VaultIInv
<1>2. Idle \in Calls /\ ~MailIn(Idle) /\ AgreesCall(Idle, vault) /\ ~AutoMail(task[t][s])
  BY DEF Calls, MailIn, AutoMail, AgreesCall, Idle, EntryEncrypted
<1> QED
  BY <1>1, <1>2, CallOnly

LEMMA DeriveFeatureKeyStep ==
  ASSUME VaultIInv, NEW t \in Tabs, NEW s \in Slots, DeriveFeatureKey(t, s)
  PROVE  VaultIInv'
<1>1. PICK o \in Calls : o = task[t][s]
  BY PageParts
<1>2. PICK q \in TabStates : q = tab[t]
  BY PageParts
<1>3. PICK c : c = [o EXCEPT !.pc = "use"]
  OBVIOUS
<1>4. PICK r : r = [q EXCEPT !.feature = o.fk]
  OBVIOUS
<1>5. o.kind \in {"mail", "entry", "boxsetup"} /\ o.pc = "derive"
  BY <1>1 DEF DeriveFeatureKey
<1>6. /\ c \in Calls /\ c.kind = o.kind /\ o.fk \in Nat
      /\ o.kind = "mail" => c.auto = o.auto
  <2>1. CASE o.kind = "mail"
    <3>1. o \in MailCalls
      BY <2>1, CallKinds
    <3>2. c \in MailCalls /\ c.kind = o.kind /\ o.fk \in Nat /\ c.auto = o.auto
      BY <1>3, <1>5, <3>1 DEF MailCalls, KeyPoints
    <3> QED
      BY <3>2 DEF Calls
  <2>2. CASE o.kind = "entry"
    <3>1. o \in EntryCalls
      BY <2>2, CallKinds
    <3>2. c \in EntryCalls /\ c.kind = o.kind /\ o.fk \in Nat
      BY <1>3, <3>1 DEF EntryCalls, KeyPoints
    <3> QED
      BY <2>2, <3>2 DEF Calls
  <2>3. CASE o.kind = "boxsetup"
    <3>1. o \in BoxCalls /\ o.mode # "account_password"
      BY <1>5, <2>3, CallKinds DEF BoxCalls
    <3>2. c \in BoxCalls /\ c.kind = o.kind /\ o.fk \in Nat
      BY <1>3, <3>1 DEF BoxCalls, KeyPoints
    <3> QED
      BY <2>3, <3>2 DEF Calls
  <2> QED
    BY <1>5, <2>1, <2>2, <2>3
<1>7. /\ r \in TabStates
      /\ r.page = q.page /\ r.form = q.form /\ r.key = q.key /\ r.mdk = q.mdk
      /\ r.suppressed = q.suppressed /\ r.failed = q.failed /\ r.due = q.due
      /\ r.shown = q.shown /\ r.rendering = q.rendering /\ r.calm = q.calm
  BY <1>4, <1>6 DEF TabStates
<1>8. /\ MailIn(c) => MailIn(o)
      /\ AutoMail(o) => AutoMail(c)
      /\ AgreesCall(c, vault)
  BY <1>5, <1>6 DEF MailIn, AutoMail, AgreesCall
<1>9. /\ tab' = [tab EXCEPT ![t] = r] /\ task' = [task EXCEPT ![t][s] = c]
      /\ password' \in Passwords /\ vault' = vault /\ box' \in Boxes /\ made' \in Nat
      /\ PasswordOpens' /\ reset' = reset
  <2>1. tab' = [tab EXCEPT ![t].feature = task[t][s].fk] /\ task' = [task EXCEPT ![t][s].pc = "use"]
    BY DEF DeriveFeatureKey
  <2>2. tab' = [tab EXCEPT ![t] = r] /\ task' = [task EXCEPT ![t][s] = c]
    BY <1>1, <1>2, <1>3, <1>4, <2>1
  <2> QED
    BY <2>2 DEF DeriveFeatureKey, serverVars, VaultIInv, PasswordOpens
<1>10. r.calm => /\ tab[t].calm
                 /\ r.suppressed /\ ~r.due /\ r.key = None
                 /\ r.shown = {} /\ r.rendering = {} /\ ~MailIn(c)
  <2>1. LocalOK(tab[t], task[t])
    BY PageParts
  <2> QED
    BY <1>1, <1>2, <1>7, <1>8, <2>1 DEF LocalOK
<1>11. AutoUnlockAllowed(r) /\ ~r.failed =>
         \/ r.due \/ AutoMail(c)
         \/ /\ AutoUnlockAllowed(tab[t]) /\ ~tab[t].failed /\ ~tab[t].due
            /\ ~AutoMail(task[t][s])
  BY <1>1, <1>2, <1>7, <1>8 DEF AutoUnlockAllowed
<1>12. ~reset => /\ AgreesPage(r.page, vault)
                 /\ r.form.kind = "recover" => SameMdk(r.form.dek.mdk, vault)
                 /\ AgreesCall(c, vault)
  BY <1>2, <1>7, <1>8, PageParts DEF Agrees
<1> QED
  BY <1>6, <1>7, <1>9, <1>10, <1>11, <1>12, OneCall

LEMMA FormReadyStep ==
  ASSUME VaultIInv, NEW t \in Tabs, NEW s \in Slots, FormReady(t, s)
  PROVE  VaultIInv'
<1>1. PICK o \in Calls : o = task[t][s]
  BY PageParts
<1>2. PICK q \in TabStates : q = tab[t]
  BY PageParts
<1>3. o \in FormCalls
  BY <1>1, CallKinds DEF FormReady
<1>4. PICK f : f = [kind |-> o.kind, dek |-> Secret(o.mdk, o.secret),
                    rec |-> Secret(o.mdk, o.code), out |-> o.code]
  OBVIOUS
<1>5. f \in Forms /\ f.kind = o.kind /\ f.dek.mdk = o.mdk
  BY <1>3, <1>4 DEF Forms, FormCalls, Secret, Secrets, Keys
<1>6. PICK n : n = [q EXCEPT !.form = f]
  OBVIOUS
<1>7. /\ n \in TabStates /\ n.form = f
      /\ n.page = q.page /\ n.key = q.key
      /\ n.suppressed = q.suppressed /\ n.due = q.due
      /\ n.shown = q.shown /\ n.rendering = q.rendering /\ n.calm = q.calm
  BY <1>5, <1>6 DEF TabStates
<1>8. PICK m \in Nat : m = o.mdk
  BY <1>3 DEF FormCalls, Keys
<1>9. PICK r : r = Unlocked(n, m)
  OBVIOUS
<1>10. /\ r \in TabStates
       /\ r.page = q.page /\ r.form = f /\ r.key = q.key /\ r.suppressed = q.suppressed
       /\ r.shown = q.shown /\ r.rendering = q.rendering /\ r.calm = q.calm
       /\ AutoUnlockAllowed(r) => r.due
       /\ r.suppressed => r.due = q.due
  BY <1>7, <1>9, UnlockedFields
<1>11. Idle \in Calls /\ ~MailIn(Idle) /\ AgreesCall(Idle, vault)
  BY DEF Calls, MailIn, AgreesCall, Idle
<1>12. /\ tab' = [tab EXCEPT ![t] = r] /\ task' = [task EXCEPT ![t][s] = Idle]
       /\ password' \in Passwords /\ vault' = vault /\ box' \in Boxes /\ made' \in Nat
       /\ PasswordOpens' /\ reset' = reset
  <2>1. tab' = [tab EXCEPT ![t] = r]
    BY <1>1, <1>2, <1>4, <1>6, <1>8, <1>9 DEF FormReady
  <2> QED
    BY <2>1 DEF FormReady, End, serverVars, VaultIInv, PasswordOpens
<1>13. r.calm => /\ tab[t].calm
                 /\ r.suppressed /\ ~r.due /\ r.key = None
                 /\ r.shown = {} /\ r.rendering = {} /\ ~MailIn(Idle)
  <2>1. LocalOK(tab[t], task[t])
    BY PageParts
  <2> QED
    BY <1>2, <1>10, <1>11, <2>1 DEF LocalOK
<1>14. ~reset => /\ AgreesPage(r.page, vault)
                 /\ r.form.kind = "recover" => SameMdk(r.form.dek.mdk, vault)
                 /\ AgreesCall(Idle, vault)
  <2>1. ~reset => AgreesPage(q.page, vault) /\ AgreesCall(o, vault)
    BY <1>1, <1>2, PageParts DEF Agrees
  <2> QED
    BY <1>5, <1>10, <1>11, <2>1 DEF AgreesCall
<1> QED
  BY <1>10, <1>11, <1>12, <1>13, <1>14, OneCall

\* A call on the mailbox of a page, as it starts.
LEMMA MailCallFields ==
  ASSUME NEW b \in Boxes, NEW a \in BOOLEAN
  PROVE  /\ MailCall(b, a) \in Calls /\ MailIn(MailCall(b, a))
         /\ AutoMail(MailCall(b, a)) <=> a
         /\ \A v : AgreesCall(MailCall(b, a), v)
<1>1. MailCall(b, a) \in MailCalls
  BY DEF MailCall, MailCalls, KeyPoints, None
<1> QED
  BY <1>1 DEF Calls, MailCall, MailIn, AutoMail, AgreesCall

LEMMA UnwrapMdkStep ==
  ASSUME VaultIInv, NEW t \in Tabs, NEW s \in Slots, UnwrapMdk(t, s)
  PROVE  VaultIInv'
<1>1. PICK o \in Calls : o = task[t][s]
  BY PageParts
<1>2. PICK q \in TabStates : q = tab[t]
  BY PageParts
<1>3. o \in UnlockCalls /\ o.kind = "unlock" /\ o.then \in BOOLEAN
  BY <1>1, CallKinds DEF UnwrapMdk, UnlockCalls
<1>4. PICK opens \in BOOLEAN : opens = (o.secret = o.wrapped.secret)
  OBVIOUS
<1>5. PICK m \in Nat : m = o.wrapped.mdk
  BY <1>3 DEF UnlockCalls, Vaults, NoVault, None, Keys
<1>6. PICK b \in Boxes : b = q.page.box
  BY DEF TabStates, Pages
<1>7. PICK c : c = IF opens /\ o.then THEN MailCall(b, FALSE) ELSE Idle
  OBVIOUS
<1>8. /\ c \in Calls /\ (MailIn(c) => o.then) /\ AgreesCall(c, vault)
  BY <1>7, MailCallFields DEF Calls, Idle, MailIn, AgreesCall
<1>9. PICK r : r = IF opens THEN Unlocked(q, m) ELSE q
  OBVIOUS
<1>10. /\ r \in TabStates
       /\ r.page = q.page /\ r.form = q.form /\ r.key = q.key /\ r.suppressed = q.suppressed
       /\ r.shown = q.shown /\ r.rendering = q.rendering /\ r.calm = q.calm
       /\ r.suppressed => r.due = q.due
       /\ AutoUnlockAllowed(r) => r.due \/ r = q
  <2>1. CASE opens
    BY <1>9, <2>1, UnlockedFields
  <2>2. CASE ~opens
    BY <1>9, <2>2
  <2> QED
    BY <2>1, <2>2
<1>11. /\ tab' = [tab EXCEPT ![t] = r] /\ task' = [task EXCEPT ![t][s] = c]
       /\ password' \in Passwords /\ vault' = vault /\ box' \in Boxes /\ made' \in Nat
       /\ PasswordOpens' /\ reset' = reset
  <2>1. task' = [task EXCEPT ![t][s] = c]
    BY <1>1, <1>2, <1>4, <1>6, <1>7 DEF UnwrapMdk
  <2>2. tab' = IF opens THEN [tab EXCEPT ![t] = Unlocked(q, m)] ELSE tab
    BY <1>1, <1>2, <1>4, <1>5 DEF UnwrapMdk
  <2>3. tab' = [tab EXCEPT ![t] = r]
    BY <1>2, <1>9, <2>2 DEF VaultIInv
  <2> QED
    BY <2>1, <2>3 DEF UnwrapMdk, serverVars, VaultIInv, PasswordOpens
<1>12. r.calm => /\ tab[t].calm
                 /\ r.suppressed /\ ~r.due /\ r.key = None
                 /\ r.shown = {} /\ r.rendering = {} /\ ~MailIn(c)
  <2>1. LocalOK(tab[t], task[t])
    BY PageParts
  <2>2. q.calm => ~MailIn(o)
    BY <1>1, <1>2, <2>1 DEF LocalOK
  <2>3. o.then => MailIn(o)
    BY <1>3 DEF MailIn
  <2> QED
    BY <1>2, <1>8, <1>10, <2>1, <2>2, <2>3 DEF LocalOK
<1>13. AutoUnlockAllowed(r) /\ ~r.failed =>
         \/ r.due \/ AutoMail(c)
         \/ /\ AutoUnlockAllowed(tab[t]) /\ ~tab[t].failed /\ ~tab[t].due
            /\ ~AutoMail(task[t][s])
  <2>1. ~AutoMail(o)
    BY <1>3 DEF AutoMail
  <2> QED
    BY <1>1, <1>2, <1>10, <2>1
<1>14. ~reset => /\ AgreesPage(r.page, vault)
                 /\ r.form.kind = "recover" => SameMdk(r.form.dek.mdk, vault)
                 /\ AgreesCall(c, vault)
  BY <1>2, <1>8, <1>10, PageParts DEF Agrees
<1> QED
  BY <1>8, <1>10, <1>11, <1>12, <1>13, <1>14, OneCall

LEMMA StorePrivateKeyStep ==
  ASSUME VaultIInv, NEW t \in Tabs, NEW s \in Slots, StorePrivateKey(t, s)
  PROVE  VaultIInv'
<1>1. PICK o \in Calls : o = task[t][s]
  BY PageParts
<1>2. PICK q \in TabStates : q = tab[t]
  BY PageParts
<1>3. o.kind \in {"mail", "phrase"} /\ o.pc = "import"
  BY <1>1 DEF StorePrivateKey
<1>4. o.box \in Boxes /\ o.box # NoBox
  BY <1>3, CallKinds DEF MailCalls, PhraseCalls
<1>5. o.box.key \in Nat /\ o.box.key # None
  BY <1>4 DEF Boxes, Keys, None
<1> DEFINE auto == o.kind = "mail" /\ o.auto
<1>7. PICK n : n = [q EXCEPT !.key = o.box.key,
                             !.failed = ~auto /\ q.failed,
                             !.suppressed = auto /\ q.suppressed]
  OBVIOUS
<1>8. n \in TabStates /\ n.page = q.page /\ n.form = q.form /\ n.key # None /\ n.calm = q.calm
  BY <1>5, <1>7 DEF TabStates
<1>9. PICK r : r = Rendered(n)
  OBVIOUS
<1>10. /\ r \in TabStates /\ r.page = q.page /\ r.form = q.form /\ r.calm = q.calm
       /\ ~AutoUnlockAllowed(r)
  BY <1>8, <1>9, RenderedFields DEF AutoUnlockAllowed
<1>11. Idle \in Calls /\ ~MailIn(Idle) /\ AgreesCall(Idle, vault)
  BY DEF Calls, MailIn, AgreesCall, Idle
<1>12. /\ tab' = [tab EXCEPT ![t] = r] /\ task' = [task EXCEPT ![t][s] = Idle]
       /\ password' \in Passwords /\ vault' = vault /\ box' \in Boxes /\ made' \in Nat
       /\ PasswordOpens' /\ reset' = reset
  <2>1. tab' = [tab EXCEPT ![t] = r]
    BY <1>1, <1>2, <1>7, <1>9 DEF StorePrivateKey
  <2> QED
    BY <2>1 DEF StorePrivateKey, End, serverVars, VaultIInv, PasswordOpens
<1>13. ~r.calm
  <2>1. LocalOK(tab[t], task[t]) /\ MailIn(o)
    BY <1>3, PageParts DEF MailIn
  <2> QED
    BY <1>1, <1>2, <1>10, <2>1 DEF LocalOK
<1>14. ~reset => /\ AgreesPage(r.page, vault)
                 /\ r.form.kind = "recover" => SameMdk(r.form.dek.mdk, vault)
                 /\ AgreesCall(Idle, vault)
  BY <1>2, <1>10, <1>11, PageParts DEF Agrees
<1> QED
  BY <1>10, <1>11, <1>12, <1>13, <1>14, OneCall

LEMMA UnlockFailedStep ==
  ASSUME VaultIInv, NEW t \in Tabs, NEW s \in Slots, UnlockFailed(t, s)
  PROVE  VaultIInv'
<1>1. PICK o \in Calls : o = task[t][s]
  BY PageParts
<1>2. PICK q \in TabStates : q = tab[t]
  BY PageParts
<1>3. o.kind \in {"mail", "phrase"}
  BY <1>1 DEF UnlockFailed
<1>4. PICK r : r = IF o.kind = "mail" /\ o.auto THEN [q EXCEPT !.failed = TRUE] ELSE q
  OBVIOUS
<1>5. /\ r \in TabStates
      /\ r.page = q.page /\ r.form = q.form /\ r.calm = q.calm
      /\ r.failed \/ (r = q /\ ~AutoMail(o))
  BY <1>4 DEF TabStates, AutoMail
<1>6. Idle \in Calls /\ ~MailIn(Idle) /\ AgreesCall(Idle, vault)
  BY DEF Calls, MailIn, AgreesCall, Idle
<1>7. /\ tab' = [tab EXCEPT ![t] = r] /\ task' = [task EXCEPT ![t][s] = Idle]
      /\ password' \in Passwords /\ vault' = vault /\ box' \in Boxes /\ made' \in Nat
      /\ PasswordOpens' /\ reset' = reset
  <2>1. tab' = IF o.kind = "mail" /\ o.auto THEN [tab EXCEPT ![t].failed = TRUE] ELSE tab
    BY <1>1 DEF UnlockFailed
  <2>2. tab' = [tab EXCEPT ![t] = r]
    BY <1>2, <1>4, <2>1 DEF VaultIInv
  <2> QED
    BY <2>2 DEF UnlockFailed, End, serverVars, VaultIInv, PasswordOpens
<1>8. ~r.calm
  <2>1. LocalOK(tab[t], task[t]) /\ MailIn(o)
    BY <1>3, PageParts DEF MailIn
  <2> QED
    BY <1>1, <1>2, <1>5, <2>1 DEF LocalOK
<1>9. AutoUnlockAllowed(r) /\ ~r.failed =>
         \/ r.due \/ AutoMail(Idle)
         \/ /\ AutoUnlockAllowed(tab[t]) /\ ~tab[t].failed /\ ~tab[t].due
            /\ ~AutoMail(task[t][s])
  BY <1>1, <1>2, <1>5
<1>10. ~reset => /\ AgreesPage(r.page, vault)
                 /\ r.form.kind = "recover" => SameMdk(r.form.dek.mdk, vault)
                 /\ AgreesCall(Idle, vault)
  BY <1>2, <1>5, <1>6, PageParts DEF Agrees
<1> QED
  BY <1>5, <1>6, <1>7, <1>8, <1>9, <1>10, OneCall

\* A call is made, and noted in its tab.
LEMMA CallBeginsInTab ==
  ASSUME VaultIInv, NEW t \in Tabs, NEW r \in TabStates, NEW c \in Calls,
         Begin(t, c), tab' = [tab EXCEPT ![t] = r],
         UNCHANGED <<password, vault, box, made, reset>>,
         r.page = tab[t].page, r.form = tab[t].form,
         ~r.calm \/ (r = tab[t] /\ ~MailIn(c)),
         AutoUnlockAllowed(r) /\ ~r.failed =>
            \/ r.due \/ AutoMail(c)
            \/ AutoUnlockAllowed(tab[t]) /\ ~tab[t].failed /\ ~tab[t].due,
         ~reset => AgreesCall(c, vault)
  PROVE  VaultIInv'
<1>1. PICK s \in Slots : task[t][s] = Idle /\ task' = [task EXCEPT ![t][s] = c]
  BY DEF Begin
<1>2. ~AutoMail(task[t][s])
  BY <1>1 DEF AutoMail, Idle
<1>3. r.calm => /\ tab[t].calm
                /\ r.suppressed /\ ~r.due /\ r.key = None
                /\ r.shown = {} /\ r.rendering = {} /\ ~MailIn(c)
  <2>1. LocalOK(tab[t], task[t])
    BY PageParts
  <2> QED
    BY <2>1 DEF LocalOK
<1>4. AutoUnlockAllowed(r) /\ ~r.failed =>
         \/ r.due \/ AutoMail(c)
         \/ /\ AutoUnlockAllowed(tab[t]) /\ ~tab[t].failed /\ ~tab[t].due
            /\ ~AutoMail(task[t][s])
  BY <1>2
<1>5. ~reset => /\ AgreesPage(r.page, vault)
                /\ r.form.kind = "recover" => SameMdk(r.form.dek.mdk, vault)
                /\ AgreesCall(c, vault)
  BY PageParts DEF Agrees
<1>6. /\ password' \in Passwords /\ vault' = vault /\ box' \in Boxes /\ made' \in Nat
      /\ PasswordOpens' /\ reset' = reset
  BY DEF VaultIInv, PasswordOpens
<1> QED
  BY <1>1, <1>3, <1>4, <1>5, <1>6, OneCall

LEMMA MaybeAutoUnlockStep ==
  ASSUME VaultIInv, NEW t \in Tabs, MaybeAutoUnlock(t)
  PROVE  VaultIInv'
<1>1. PICK q \in TabStates : q = tab[t]
  BY PageParts
<1>2. PICK b \in Boxes : b = q.page.box
  BY DEF TabStates, Pages
<1>3. PICK r : r = [q EXCEPT !.due = FALSE]
  OBVIOUS
<1>4. r \in TabStates /\ r.page = q.page /\ r.form = q.form /\ r.calm = q.calm
  BY <1>3 DEF TabStates
<1>5. PICK c : c = MailCall(b, TRUE)
  OBVIOUS
<1>6. c \in Calls /\ AutoMail(c) /\ AgreesCall(c, vault)
  BY <1>5, MailCallFields
<1>7. ~r.calm
  <2>1. LocalOK(tab[t], task[t])
    BY PageParts
  <2> QED
    BY <1>1, <1>4, <2>1 DEF LocalOK, MaybeAutoUnlock
<1>8. /\ Begin(t, c) /\ tab' = [tab EXCEPT ![t] = r]
      /\ UNCHANGED <<password, vault, box, made, reset>>
  BY <1>1, <1>2, <1>3, <1>5 DEF MaybeAutoUnlock, serverVars
<1>9. r.page = tab[t].page /\ r.form = tab[t].form
  BY <1>1, <1>4
<1> QED
  BY <1>4, <1>6, <1>7, <1>8, <1>9, CallBeginsInTab

LEMMA UnlockStep ==
  ASSUME VaultIInv, NEW t \in Tabs, NEW p \in Passwords, NEW then \in BOOLEAN,
         Unlock(t, p, then)
  PROVE  VaultIInv'
<1>1. PICK q \in TabStates : q = tab[t]
  BY PageParts
<1>2. PICK v \in Vaults : v = q.page.vault
  BY DEF TabStates, Pages
<1>3. PICK c : c = [kind |-> "unlock", secret |-> p, wrapped |-> v, then |-> then]
  OBVIOUS
<1>4. c \in UnlockCalls
  BY <1>3 DEF UnlockCalls
<1>5. c \in Calls /\ (MailIn(c) => then) /\ AgreesCall(c, vault)
  BY <1>3, <1>4 DEF Calls, MailIn, AgreesCall
<1>6. PICK r : r = IF then THEN [q EXCEPT !.calm = FALSE] ELSE q
  OBVIOUS
<1>7. /\ r \in TabStates /\ r.page = q.page /\ r.form = q.form
      /\ r.suppressed = q.suppressed /\ r.key = q.key /\ r.mdk = q.mdk
      /\ r.failed = q.failed /\ r.due = q.due
      /\ IF then THEN ~r.calm ELSE r = q
  BY <1>6 DEF TabStates
<1>8. tab' = [tab EXCEPT ![t] = r]
  <2>1. tab' = IF then THEN [tab EXCEPT ![t].calm = FALSE] ELSE tab
    BY DEF Unlock
  <2> QED
    BY <1>1, <1>6, <2>1 DEF VaultIInv
<1>9. Begin(t, c) /\ UNCHANGED <<password, vault, box, made, reset>>
  BY <1>1, <1>2, <1>3 DEF Unlock, serverVars
<1>10. r.page = tab[t].page /\ r.form = tab[t].form
  BY <1>1, <1>7
<1>11. ~r.calm \/ (r = tab[t] /\ ~MailIn(c))
  BY <1>1, <1>5, <1>7
<1>12. AutoUnlockAllowed(r) /\ ~r.failed =>
          \/ r.due \/ AutoMail(c)
          \/ AutoUnlockAllowed(tab[t]) /\ ~tab[t].failed /\ ~tab[t].due
  BY <1>1, <1>7 DEF AutoUnlockAllowed
<1> QED
  BY <1>5, <1>7, <1>8, <1>9, <1>10, <1>11, <1>12, CallBeginsInTab

LEMMA HandleUnlockStep ==
  ASSUME VaultIInv, NEW t \in Tabs, NEW p \in Passwords, HandleUnlock(t, p)
  PROVE  VaultIInv'
<1>1. PICK q \in TabStates : q = tab[t]
  BY PageParts
<1>2. PICK b \in Boxes : b = q.page.box
  BY DEF TabStates, Pages
<1>3. PICK c : c = IF b.mode = "master" THEN MailCall(b, FALSE)
                   ELSE [kind |-> "phrase", pc |-> "unwrap", secret |-> p, box |-> b]
  OBVIOUS
<1>4. c \in Calls /\ AgreesCall(c, vault)
  <2>1. CASE b.mode = "master"
    BY <1>3, <2>1, MailCallFields
  <2>2. CASE b.mode # "master"
    <3>1. b # NoBox
      BY <1>1, <1>2 DEF HandleUnlock
    <3>2. c = [kind |-> "phrase", pc |-> "unwrap", secret |-> p, box |-> b]
      BY <1>3, <2>2
    <3>3. c \in PhraseCalls
      BY <3>1, <3>2 DEF PhraseCalls
    <3> QED
      BY <3>2, <3>3 DEF Calls, AgreesCall
  <2> QED
    BY <2>1, <2>2
<1>5. PICK r : r = [q EXCEPT !.calm = FALSE]
  OBVIOUS
<1>6. /\ r \in TabStates /\ r.page = q.page /\ r.form = q.form
      /\ r.suppressed = q.suppressed /\ r.key = q.key /\ r.mdk = q.mdk
      /\ r.failed = q.failed /\ r.due = q.due /\ ~r.calm
  BY <1>5 DEF TabStates
<1>7. /\ Begin(t, c) /\ tab' = [tab EXCEPT ![t] = r]
      /\ UNCHANGED <<password, vault, box, made, reset>>
  BY <1>1, <1>2, <1>3, <1>5 DEF HandleUnlock, serverVars
<1>8. r.page = tab[t].page /\ r.form = tab[t].form
  BY <1>1, <1>6
<1>9. AutoUnlockAllowed(r) /\ ~r.failed =>
         \/ r.due \/ AutoMail(c)
         \/ AutoUnlockAllowed(tab[t]) /\ ~tab[t].failed /\ ~tab[t].due
  BY <1>1, <1>6 DEF AutoUnlockAllowed
<1> QED
  BY <1>4, <1>6, <1>7, <1>8, <1>9, CallBeginsInTab

-----------------------------------------------------------------------------
\* A step within a tab.
LEMMA InTab ==
  ASSUME VaultIInv, NEW t \in Tabs, NEW r \in TabStates,
         tab' = [tab EXCEPT ![t] = r],
         UNCHANGED <<password, vault, box, made, task, reset>>,
         r.page = tab[t].page, r.form = tab[t].form,
         LocalOK(r, task[t])
  PROVE  VaultIInv'
<1>1. PICK k \in [Slots -> Calls] : k = task[t]
  BY DEF VaultIInv
<1>2. task' = [task EXCEPT ![t] = k] /\ LocalOK(r, k)
  BY <1>1 DEF VaultIInv
<1>3. ~reset => Agrees(r, k, vault)
  BY <1>1, PageParts DEF Agrees
<1>4. /\ password' \in Passwords /\ vault' \in Vaults /\ box' \in Boxes /\ made' \in Nat
      /\ PasswordOpens' /\ vault' = vault
  BY DEF VaultIInv, PasswordOpens
<1> QED
  BY <1>2, <1>3, <1>4, OneTab

LEMMA LockVaultStep ==
  ASSUME VaultIInv, NEW t \in Tabs, LockVault(t)
  PROVE  VaultIInv'
<1>1. PICK q \in TabStates : q = tab[t]
  BY PageParts
<1>2. PICK r : r = Locked(q)
  OBVIOUS
<1>3. /\ r \in TabStates /\ r.mdk = None
      /\ r.page = q.page /\ r.form = q.form /\ r.key \in {None, q.key}
      /\ r.suppressed = q.suppressed /\ r.due = q.due
      /\ r.shown = q.shown /\ r.rendering = q.rendering /\ r.calm = q.calm
  BY <1>2, LockedFields
<1>4. LocalOK(q, task[t])
  BY <1>1, PageParts
<1>5. LocalOK(r, task[t])
  BY <1>3, <1>4 DEF LocalOK, AutoUnlockAllowed
<1>6. /\ tab' = [tab EXCEPT ![t] = r]
      /\ UNCHANGED <<password, vault, box, made, task, reset>>
  BY <1>1, <1>2 DEF LockVault, serverVars
<1>7. r.page = tab[t].page /\ r.form = tab[t].form
  BY <1>1, <1>3
<1> QED
  BY <1>3, <1>5, <1>6, <1>7, InTab

LEMMA RenderEndsStep ==
  ASSUME VaultIInv, NEW t \in Tabs, NEW v \in Views, RenderEnds(t, v)
  PROVE  VaultIInv'
<1>1. PICK q \in TabStates : q = tab[t]
  BY PageParts
<1>2. PICK r : r = [q EXCEPT !.rendering = q.rendering \ {v}, !.shown = q.shown \cup {v}]
  OBVIOUS
<1>3. /\ r \in TabStates /\ r.page = q.page /\ r.form = q.form
      /\ r.key = q.key /\ r.mdk = q.mdk
      /\ r.suppressed = q.suppressed /\ r.due = q.due /\ r.failed = q.failed /\ r.calm = q.calm
  BY <1>2 DEF TabStates
<1>4. LocalOK(q, task[t]) /\ v \in q.rendering
  BY <1>1, PageParts DEF RenderEnds
<1>5. LocalOK(r, task[t])
  BY <1>3, <1>4 DEF LocalOK, AutoUnlockAllowed
<1>6. /\ tab' = [tab EXCEPT ![t] = r]
      /\ UNCHANGED <<password, vault, box, made, task, reset>>
  <2>1. tab' = [tab EXCEPT ![t].rendering = @ \ {v}, ![t].shown = @ \cup {v}]
    BY DEF RenderEnds
  <2>2. tab' = [tab EXCEPT ![t] = r]
    BY <1>1, <1>2, <2>1 DEF VaultIInv, TabStates
  <2> QED
    BY <2>2 DEF RenderEnds, serverVars
<1>7. r.page = tab[t].page /\ r.form = tab[t].form
  BY <1>1, <1>3
<1> QED
  BY <1>3, <1>5, <1>6, <1>7, InTab

LEMMA HandleLockStep ==
  ASSUME VaultIInv, NEW t \in Tabs, HandleLock(t)
  PROVE  VaultIInv'
<1>1. PICK q \in TabStates : q = tab[t]
  BY PageParts
<1>2. PICK calm \in BOOLEAN : calm = ~MailInFlight(t)
  OBVIOUS
<1>3. PICK n : n = [q EXCEPT !.key = None, !.suppressed = TRUE, !.calm = calm]
  OBVIOUS
<1>4. /\ n \in TabStates /\ n.page = q.page /\ n.form = q.form
      /\ n.key = None /\ n.suppressed /\ n.calm = calm
      /\ n.due = q.due /\ n.rendering = q.rendering
  BY <1>3 DEF TabStates, None
<1>5. PICK r : r = Rendered(n)
  OBVIOUS
<1>6. /\ r \in TabStates /\ r.page = q.page /\ r.form = q.form
      /\ r.key = None /\ r.suppressed /\ r.calm = calm
      /\ r.due = q.due /\ r.rendering = q.rendering /\ r.shown = {}
  BY <1>4, <1>5, RenderedFields
<1>7. calm => /\ ~q.due /\ q.rendering = {}
              /\ \A s \in Slots : ~MailIn(task[t][s])
  BY <1>1, <1>2 DEF MailInFlight, MailIn
<1>8. LocalOK(r, task[t])
  BY <1>6, <1>7 DEF LocalOK, AutoUnlockAllowed
<1>9. /\ tab' = [tab EXCEPT ![t] = r]
      /\ UNCHANGED <<password, vault, box, made, task, reset>>
  BY <1>1, <1>2, <1>3, <1>5 DEF HandleLock, serverVars
<1>10. r.page = tab[t].page /\ r.form = tab[t].form
  BY <1>1, <1>6
<1> QED
  BY <1>6, <1>8, <1>9, <1>10, InTab

LEMMA ResetVaultStep ==
  ASSUME VaultIInv, NEW t \in Tabs, ResetVault(t)
  PROVE  VaultIInv'
<1>1. PICK q \in TabStates : q = tab[t]
  BY PageParts
<1>2. PICK k \in [Slots -> Calls] : k = task[t]
  BY DEF VaultIInv
<1>3. PICK n : n = Locked(q)
  OBVIOUS
<1>4. PICK r : r = [n EXCEPT !.page = [vault |-> NoVault, box |-> NoBox]]
  OBVIOUS
<1>5. n \in TabStates
  BY <1>3, LockedFields
<1>6. /\ r \in TabStates /\ r.page.box = NoBox
      /\ r.calm = n.calm /\ r.suppressed = n.suppressed /\ r.due = n.due /\ r.key = n.key
      /\ r.shown = n.shown /\ r.rendering = n.rendering
  BY <1>4, <1>5 DEF TabStates, Pages, Vaults, Boxes
<1>7. ~AutoUnlockAllowed(r)
  BY <1>6 DEF AutoUnlockAllowed, NoBox
<1>8. LocalOK(r, k)
  <2>1. LocalOK(q, k)
    BY <1>1, <1>2, PageParts
  <2> QED
    BY <1>3, <1>6, <1>7, <2>1, LockedFields DEF LocalOK
<1>9. /\ tab' = [tab EXCEPT ![t] = r] /\ task' = [task EXCEPT ![t] = k]
      /\ password' \in Passwords /\ made' \in Nat /\ reset'
  BY <1>1, <1>2, <1>3, <1>4 DEF ResetVault, VaultIInv
<1>10. /\ vault' = NoVault /\ vault' \in Vaults /\ box' = NoBox /\ box' \in Boxes
       /\ PasswordOpens'
  BY DEF ResetVault, Vaults, Boxes, PasswordOpens, NoBox
<1> QED
  BY <1>6, <1>8, <1>9, <1>10, OneTab

\* A form that the server takes stores a vault that the password and the code
\* open; recovered, its master key is the stored one.
LEMMA FinishFormStep ==
  ASSUME VaultIInv, NEW t \in Tabs, FinishForm(t)
  PROVE  VaultIInv'
<1>1. PICK q \in TabStates : q = tab[t]
  BY PageParts
<1>2. PICK k \in [Slots -> Calls] : k = task[t]
  BY DEF VaultIInv
<1>3. PICK f \in Forms : f = q.form
  BY <1>1, PageParts
<1>4. f # NoForm
  BY <1>1, <1>3 DEF FinishForm
<1>5. CASE UNCHANGED <<vault, tab>>
  <2>1. LocalOK(q, k)
    BY <1>1, <1>2, PageParts
  <2>2. q.page = tab[t].page /\ q.form = tab[t].form /\ LocalOK(q, task[t])
    BY <1>1, <1>2, <2>1
  <2>3. /\ tab' = [tab EXCEPT ![t] = q]
        /\ UNCHANGED <<password, vault, box, made, task, reset>>
    BY <1>1, <1>5 DEF FinishForm, VaultIInv
  <2> QED
    BY <2>2, <2>3, InTab
<1>6. CASE /\ Verified(f.dek.secret)
           /\ f.kind = "setup" => vault = NoVault
           /\ vault' = Stored(f)
           /\ tab' = [tab EXCEPT ![t].form = NoForm, ![t].page.vault = vault']
  <2>1. PICK v : v = Stored(f)
    OBVIOUS
  <2>2. /\ v \in Vaults /\ v # NoVault
        /\ v.secret = password /\ v.mdk = f.dek.mdk
    BY <1>4, <1>6, <2>1 DEF Stored, Forms, Vaults, Verified, NoVault, None, Keys
  <2>3. PICK r : r = [q EXCEPT !.form = NoForm, !.page.vault = v]
    OBVIOUS
  <2>4. /\ r \in TabStates /\ r.form = NoForm
        /\ r.page.vault = v /\ r.page.box = q.page.box
        /\ r.key = q.key /\ r.mdk = q.mdk
        /\ r.suppressed = q.suppressed /\ r.due = q.due /\ r.failed = q.failed /\ r.calm = q.calm
        /\ r.shown = q.shown /\ r.rendering = q.rendering
    BY <2>2, <2>3 DEF TabStates, Pages, Forms
  <2>5. LocalOK(r, k)
    <3>1. LocalOK(q, k)
      BY <1>1, <1>2, PageParts
    <3> QED
      BY <2>4, <3>1 DEF LocalOK, AutoUnlockAllowed
  <2>6. /\ tab' = [tab EXCEPT ![t] = r] /\ task' = [task EXCEPT ![t] = k]
    <3>1. tab' = [tab EXCEPT ![t].form = NoForm, ![t].page.vault = v]
      BY <1>6, <2>1
    <3>2. tab' = [tab EXCEPT ![t] = r]
      BY <1>1, <2>3, <3>1 DEF VaultIInv, TabStates
    <3> QED
      BY <1>2, <3>2 DEF FinishForm, VaultIInv
  <2>7. /\ password' \in Passwords /\ vault' \in Vaults /\ box' \in Boxes /\ made' \in Nat
        /\ PasswordOpens' /\ reset' = reset /\ vault' = v
    BY <1>6, <2>1, <2>2 DEF FinishForm, VaultIInv, PasswordOpens
  <2>8. ASSUME ~reset
        PROVE  /\ \A m \in Keys : SameMdk(m, vault) => SameMdk(m, v)
               /\ Agrees(r, k, v)
    <3>1. Agrees(q, k, vault)
      BY <1>1, <1>2, <2>8, PageParts
    <3>2. f.kind \in {"setup", "recover"}
      BY <1>4 DEF Forms
    <3>3. \A m : SameMdk(m, vault) => SameMdk(m, v)
      <4>1. CASE f.kind = "setup"
        BY <1>6, <4>1 DEF SameMdk
      <4>2. CASE f.kind = "recover"
        BY <1>3, <2>2, <3>1, <4>2 DEF SameMdk, Agrees
      <4> QED
        BY <3>2, <4>1, <4>2
    <3>4. AgreesPage(r.page, v) /\ r.form.kind # "recover"
      BY <2>2, <2>4 DEF AgreesPage, SameMdk, NoForm
    <3>5. \A s \in Slots : AgreesCall(k[s], v)
      BY <3>1, <3>3 DEF Agrees, AgreesCall, AgreesPage
    <3> QED
      BY <3>3, <3>4, <3>5 DEF Agrees
  <2>9. ~reset' => /\ ~reset
                   /\ \A m \in Keys : SameMdk(m, vault) => SameMdk(m, vault')
                   /\ Agrees(r, k, vault')
    BY <2>7, <2>8
  <2> QED
    BY <2>4, <2>5, <2>6, <2>7, <2>9, OneTab
<1> QED
  BY <1>1, <1>3, <1>5, <1>6 DEF FinishForm, SetupAllowed

\* A page that is loaded shows what is stored.
LEMMA LoadPageStep ==
  ASSUME VaultIInv, NEW t \in Tabs, NEW full \in BOOLEAN, LoadPage(t, full)
  PROVE  VaultIInv'
<1>1. PICK q \in TabStates : q = tab[t]
  BY PageParts
<1>2. PICK k \in [Slots -> Calls] : k = task[t]
  BY DEF VaultIInv
<1>3. PICK page \in Pages : page = [vault |-> vault, box |-> box]
  BY DEF VaultIInv, Pages
<1>4. PICK b : b = NewTab(q.mdk, page)
  OBVIOUS
<1>5. /\ b \in TabStates /\ b.page = page /\ b.form = NoForm /\ ~b.calm
  BY <1>4, NewTabFields DEF TabStates
<1>6. PICK n : n = [b EXCEPT !.feature = q.feature, !.key = q.key]
  OBVIOUS
<1>7. /\ n \in TabStates /\ n.page = page /\ n.form = NoForm /\ ~n.calm
  BY <1>5, <1>6 DEF TabStates
<1>8. PICK d : d = IF full THEN b ELSE Rendered(n)
  OBVIOUS
<1>9. /\ d \in TabStates /\ d.page = page /\ d.form = NoForm /\ ~d.calm
  BY <1>5, <1>7, <1>8, RenderedFields
<1>10. PICK r : r = Asked(d)
  OBVIOUS
<1>11. /\ r \in TabStates /\ r.page = page /\ r.form = NoForm /\ ~r.calm
       /\ AutoUnlockAllowed(r) => r.due
  <2>1. /\ r \in TabStates /\ r = [d EXCEPT !.due = r.due]
        /\ AutoUnlockAllowed(r) => r.due
    BY <1>9, <1>10, AskedFields
  <2> QED
    BY <1>9, <2>1 DEF TabStates
<1>12. PICK j : j = IF full THEN [s \in Slots |-> Idle] ELSE k
  OBVIOUS
<1>13. j \in [Slots -> Calls]
  BY <1>12 DEF Calls
<1>14. LocalOK(r, j)
  BY <1>11 DEF LocalOK
<1>15. /\ tab' = [tab EXCEPT ![t] = r] /\ task' = [task EXCEPT ![t] = j]
  <2>1. tab' = [tab EXCEPT ![t] = r]
    <3>1. tab' = [tab EXCEPT ![t] = Asked(IF full THEN b ELSE Rendered(n))]
      BY <1>1, <1>3, <1>4, <1>6 DEF LoadPage, Page
    <3> QED
      BY <1>8, <1>10, <3>1
  <2>2. task' = [task EXCEPT ![t] = j]
    BY <1>2, <1>12 DEF LoadPage, VaultIInv
  <2> QED
    BY <2>1, <2>2
<1>16. /\ password' \in Passwords /\ vault' \in Vaults /\ box' \in Boxes /\ made' \in Nat
       /\ PasswordOpens' /\ reset' = reset /\ vault' = vault
  BY DEF LoadPage, serverVars, VaultIInv, PasswordOpens
<1>17. ~reset => Agrees(r, j, vault)
  <2>1. AgreesPage(r.page, vault) /\ r.form.kind # "recover"
    BY <1>3, <1>11 DEF AgreesPage, SameMdk, NoForm
  <2>2. ~reset => \A s \in Slots : AgreesCall(k[s], vault)
    BY <1>2, PageParts DEF Agrees
  <2>3. AgreesCall(Idle, vault)
    BY DEF AgreesCall, Idle
  <2> QED
    BY <1>12, <2>1, <2>2, <2>3 DEF Agrees
<1>18. ~reset' => /\ ~reset
                  /\ \A m \in Keys : SameMdk(m, vault) => SameMdk(m, vault')
                  /\ Agrees(r, j, vault')
  BY <1>16, <1>17
<1> QED
  BY <1>11, <1>13, <1>14, <1>15, <1>16, <1>18, OneTab

\* The server takes a mailbox that opens with the account password only if it
\* is wrapped with the password of this moment.
LEMMA MailboxSubmittedStep ==
  ASSUME VaultIInv, NEW t \in Tabs, NEW s \in Slots, MailboxSubmitted(t, s)
  PROVE  VaultIInv'
<1>1. PICK o \in Calls : o = task[t][s]
  BY PageParts
<1>2. PICK q \in TabStates : q = tab[t]
  BY PageParts
<1>3. o \in BoxCalls
  BY <1>1, CallKinds DEF MailboxSubmitted
<1>4. Idle \in Calls /\ ~MailIn(Idle) /\ AgreesCall(Idle, vault) /\ ~AutoMail(o)
  BY <1>3 DEF Calls, MailIn, AutoMail, AgreesCall, Idle, BoxCalls
<1>5. task' = [task EXCEPT ![t][s] = Idle] /\ UNCHANGED <<password, vault, reset>> /\ made' \in Nat
  BY DEF MailboxSubmitted, End, VaultIInv
<1>6. CASE UNCHANGED <<box, tab>>
  BY <1>1, <1>4, <1>5, <1>6, CallOnly
<1> DEFINE new == [mode |-> o.mode, key |-> o.key, under |-> o.under,
                   verifier |-> IF o.mode = "master" THEN o.fk ELSE o.secret]
<1>7. CASE /\ o.mode = "account_password" => Verified(o.secret)
           /\ box' = new
           /\ tab' = [tab EXCEPT ![t] = Asked(Rendered([q EXCEPT !.page.box = new]))]
  <2>1. PICK b : b = new
    OBVIOUS
  <2>2. b \in Boxes /\ (b.mode = "account_password" => b.under = password)
    BY <1>3, <1>7, <2>1 DEF Boxes, BoxCalls, Secrets, Verified
  <2>3. PICK n : n = [q EXCEPT !.page.box = b]
    OBVIOUS
  <2>4. /\ n \in TabStates /\ n.form = q.form /\ n.page.vault = q.page.vault
        /\ n.key = q.key /\ n.calm = q.calm /\ n.suppressed = q.suppressed
        /\ n.due = q.due /\ n.rendering = q.rendering
    BY <2>2, <2>3 DEF TabStates, Pages
  <2>5. PICK d : d = Rendered(n)
    OBVIOUS
  <2>6. /\ d \in TabStates /\ d.form = q.form /\ d.page = n.page
        /\ d.key = q.key /\ d.calm = q.calm /\ d.suppressed = q.suppressed /\ d.due = q.due
        /\ q.key = None => d.shown = {} /\ d.rendering = q.rendering
    BY <2>4, <2>5, RenderedFields
  <2>7. PICK r : r = Asked(d)
    OBVIOUS
  <2>8. /\ r \in TabStates /\ r = [d EXCEPT !.due = r.due]
        /\ AutoUnlockAllowed(r) => r.due
        /\ ~AutoUnlockAllowed(d) => r = d
    BY <2>6, <2>7, AskedFields
  <2>9. /\ r.form = q.form /\ r.page.vault = q.page.vault
        /\ r.key = q.key /\ r.calm = q.calm /\ r.suppressed = q.suppressed
        /\ q.key = None => r.shown = {} /\ r.rendering = q.rendering
        /\ q.suppressed => r.due = q.due
    <3>1. /\ r.form = d.form /\ r.page = d.page /\ r.key = d.key /\ r.calm = d.calm
          /\ r.suppressed = d.suppressed /\ r.shown = d.shown /\ r.rendering = d.rendering
      BY <2>6, <2>8 DEF TabStates
    <3>2. q.suppressed => ~AutoUnlockAllowed(d)
      BY <2>6 DEF AutoUnlockAllowed
    <3> QED
      BY <2>4, <2>6, <2>8, <3>1, <3>2
  <2>10. LocalOK(tab[t], task[t])
    BY PageParts
  <2>11. r.calm => /\ tab[t].calm
                   /\ r.suppressed /\ ~r.due /\ r.key = None
                   /\ r.shown = {} /\ r.rendering = {} /\ ~MailIn(Idle)
    BY <1>2, <1>4, <2>9, <2>10 DEF LocalOK
  <2>12. ~reset => /\ AgreesPage(r.page, vault)
                   /\ r.form.kind = "recover" => SameMdk(r.form.dek.mdk, vault)
                   /\ AgreesCall(Idle, vault)
    BY <1>2, <1>4, <2>9, PageParts DEF Agrees, AgreesPage
  <2>13. /\ tab' = [tab EXCEPT ![t] = r]
         /\ password' \in Passwords /\ vault' = vault /\ box' \in Boxes
         /\ PasswordOpens' /\ reset' = reset
    BY <1>5, <1>7, <2>1, <2>2, <2>3, <2>5, <2>7 DEF VaultIInv, PasswordOpens
  <2> QED
    BY <1>4, <1>5, <2>8, <2>11, <2>12, <2>13, OneCall
<1> QED
  BY <1>1, <1>2, <1>6, <1>7 DEF MailboxSubmitted

\* A change of the password that the server takes has wrapped all that the
\* password opens, and a vault of the same master key.
LEMMA PasswordSubmittedStep ==
  ASSUME VaultIInv, NEW t \in Tabs, NEW s \in Slots, PasswordSubmitted(t, s)
  PROVE  VaultIInv'
<1>1. PICK o \in Calls : o = task[t][s]
  BY PageParts
<1>2. PICK q \in TabStates : q = tab[t]
  BY PageParts
<1>3. /\ o \in PasswordCalls /\ o.kind = "password"
      /\ o.new \in Passwords /\ o.page.vault \in Vaults /\ o.page.box \in Boxes
  BY <1>1, CallKinds DEF PasswordSubmitted, PasswordCalls, Pages
<1>4. PICK opens \in BOOLEAN :
         opens = /\ RewrapsVault(o) => o.page.vault.secret = o.cur
                 /\ RewrapsBox(o) => o.page.box.under = o.cur
  OBVIOUS
<1>5. PICK w \in Vaults :
         w = IF vault = NoVault \/ ~RewrapsVault(o) THEN vault
             ELSE [o.page.vault EXCEPT !.secret = o.new]
  <2>1. CASE vault = NoVault \/ ~RewrapsVault(o)
    BY <2>1 DEF VaultIInv
  <2>2. CASE ~(vault = NoVault \/ ~RewrapsVault(o))
    <3>1. [o.page.vault EXCEPT !.secret = o.new] \in Vaults
      BY <1>3, <2>2 DEF RewrapsVault, Vaults
    <3> QED
      BY <2>2, <3>1
  <2> QED
    BY <2>1, <2>2
<1>6. PICK b \in Boxes :
         b = IF box.mode # "account_password" \/ ~RewrapsBox(o) THEN box
             ELSE [o.page.box EXCEPT !.under = o.new, !.verifier = o.new]
  <2>1. CASE box.mode # "account_password" \/ ~RewrapsBox(o)
    BY <2>1 DEF VaultIInv
  <2>2. CASE ~(box.mode # "account_password" \/ ~RewrapsBox(o))
    <3>1. [o.page.box EXCEPT !.under = o.new, !.verifier = o.new] \in Boxes
      <4>1. o.page.box \in [mode : Modes, key : Keys, under : Secrets, verifier : Secrets]
        BY <1>3, <2>2 DEF RewrapsBox, Boxes, NoBox
      <4>2. o.new \in Secrets
        BY <1>3 DEF Secrets
      <4> QED
        BY <4>1, <4>2 DEF Boxes
    <3> QED
      BY <2>2, <3>1
  <2> QED
    BY <2>1, <2>2
<1>7. /\ password' \in Passwords /\ vault' \in Vaults /\ box' \in Boxes /\ made' \in Nat
      /\ PasswordOpens' /\ reset' = reset
      /\ ~reset => \A m \in Keys : SameMdk(m, vault) => SameMdk(m, vault')
  <2>1. CASE UNCHANGED <<password, vault, box>>
    BY <2>1 DEF PasswordSubmitted, VaultIInv, PasswordOpens
  <2>2. CASE /\ opens /\ RewrapComplete(o)
             /\ password' = o.new /\ vault' = w /\ box' = b
    <3>1. vault # NoVault => RewrapsVault(o) /\ w = [o.page.vault EXCEPT !.secret = o.new]
      BY <1>5, <2>2 DEF RewrapComplete
    <3>2. vault = NoVault => w = NoVault
      BY <1>5
    <3>3. w # NoVault => w.secret = o.new
      BY <1>3, <3>1, <3>2 DEF RewrapsVault, Vaults
    <3>4. b.mode = "account_password" => b.under = o.new
      <4>1. CASE box.mode # "account_password"
        BY <1>6, <4>1
      <4>2. CASE box.mode = "account_password"
        <5>1. RewrapsBox(o) /\ b = [o.page.box EXCEPT !.under = o.new, !.verifier = o.new]
          BY <1>6, <2>2, <4>2 DEF RewrapComplete
        <5> QED
          BY <1>3, <5>1 DEF RewrapsBox, Boxes, NoBox
      <4> QED
        BY <4>1, <4>2
    <3>5. ASSUME ~reset, NEW m \in Keys, SameMdk(m, vault) PROVE SameMdk(m, w)
      <4>1. AgreesCall(o, vault)
        BY <1>1, <3>5, PageParts DEF Agrees
      <4>2. vault # NoVault /\ o.page.vault # NoVault /\ o.page.vault.mdk = m
        BY <1>3, <3>1, <3>5, <4>1 DEF AgreesCall, AgreesPage, SameMdk, RewrapsVault
      <4>3. w = [o.page.vault EXCEPT !.secret = o.new]
        BY <3>1, <4>2
      <4> QED
        BY <1>3, <4>2, <4>3 DEF SameMdk, Vaults, NoVault
    <3>6. made' \in Nat /\ reset' = reset
      BY DEF PasswordSubmitted, VaultIInv
    <3> QED
      BY <1>3, <2>2, <3>3, <3>4, <3>5, <3>6 DEF PasswordOpens
  <2> QED
    BY <1>1, <1>4, <1>5, <1>6, <2>1, <2>2 DEF PasswordSubmitted
<1>8. CASE ~opens
  <2>1. /\ UNCHANGED <<password, vault, box, tab, reset>>
        /\ task' = [task EXCEPT ![t][s] = Idle]
    BY <1>1, <1>4, <1>8 DEF PasswordSubmitted, End
  <2>2. Idle \in Calls /\ ~MailIn(Idle) /\ AgreesCall(Idle, vault) /\ ~AutoMail(o)
    BY <1>3 DEF Calls, MailIn, AutoMail, AgreesCall, Idle
  <2> QED
    BY <1>1, <1>7, <2>1, <2>2, CallOnly
<1>9. CASE opens
  <2>1. PICK page \in Pages : page = [vault |-> vault', box |-> box']
    BY <1>7 DEF Pages
  <2>2. PICK d : d = NewTab(q.mdk, page)
    OBVIOUS
  <2>3. d \in TabStates /\ d.page = page /\ d.form = NoForm /\ ~d.calm
    BY <2>2, NewTabFields DEF TabStates
  <2>4. PICK r : r = Asked(d)
    OBVIOUS
  <2>5. /\ r \in TabStates /\ r = [d EXCEPT !.due = r.due]
        /\ AutoUnlockAllowed(r) => r.due
    BY <2>3, <2>4, AskedFields
  <2>6. r.page = page /\ r.form = NoForm /\ ~r.calm
    BY <2>3, <2>5 DEF TabStates
  <2>7. PICK j : j = [i \in Slots |-> Idle]
    OBVIOUS
  <2>8. j \in [Slots -> Calls] /\ LocalOK(r, j)
    BY <2>5, <2>6, <2>7 DEF Calls, LocalOK
  <2>9. tab' = [tab EXCEPT ![t] = r] /\ task' = [task EXCEPT ![t] = j]
    BY <1>1, <1>2, <1>4, <1>9, <2>1, <2>2, <2>4, <2>7 DEF PasswordSubmitted
  <2>10. Agrees(r, j, vault')
    BY <2>1, <2>6, <2>7 DEF Agrees, AgreesPage, AgreesCall, SameMdk, NoForm, Idle
  <2>11. ~reset' => /\ ~reset
                    /\ \A m \in Keys : SameMdk(m, vault) => SameMdk(m, vault')
                    /\ Agrees(r, j, vault')
    BY <1>7, <2>10
  <2> QED
    BY <1>7, <2>5, <2>8, <2>9, <2>11, OneTab
<1> QED
  BY <1>8, <1>9

-----------------------------------------------------------------------------
\* What an account may have at first.
LEMMA StoredAtFirst ==
  ASSUME NEW p \in Passwords, NEW page \in Accounts(p)
  PROVE  /\ page \in Pages
         /\ page.vault # NoVault => page.vault.secret = p
         /\ page.box.mode = "account_password" => page.box.under = p
<1>1. PICK v : v = [mdk |-> 1, secret |-> p, rmdk |-> 1, code |-> 2]
  OBVIOUS
<1>2. v \in Vaults /\ v.secret = p /\ NoVault \in Vaults /\ NoBox \in Boxes
  BY <1>1 DEF Vaults, Boxes, Keys
<1>3. NoBox.mode # "account_password"
  BY DEF NoBox
<1>4. \A mode \in Modes : /\ StoredBox(mode, p) \in Boxes
                          /\ StoredBox(mode, p).mode = "account_password" => StoredBox(mode, p).under = p
  <2>1. 1 \in Secrets /\ p \in Secrets /\ 3 \in Keys
    BY DEF Secrets, Keys
  <2> QED
    BY <2>1 DEF Boxes, StoredBox
<1>5. \/ page = [vault |-> NoVault, box |-> NoBox]
      \/ page = [vault |-> v, box |-> NoBox]
      \/ \E mode \in Modes : page = [vault |-> v, box |-> StoredBox(mode, p)]
  BY <1>1 DEF Accounts
<1> QED
  BY <1>2, <1>3, <1>4, <1>5 DEF Pages

LEMMA VaultInit == Init => VaultIInv
<1> SUFFICES ASSUME Init PROVE VaultIInv
  OBVIOUS
<1>1. password \in Passwords /\ made \in Nat /\ reset = FALSE
  BY DEF Init
<1>2. PICK page \in Accounts(password) :
         vault = page.vault /\ box = page.box /\ tab = [t \in Tabs |-> NewTab(None, page)]
  BY DEF Init
<1>3. PICK p \in Passwords : p = password
  BY <1>1
<1>4. /\ page \in Pages
      /\ page.vault # NoVault => page.vault.secret = p
      /\ page.box.mode = "account_password" => page.box.under = p
  BY <1>2, <1>3, StoredAtFirst
<1>5. vault \in Vaults /\ box \in Boxes /\ PasswordOpens
  BY <1>2, <1>3, <1>4 DEF Pages, PasswordOpens
<1>6. PICK r : r = NewTab(None, page)
  OBVIOUS
<1>7. /\ r \in TabStates /\ r.page = page /\ r.form = NoForm /\ ~r.calm
      /\ ~AutoUnlockAllowed(r)
  <2>1. r \in TabStates /\ r.page = page /\ r.form = NoForm /\ ~r.calm
    BY <1>4, <1>6, NewTabFields DEF None
  <2>2. r.mdk = None
    BY <1>6 DEF NewTab
  <2> QED
    BY <2>1, <2>2 DEF AutoUnlockAllowed
<1>8. PICK k : k = [s \in Slots |-> Idle]
  OBVIOUS
<1>9. k \in [Slots -> Calls] /\ LocalOK(r, k)
  BY <1>7, <1>8 DEF Calls, LocalOK
<1>10. /\ tab = [t \in Tabs |-> r] /\ task = [t \in Tabs |-> k]
  BY <1>2, <1>6, <1>8 DEF Init
<1>11. Agrees(r, k, vault)
  BY <1>2, <1>7, <1>8 DEF Agrees, AgreesPage, AgreesCall, SameMdk, NoForm, Idle
<1> QED
  BY <1>1, <1>5, <1>7, <1>9, <1>10, <1>11 DEF VaultIInv

\* Every step keeps it.
LEMMA VaultStep == VaultIInv /\ [Next]_vars => VaultIInv'
<1> SUFFICES ASSUME VaultIInv, [Next]_vars PROVE VaultIInv'
  OBVIOUS
<1>1. ASSUME NEW t \in Tabs, UserActs(t) PROVE VaultIInv'
  BY <1>1, SetupStep, RecoverStep, HandleUnlockStep, UnlockStep, HandleSetupStep,
     ChangePasswordStep, LockVaultStep, ResetVaultStep, SaveEntryStep, HandleLockStep,
     LoadPageStep DEF UserActs
<1>2. ASSUME NEW t \in Tabs, NEW s \in Slots, CallSteps(t, s) PROVE VaultIInv'
  BY <1>2, FeatureKeyStep, DeriveFeatureKeyStep, WrapMdkStep, FormReadyStep, UnwrapMdkStep,
     EntryEncryptedStep, UnwrapMailboxKeyStep, StorePrivateKeyStep, UnlockFailedStep,
     WrapWithMasterKeyStep, MailboxSubmittedStep, PasswordSubmittedStep DEF CallSteps
<1>3. ASSUME UNCHANGED vars PROVE VaultIInv'
  <2>1. /\ password' = password /\ vault' = vault /\ box' = box /\ made' = made
        /\ tab' = tab /\ task' = task /\ reset' = reset
    BY <1>3 DEF vars, serverVars
  <2> QED
    BY <2>1 DEF VaultIInv, PasswordOpens
<1> QED
  BY <1>1, <1>2, <1>3, FinishFormStep, MaybeAutoUnlockStep, RenderEndsStep DEF Next

(* Whatever the tabs do with the vault and the mailbox, a page, a form and *)
(* a call carry keys that agree with what the server stores, until the     *)
(* vault is reset: FormReady, FinishForm, PasswordSubmitted.               *)
THEOREM VaultInvariance == Spec => []VaultIInv
BY VaultInit, VaultStep, PTL DEF Spec

(* What was set up opens: the account password opens the vault and a       *)
(* mailbox that uses it, the password and the recovery code open one       *)
(* master key, whichever tabs, pages and forms wrote them.                 *)
THEOREM VaultAlwaysOpens == Spec => []VaultOpens
<1>1. VaultIInv => VaultOpens
  BY DEF VaultIInv, VaultOpens, OneKeyTwoLocks, Vaults
<1> QED
  BY <1>1, VaultInvariance, PTL

(* A mailbox that was locked with nothing in flight stays locked and shows *)
(* nothing; a panel that says "unlocking" has an unlock on its way: the    *)
(* suppressed flag, maybeAutoUnlock and its failure.                       *)
THEOREM MailboxStaysLocked == Spec => []MailboxLocks
<1>1. ASSUME VaultIInv PROVE MailboxLocks
  <2>1. \A t \in Tabs : LocalOK(tab[t], task[t])
    BY <1>1 DEF VaultIInv
  <2>2. \A c : AutoMail(c) => c.kind = "mail"
    BY DEF AutoMail
  <2> QED
    BY <2>1, <2>2 DEF MailboxLocks, LockSticks, PendingIsUnderway, UnlockPending, LocalOK
<1> QED
  BY <1>1, VaultInvariance, PTL

-----------------------------------------------------------------------------
\* The steps that write the vault.
LEMMA FinishFormKeepsMdk ==
  ASSUME VaultIInv, NEW t \in Tabs, FinishForm(t), vault # NoVault, ~reset
  PROVE  vault'.mdk = vault.mdk
<1>1. PICK f \in Forms : f = tab[t].form
  BY PageParts
<1>2. Agrees(tab[t], task[t], vault)
  BY PageParts
<1>3. f # NoForm => f.kind \in {"setup", "recover"}
  BY DEF Forms
<1>4. f.kind = "recover" => vault.mdk = f.dek.mdk
  BY <1>1, <1>2 DEF Agrees, SameMdk
<1> QED
  BY <1>1, <1>3, <1>4 DEF FinishForm, SetupAllowed, Stored

LEMMA PasswordSubmittedKeepsMdk ==
  ASSUME VaultIInv, NEW t \in Tabs, NEW s \in Slots, PasswordSubmitted(t, s), vault # NoVault, ~reset
  PROVE  vault'.mdk = vault.mdk
<1>1. PICK o \in Calls : o = task[t][s]
  BY PageParts
<1>2. o.kind = "password" /\ o.page.vault \in Vaults
  BY <1>1, CallKinds DEF PasswordSubmitted, PasswordCalls, Pages
<1>3. RewrapsVault(o) => o.page.vault.mdk = vault.mdk
  <2>1. AgreesCall(o, vault)
    BY <1>1, PageParts DEF Agrees
  <2> QED
    BY <1>2, <2>1 DEF AgreesCall, AgreesPage, SameMdk, RewrapsVault
<1>4. vault' = vault \/ (RewrapsVault(o) /\ vault' = [o.page.vault EXCEPT !.secret = o.new])
  BY <1>1 DEF PasswordSubmitted
<1>5. RewrapsVault(o) => [o.page.vault EXCEPT !.secret = o.new].mdk = o.page.vault.mdk
  BY <1>2 DEF RewrapsVault, Vaults
<1> QED
  BY <1>3, <1>4, <1>5

(* The master key of the vault is the one first stored, until the user     *)
(* resets it: no setup, recovery or change of the password of any tab,     *)
(* however old its page, orphans what is encrypted under it.               *)
THEOREM MdkStays == Spec => MdkKept
<1>1. ASSUME VaultIInv, Next, vault # NoVault, ~reset' PROVE vault'.mdk = vault.mdk
  <2>1. ASSUME NEW t \in Tabs, UserActs(t) PROVE vault' = vault
    <3>1. ~ResetVault(t)
      BY <1>1 DEF ResetVault
    <3> QED
      BY <2>1, <3>1 DEF UserActs, Setup, Recover, HandleUnlock, Unlock, HandleSetup,
         ChangePassword, LockVault, SaveEntry, HandleLock, LoadPage, serverVars
  <2>2. ASSUME NEW t \in Tabs, FinishForm(t) PROVE vault'.mdk = vault.mdk
    BY <1>1, <2>2, FinishFormKeepsMdk DEF FinishForm
  <2>3. ASSUME NEW t \in Tabs, MaybeAutoUnlock(t) PROVE vault' = vault
    BY <2>3 DEF MaybeAutoUnlock, serverVars
  <2>4. ASSUME NEW t \in Tabs, NEW v \in Views, RenderEnds(t, v) PROVE vault' = vault
    BY <2>4 DEF RenderEnds, serverVars
  <2>5. ASSUME NEW t \in Tabs, NEW s \in Slots, CallSteps(t, s) PROVE vault'.mdk = vault.mdk
    <3>1. CASE PasswordSubmitted(t, s)
      BY <1>1, <3>1, PasswordSubmittedKeepsMdk DEF PasswordSubmitted
    <3>2. CASE ~PasswordSubmitted(t, s)
      BY <2>5, <3>2 DEF CallSteps, FeatureKey, DeriveFeatureKey, WrapMdk, FormReady, UnwrapMdk,
         EntryEncrypted, UnwrapMailboxKey, StorePrivateKey, UnlockFailed, WrapWithMasterKey,
         MailboxSubmitted, serverVars
    <3> QED
      BY <3>1, <3>2
  <2> QED
    BY <1>1, <2>1, <2>2, <2>3, <2>4, <2>5 DEF Next
<1>2. VaultIInv /\ [Next]_vars => [vault # NoVault /\ ~reset' => vault'.mdk = vault.mdk]_vars
  BY <1>1
<1> QED
  BY <1>2, VaultInvariance, PTL DEF Spec, MdkKept
=============================================================================
