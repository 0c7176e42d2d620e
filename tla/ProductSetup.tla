---------------------------- MODULE ProductSetup ----------------------------
(***************************************************************************)
(* First-run setup: the wizard and its controller, the connection tests,   *)
(* and the commit that changes the credential store, the settings file and *)
(* the readiness file as one transaction with a rollback.                  *)
(*                                                                         *)
(* Two of the three sections that hold a secret are modelled: the provider *)
(* (a hosted one, with a key of its own each, or none) and SMTP (whose     *)
(* server settings are one value).  Search is handled like SMTP.  Each     *)
(* write may fail, and the process may end between two writes.             *)
(***************************************************************************)
EXTENDS Integers, Sequences, FiniteSets

CONSTANTS Hosted,       \* provider ids with an API key
          Servers,      \* SMTP settings a user may enter
          Preset,       \* the SMTP settings of the chosen preset
          Secrets,      \* keys and passwords
          NoSecret,
          MaxEdits      \* bound: what the user does in the wizard, in all

(* "none" and "later" stand for no provider, and the password of the mail  *)
(* server is a credential of its own.                                      *)
ASSUME SetupAssumption ==
  /\ Hosted # {} /\ Hosted \cap {"none", "later", "smtp"} = {}
  /\ NoSecret \notin Secrets /\ MaxEdits \in Nat

VARIABLES
  values,     \* SetupWizard.values
  held,       \* SetupController._values
  step,       \* where the wizard, or the commit it called, is
  document,   \* the document being committed
  changes,    \* credential_changes: <<id, previous secret>>
  todo,       \* credential writes still to do
  settings,   \* settings.toml
  oldSettings,\* its bytes before the commit
  vault,      \* the credential store
  readiness,  \* the document the readiness file describes
  edits,
  tested,     \* every <<target, secret>> a connection test has accepted
  accepted,   \* every <<server, secret>> a test email was accepted with
  checked,    \* every document the validator found ready
  torn,       \* a commit ended half way: crash, or failed rollback
  carried,    \* a verification may have outlived what it was about
  before      \* settings and vault when the last commit began

setupVars == <<values, held, step, document, changes, todo, settings,
  oldSettings, vault, readiness, edits, tested, accepted, checked, torn,
  carried, before>>

CredentialIds == Hosted \cup {"smtp"}
NoFile == [present |-> FALSE]
Malformed == [present |-> TRUE, readable |-> FALSE]

(* default_settings_document, and load's merge of the file over it.        *)
DefaultDocument ==
  [present |-> TRUE, readable |-> TRUE, completed |-> FALSE, primary |-> "none",
   providers |-> [p \in Hosted |-> [ref |-> FALSE, verified |-> FALSE]],
   smtp |-> [on |-> FALSE, server |-> "none", ref |-> FALSE,
             verified |-> FALSE, accepted |-> FALSE]]
Loaded == IF settings.present THEN settings ELSE DefaultDocument
Readable == settings.present => settings.readable

IsSetupComplete == Readable /\ Loaded.completed

(* new_draft: a saved "later" is also remembered as a flag of its own.     *)
NewDraft ==
  [primary  |-> IF Loaded.primary = "none" THEN CHOOSE p \in Hosted : TRUE
                ELSE Loaded.primary,
   offline  |-> Loaded.primary = "later",
   key      |-> NoSecret, dropKey |-> FALSE,
   verified |-> Loaded.primary \in Hosted /\ Loaded.providers[Loaded.primary].verified,
   smtp     |-> Loaded.smtp.on, server |-> Loaded.smtp.server,
   password |-> NoSecret, dropPassword |-> FALSE,
   authVerified |-> Loaded.smtp.verified]

(* A machine that was set up before: its provider and its SMTP server were *)
(* tested with the stored secrets, and a test email was accepted.          *)
SetUp(p, server, k) ==
  [DefaultDocument EXCEPT !.completed = TRUE, !.primary = p,
     !.providers[p] = [ref |-> TRUE, verified |-> TRUE],
     !.smtp = [on |-> TRUE, server |-> server, ref |-> TRUE,
               verified |-> TRUE, accepted |-> TRUE]]

SetupInit ==
  /\ \/ /\ settings = NoFile /\ vault = [i \in CredentialIds |-> NoSecret]
        /\ tested = {} /\ accepted = {} /\ checked = {}
     \/ \E p \in Hosted, server \in Servers, k \in Secrets :
          /\ settings = SetUp(p, server, k)
          /\ vault = [i \in CredentialIds |-> IF i \in {p, "smtp"} THEN k ELSE NoSecret]
          /\ tested = {<<p, k>>, <<server, k>>} /\ accepted = {<<server, k>>}
          /\ checked = {settings}
  /\ readiness = settings /\ oldSettings = NoFile
  /\ values = <<>> /\ held = <<>> /\ document = <<>>
  /\ step = "closed" /\ changes = <<>> /\ todo = <<>>
  /\ edits = 0
  /\ torn = FALSE /\ carried = FALSE /\ before = <<>>

Opens ==
  /\ step = "closed" /\ Readable
  /\ step' = "wizard" /\ values' = NewDraft /\ held' = NewDraft
  /\ UNCHANGED <<document, changes, todo, settings, oldSettings, vault,
       readiness, edits, tested, accepted, checked, torn, carried, before>>

---------------------------------------------------------------------------
(* The wizard's fields.                                                    *)

(* What a verification depends on.                                         *)
ProviderPartKeyless(v) == <<v.primary, v.dropKey>>
ProviderPart(v) == <<v.primary, v.key, v.dropKey>>
SmtpPartServer(v) == <<v.server, v.dropPassword>>
SmtpPart(v) == <<v.server, v.password, v.dropPassword>>

(* capture_fields: an empty secret means unchanged, a removal clears it,   *)
(* and a verification falls with what it depends on.                       *)
CapturedAll(previous, new) ==
  LET key == IF new.dropKey THEN NoSecret
             ELSE IF new.key = NoSecret THEN previous.key ELSE new.key
      password == IF new.dropPassword THEN NoSecret
                  ELSE IF new.password = NoSecret THEN previous.password ELSE new.password
  IN  [new EXCEPT !.key = key, !.password = password]
Captured(previous, new) ==
  LET result == CapturedAll(previous, new)
  IN  [result EXCEPT
        !.verified = @ /\ ProviderPart(previous) = ProviderPart(result),
        !.authVerified = @ /\ SmtpPart(previous) = SmtpPart(result)]

Built == Captured(held, values)

Edited ==
  UNION {{[values EXCEPT !.primary = p] : p \in Hosted \cup {"later"}},
         {[values EXCEPT !.key = k] : k \in Secrets},
         {[values EXCEPT !.dropKey = ~@]},
         {[values EXCEPT !.smtp = ~@]},
         {[values EXCEPT !.server = s] : s \in Servers},
         {[values EXCEPT !.password = k] : k \in Secrets},
         {[values EXCEPT !.dropPassword = ~@]}}

Acts == step = "wizard" /\ edits < MaxEdits /\ edits' = edits + 1

Edits ==
  /\ Acts
  /\ \E v \in Edited : values' = Captured(values, v) /\ values' # values
  /\ UNCHANGED <<held, step, document, changes, todo, settings, oldSettings,
       vault, readiness, tested, accepted, checked, torn, carried, before>>

(* The preset goes straight into the values, after the capture.            *)
AppliesPreset ==
  /\ Acts
  /\ values' = [values EXCEPT !.server = Preset]
  /\ values' # values
  /\ carried' = TRUE
  /\ UNCHANGED <<held, step, document, changes, todo, settings, oldSettings,
       vault, readiness, tested, accepted, checked, torn, before>>

---------------------------------------------------------------------------
(* Connection tests, of the controller's draft.                            *)

KeyOf(d) == IF d.dropKey THEN NoSecret
            ELSE IF d.key # NoSecret THEN d.key
            ELSE IF d.primary \in Hosted THEN vault[d.primary] ELSE NoSecret
PasswordOf(d) == IF d.dropPassword THEN NoSecret
                 ELSE IF d.password # NoSecret THEN d.password ELSE vault["smtp"]

Offline(d) == d.primary = "later" \/ d.offline

TestsProvider ==
  /\ Acts
  /\ held' = Built
  /\ \E passes \in BOOLEAN :
       /\ passes => ~Offline(Built) /\ KeyOf(Built) # NoSecret
       /\ values' = [values EXCEPT !.verified = passes]
       /\ tested' = IF passes THEN tested \cup {<<Built.primary, KeyOf(Built)>>}
                    ELSE tested
  /\ UNCHANGED <<step, document, changes, todo, settings, oldSettings, vault,
       readiness, accepted, checked, torn, carried, before>>

TestsSmtp ==
  /\ Acts
  /\ held' = Built
  /\ \E passes \in BOOLEAN :
       /\ passes => Built.server # "none" /\ PasswordOf(Built) # NoSecret
       /\ values' = [values EXCEPT !.authVerified = passes]
       /\ tested' = IF passes THEN tested \cup {<<Built.server, PasswordOf(Built)>>}
                    ELSE tested
  /\ UNCHANGED <<step, document, changes, todo, settings, oldSettings, vault,
       readiness, accepted, checked, torn, carried, before>>

(* The validation page builds the draft too, and only shows the result.    *)
ShowsValidation ==
  /\ Acts
  /\ held' = Built /\ held' # held
  /\ UNCHANGED <<values, step, document, changes, todo, settings, oldSettings,
       vault, readiness, tested, accepted, checked, torn, carried, before>>

---------------------------------------------------------------------------
(* The commit.                                                             *)

DraftOK(d) == Offline(d) \/ d.dropKey \/ KeyOf(d) # NoSecret

PrimaryNone(d) == IF d.offline \/ d.dropKey THEN "none" ELSE d.primary
Primary(d) == IF d.offline \/ d.dropKey THEN "later" ELSE d.primary

(* _document_for, with the references the credential writes leave.         *)
SmtpServerChanged(d) ==
  Loaded.smtp.server # d.server \/ Loaded.smtp.verified # d.authVerified
SmtpChanged(d) ==
  \/ d.password # NoSecret \/ d.dropPassword
  \/ Loaded.smtp.server # d.server \/ Loaded.smtp.verified # d.authVerified
SmtpFor(d) ==
  [on |-> d.smtp, server |-> d.server,
   ref |-> (Loaded.smtp.ref \/ (d.smtp /\ d.password # NoSecret)) /\ ~d.dropPassword,
   verified |-> d.authVerified /\ ~d.dropPassword,
   accepted |-> Loaded.smtp.accepted /\ ~SmtpChanged(d)]
ProvidersFor(d) ==
  [p \in Hosted |->
     CASE d.dropKey /\ p = d.primary -> [ref |-> FALSE, verified |-> FALSE]
       [] p = Primary(d) -> [ref |-> Loaded.providers[p].ref \/ d.key # NoSecret,
                             verified |-> d.verified]
       [] OTHER -> Loaded.providers[p]]
DocumentForRerun(d) ==
  [Loaded EXCEPT !.primary = Primary(d), !.providers = ProvidersFor(d),
                 !.smtp = SmtpFor(d)]
DocumentFor(d) ==
  [Loaded EXCEPT !.completed = FALSE, !.primary = Primary(d),
                 !.providers = ProvidersFor(d), !.smtp = SmtpFor(d)]

(* _write_credentials: the removals, then the new secrets.                 *)
Writes(d) ==
  LET one(yes, i, k) == IF yes THEN <<<<i, k>>>> ELSE <<>>
  IN  one(d.dropKey /\ d.primary \in Hosted, d.primary, NoSecret)
      \o one(d.dropPassword, "smtp", NoSecret)
      \o one(Primary(d) \in Hosted /\ d.key # NoSecret, Primary(d), d.key)
      \o one(d.smtp /\ d.password # NoSecret /\ ~d.dropPassword, "smtp", d.password)

Finishes ==
  /\ Acts
  /\ held' = Built
  /\ IF DraftOK(Built)
       THEN /\ step' = "credentials"
            /\ document' = DocumentFor(Built) /\ todo' = Writes(Built)
            /\ oldSettings' = settings /\ changes' = <<>>
            /\ before' = [settings |-> settings, vault |-> vault]
            /\ carried' = (carried \/ (Built.password # NoSecret /\ ~Built.smtp))
       ELSE UNCHANGED <<step, document, todo, oldSettings, changes, before, carried>>
  /\ UNCHANGED <<values, settings, vault, readiness, tested, accepted, checked,
       torn>>

(* The previous secret is noted before the write is tried.                 *)
WritesCredentialNoted ==
  /\ step = "credentials" /\ todo # <<>>
  /\ LET i == Head(todo)[1] k == Head(todo)[2] IN
     /\ todo' = Tail(todo)
     /\ \/ /\ vault' = [vault EXCEPT ![i] = k]
           /\ changes' = Append(changes, <<i, vault'[i]>>) /\ UNCHANGED step
        \/ step' = "rollback" /\ UNCHANGED <<vault, changes>>
  /\ UNCHANGED <<values, held, document, settings, oldSettings, readiness,
       edits, tested, accepted, checked, torn, carried, before>>
WritesCredential ==
  /\ step = "credentials" /\ todo # <<>>
  /\ LET i == Head(todo)[1] k == Head(todo)[2] IN
     /\ changes' = Append(changes, <<i, vault[i]>>)
     /\ todo' = Tail(todo)
     /\ \/ vault' = [vault EXCEPT ![i] = k] /\ UNCHANGED step
        \/ step' = "rollback" /\ UNCHANGED vault
  /\ UNCHANGED <<values, held, document, settings, oldSettings, readiness,
       edits, tested, accepted, checked, torn, carried, before>>

SavesDraft ==
  /\ step = "credentials" /\ todo = <<>>
  /\ \/ settings' = document /\ step' = "validating"
     \/ step' = "rollback" /\ UNCHANGED settings
  /\ UNCHANGED <<values, held, document, changes, todo, oldSettings, vault,
       readiness, edits, tested, accepted, checked, torn, carried, before>>

(* SetupValidator: the rows that read the settings and the vault.          *)
ProviderPasses(doc) ==
  /\ doc.primary \in Hosted
  /\ doc.providers[doc.primary].ref /\ vault[doc.primary] # NoSecret
  /\ doc.providers[doc.primary].verified
MinimumReady(doc) == doc.primary = "later" \/ ProviderPasses(doc)

Validates ==
  /\ step = "validating"
  /\ \/ /\ MinimumReady(settings)
        /\ step' = "saving"
        /\ document' = [document EXCEPT !.completed = TRUE]
        /\ checked' = checked \cup {[settings EXCEPT !.completed = TRUE]}
     \/ step' = "rollback" /\ UNCHANGED <<document, checked>>
  /\ UNCHANGED <<values, held, changes, todo, settings, oldSettings, vault,
       readiness, edits, tested, accepted, torn, carried, before>>

SavesCompleted ==
  /\ step = "saving"
  /\ \/ settings' = document /\ step' = "readiness"
     \/ step' = "rollback" /\ UNCHANGED settings
  /\ UNCHANGED <<values, held, document, changes, todo, oldSettings, vault,
       readiness, edits, tested, accepted, checked, torn, carried, before>>

SavesReadiness ==
  /\ step = "readiness"
  /\ \/ readiness' = document /\ step' = "finished"
     \/ step' = "rollback" /\ UNCHANGED readiness
  /\ UNCHANGED <<values, held, document, changes, todo, settings, oldSettings,
       vault, edits, tested, accepted, checked, torn, carried, before>>

(* The rollback: the settings first, then the credentials, last change     *)
(* first.  An error in it leaves the rest undone.                          *)
RollsBackSettings ==
  /\ step = "rollback"
  /\ \/ settings' = oldSettings /\ step' = "unwinding" /\ UNCHANGED torn
     \/ step' = "wizard" /\ torn' = TRUE /\ UNCHANGED settings
  /\ UNCHANGED <<values, held, document, changes, todo, oldSettings, vault,
       readiness, edits, tested, accepted, checked, carried, before>>

RollsBackCredential ==
  /\ step = "unwinding"
  /\ IF changes = <<>>
       THEN step' = "failed" /\ UNCHANGED <<vault, torn, changes>>
       ELSE LET c == changes[Len(changes)] IN
            /\ changes' = SubSeq(changes, 1, Len(changes) - 1)
            /\ \/ vault' = [vault EXCEPT ![c[1]] = c[2]] /\ UNCHANGED <<step, torn>>
               \/ step' = "wizard" /\ torn' = TRUE /\ UNCHANGED vault
  /\ UNCHANGED <<values, held, document, todo, settings, oldSettings,
       readiness, edits, tested, accepted, checked, carried, before>>

Returns ==
  /\ step = "failed" /\ step' = "wizard"
  /\ UNCHANGED <<values, held, document, changes, todo, settings, oldSettings,
       vault, readiness, edits, tested, accepted, checked, torn, carried, before>>

---------------------------------------------------------------------------
(* After setup: a confirmed test email through the running system, and the *)
(* ways out.                                                               *)

(* What the composed system resolves from the file and the vault.          *)
ProviderKey == IF Loaded.providers[Loaded.primary].ref THEN vault[Loaded.primary]
               ELSE NoSecret
SmtpPassword == IF Loaded.smtp.ref THEN vault["smtp"] ELSE NoSecret

SendsTest ==
  /\ step = "finished" /\ Readable
  /\ IsSetupComplete /\ settings.smtp.on /\ settings.smtp.verified
  /\ SmtpPassword # NoSecret /\ ~settings.smtp.accepted
  /\ accepted' = accepted \cup {<<settings.smtp.server, SmtpPassword>>}
  /\ LET saved == [settings EXCEPT !.smtp.accepted = TRUE] IN
     \/ settings' = saved /\ readiness' = saved
     \/ settings' = saved /\ UNCHANGED readiness
     \/ UNCHANGED <<settings, readiness>>
  /\ UNCHANGED <<values, held, step, document, changes, todo, oldSettings,
       vault, edits, tested, checked, torn, carried, before>>

Closes ==
  /\ step \in {"wizard", "finished"}
  /\ step' = "closed"
  /\ values' = <<>> /\ held' = <<>> /\ document' = <<>>
  /\ changes' = <<>> /\ before' = <<>>
  /\ UNCHANGED <<todo, settings, oldSettings, vault, readiness, edits, tested,
       accepted, checked, torn, carried>>

(* The process ends inside a commit; the rollback writes the old settings  *)
(* in place, so that it may leave half a file.                             *)
Crashes ==
  /\ step \notin {"closed", "wizard", "finished"}
  /\ step' = "closed" /\ torn' = TRUE
  /\ values' = <<>> /\ held' = <<>> /\ document' = <<>>
  /\ changes' = <<>> /\ todo' = <<>> /\ before' = <<>>
  /\ settings' \in {settings} \cup (IF step = "rollback" THEN {Malformed} ELSE {})
  /\ UNCHANGED <<oldSettings, vault, readiness, edits, tested, accepted, checked,
       carried>>

SetupNext ==
  \/ Opens \/ Edits \/ AppliesPreset \/ TestsProvider \/ TestsSmtp
  \/ ShowsValidation \/ Finishes \/ WritesCredential \/ SavesDraft
  \/ Validates \/ SavesCompleted \/ SavesReadiness \/ RollsBackSettings
  \/ RollsBackCredential \/ Returns \/ SendsTest \/ Closes \/ Crashes

---------------------------------------------------------------------------
(* The stores and the wizard have their shape, and the user's operations   *)
(* are within the bound.                                                   *)
SetupTypeOK ==
  /\ vault \in [CredentialIds -> Secrets \cup {NoSecret}]
  /\ edits \in 0..MaxEdits
  /\ settings.present /\ settings.readable =>
       /\ settings.completed \in BOOLEAN
       /\ settings.primary \in Hosted \cup {"later"}
  /\ Len(changes) <= 2 /\ Len(todo) <= 2

Quiet == step \in {"closed", "wizard", "finished"}

(* Setup counts as complete only for a document the validator found ready: *)
(* not after a crash, a failed write or a failed rollback either.          *)
CompletedWasChecked ==
  IsSetupComplete => [settings EXCEPT !.smtp.accepted = FALSE] \in
                       {[d EXCEPT !.smtp.accepted = FALSE] : d \in checked}

(* A commit that failed, and whose rollback did not, leaves the settings   *)
(* and every secret as they were.                                          *)
FailureUndoesAll ==
  step = "failed" => settings = before.settings /\ vault = before.vault

(* The provider a completed setup names answered a test with the very key  *)
(* that is stored, whatever was edited, tested, removed or rolled back in  *)
(* between; only an end inside a commit can part the two.                  *)
ProviderWasTested ==
  (Quiet /\ ~torn /\ IsSetupComplete /\ Loaded.primary \in Hosted)
    => <<Loaded.primary, ProviderKey>> \in tested

(* The same of a verified SMTP server, but for the two ways in which the   *)
(* flag outlives what it was about: a preset applied after the test, and a *)
(* tested password that is not stored because SMTP is switched off.        *)
ServerWasTested ==
  (Quiet /\ ~torn /\ IsSetupComplete /\ Loaded.smtp.on /\ Loaded.smtp.verified
    /\ ~carried)
    => <<Loaded.smtp.server, SmtpPassword>> \in tested

(* "Send acceptance verified" is about the server and password in use.     *)
AcceptanceIsCurrent ==
  (Quiet /\ ~torn /\ IsSetupComplete /\ Loaded.smtp.accepted)
    => <<Loaded.smtp.server, SmtpPassword>> \in accepted

(* A setup that says it is complete was checked as it stands: what was     *)
(* edited after its test is not taken for tested, and a failed save leaves *)
(* the installation as it was.                                             *)
SetupSafe ==
  /\ SetupTypeOK /\ CompletedWasChecked /\ FailureUndoesAll
  /\ ProviderWasTested /\ ServerWasTested /\ AcceptanceIsCurrent
=============================================================================
