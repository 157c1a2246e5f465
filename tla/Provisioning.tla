---------------------------- MODULE Provisioning ----------------------------
(***************************************************************************)
(* Adoption of a workspace (provisioning/): adopt, attach and the host     *)
(* policy rewrite configuration files that belong to the user, after they  *)
(* copied them aside; revert brings back what was there.  A job is one     *)
(* command; it may end at any step, by an exception of a renderer or of    *)
(* the file system or because the process dies.                            *)
(***************************************************************************)
EXTENDS Naturals, Sequences, SequencesExt, FiniteSets

CONSTANTS
    Hosts,           \* the files: mcp, codex, opencode, claude, guide, toml
    Initially,       \* contents each file may have before the first command
    Plan,            \* files of each command, in the order it writes them
    Route,           \* what each component of a file's path is: dir, missing,
                     \* file, link, up (..), backups
    MaxApplies, MaxAborts, None

VARIABLES disk, original, manifest, job, applies, aborts, reverted

vars == <<disk, original, manifest, job, applies, aborts, reverted>>

\* What of a file the renderers look at: whether it parses, the keys of the
\* user, the registration of soleaux, its policy keys, its guidance block.
Blank == [valid |-> TRUE, user |-> FALSE, entry |-> "none", policy |-> FALSE, block |-> "none"]

Content == [valid : BOOLEAN, user : BOOLEAN, entry : {"none", "ours", "other"}, policy : BOOLEAN,
            block : {"none", "ours", "unpaired"}]
Files == [Hosts -> Content \cup {None}]
Commands == {"adopt", "attach", "policy"}

Init ==
    /\ disk \in {d \in [Hosts -> UNION {Initially[h] : h \in Hosts}] : \A h \in Hosts : d[h] \in Initially[h]}
    /\ original = disk
    /\ manifest = [backups |-> <<>>, created |-> {}]
    /\ job = None
    /\ applies = 0
    /\ aborts = 0
    /\ reverted = FALSE

----------------------------------------------------------------------------
(* The renderers: write a new content, skip the file, or raise.            *)

Skip == [does |-> "skip", content |-> None]
Raise == [does |-> "raise", content |-> None]
WriteOf(c) == [does |-> "write", content |-> c]

\* _read_json: what does not parse counts as empty.
ReadJson(c) == IF c = None \/ ~c.valid THEN Blank ELSE c

\* render_mcp_json, render_opencode_json.
RenderJsonRegistration(c, force) ==
    IF c # None /\ c.valid /\ c.entry = "ours" /\ ~force THEN Skip
    ELSE WriteOf([ReadJson(c) EXCEPT !.entry = "ours"])

\* render_codex_config: malformed TOML raises; the policy keys are carried over.
RenderCodexConfig(c, force) ==
    IF c = None THEN WriteOf([Blank EXCEPT !.entry = "ours"])
    ELSE IF ~c.valid THEN Raise
    ELSE IF c.entry = "ours" /\ ~force THEN Skip
    ELSE WriteOf([c EXCEPT !.entry = "ours", !.policy = c.policy /\ c.entry # "none"])

\* render_registration: by the name of the file.
RenderRegistration(host, c, force) ==
    CASE host \in {"mcp", "opencode"} -> RenderJsonRegistration(c, force)
      [] host = "codex" -> RenderCodexConfig(c, force)
      [] OTHER -> Skip

\* render_guidance: exactly one current block; marks that do not pair raise.
RenderGuidance(c) ==
    IF c = None THEN WriteOf([Blank EXCEPT !.block = "ours"])
    ELSE IF c.block = "unpaired" THEN Raise
    ELSE IF c.block = "ours" THEN Skip
    ELSE WriteOf([c EXCEPT !.block = "ours"])

\* render_codex_policy, render_opencode_policy: only into a registration
\* that exists; render_claude_policy: into any file, a new one too.
RenderCodexPolicy(c) ==
    IF c = None THEN Skip
    ELSE IF ~c.valid THEN Raise
    ELSE IF c.entry = "none" \/ c.policy THEN Skip
    ELSE WriteOf([c EXCEPT !.policy = TRUE])
RenderOpencodePolicy(c) ==
    IF c = None THEN Skip
    ELSE IF ~c.valid \/ c.entry = "none" \/ c.policy THEN Skip
    ELSE WriteOf([c EXCEPT !.policy = TRUE])
RenderClaudePolicy(c) ==
    IF c # None /\ c.valid /\ c.policy THEN Skip ELSE WriteOf([ReadJson(c) EXCEPT !.policy = TRUE])
RenderPolicy(host, c) ==
    CASE host = "codex" -> RenderCodexPolicy(c)
      [] host = "opencode" -> RenderOpencodePolicy(c)
      [] OTHER -> RenderClaudePolicy(c)

\* The file a command writes only where there is none (soleaux.toml, the
\* deployment document); the provider block of adopt is appended.
RenderStarter(c) == IF c = None THEN WriteOf(Blank) ELSE Skip
EmitProviderBlock(c) ==
    IF c # None /\ c.block = "ours" THEN Skip
    ELSE WriteOf([(IF c = None THEN Blank ELSE c) EXCEPT !.block = "ours"])

Render(command, host, c, force) ==
    CASE command = "policy" -> RenderPolicy(host, c)
      [] command # "policy" /\ host = "guide" -> RenderGuidance(c)
      [] command = "adopt" /\ host = "toml" -> EmitProviderBlock(c)
      [] command = "attach" /\ host = "toml" -> RenderStarter(c)
      [] OTHER -> RenderRegistration(host, c, force)

----------------------------------------------------------------------------
(* Copies and the manifest.                                                *)

\* admit_target: inside the workspace, outside the backups, no symbolic link
\* on the way and only directories above the file.
AdmitTarget(host) ==
    LET route == Route[host] IN
    /\ route # <<>> /\ Head(route) # "backups"
    /\ \A i \in DOMAIN route : route[i] \notin {"up", "link"}
    /\ \A i \in 1..(Len(route) - 1) : route[i] \in {"dir", "missing"}

\* write_bytes_atomic and delete_file: staged and renamed, so that no one sees
\* half a file.
WriteBytesAtomic(host, content) == disk' = [disk EXCEPT ![host] = content]
DeleteFile(host) == disk' = [disk EXCEPT ![host] = None]

\* _prepare_backup, write_bytes_exclusive: one copy of each of these files.
Copies(hosts) == [h \in Hosts |-> IF h \in hosts THEN disk[h] ELSE None]

\* _backup_files: the copies are made first, then the manifest is replaced.
Backup(hosts) ==
    IF hosts = {} THEN manifest
    ELSE [backups |-> Append(manifest.backups, Copies(hosts)), created |-> {}]

\* record_created.
RecordCreated(hosts) == [backups |-> manifest.backups, created |-> manifest.created \cup hosts]

\* Mutant: the oldest copies are written back first.
RestoresOldestFirst(backups) == backups

\* _validated_restores: the newest copies are written back first, so that the
\* oldest one of a file is what remains.
Restores(backups) == Reverse(backups)

\* There is a copy of the file among these batches.
Holds(batches, h) == \E i \in DOMAIN batches : batches[i][h] # None

----------------------------------------------------------------------------
(* Jobs: commands that change files, and revert.                           *)

Targets(command) == ToSet(Plan[command])
Existing(hosts) == {h \in hosts : disk[h] # None}

\* copy are the files to be copied next, saved those that were (backed_up).
ApplyJob(command, phase, force, copy, rendered) ==
    [command |-> command, phase |-> phase, force |-> force, copy |-> copy, saved |-> {},
     todo |-> Plan[command], rendered |-> rendered, created |-> {}]

Rendered == [h \in Hosts |-> Render("policy", h, disk[h], FALSE)]
Unrendered == [h \in Hosts |-> Skip]

Begin(command) ==
    /\ job = None /\ applies < MaxApplies
    /\ applies' = applies + 1
    /\ reverted' = FALSE
    /\ \A h \in Targets(command) : AdmitTarget(h)
    /\ UNCHANGED <<disk, original, manifest, aborts>>

\* apply_plan of adopt: every target that exists is copied, then each is
\* rendered and written.
Adopt(force) ==
    /\ Begin("adopt")
    /\ job' = ApplyJob("adopt", "backup", force, Existing(Targets("adopt")), Unrendered)

\* apply_host_policy: everything is rendered before anything is written, a
\* file that is skipped is not copied.
ApplyHostPolicy ==
    /\ Begin("policy")
    /\ job' = IF \E h \in Targets("policy") : Rendered[h].does = "raise" THEN None
              ELSE ApplyJob("policy", "backup", FALSE,
                            {h \in Existing(Targets("policy")) : Rendered[h].does = "write"}, Rendered)

\* apply_plan of attach: a file is copied only when it is about to be written.
Attach(force) ==
    /\ Begin("attach")
    /\ job' = ApplyJob("attach", "write", force, {}, Unrendered)

CopyAside ==
    /\ job # None /\ job.phase = "backup"
    /\ manifest' = Backup(job.copy)
    /\ job' = [job EXCEPT !.phase = "write", !.copy = {}, !.saved = @ \cup job.copy]
    /\ UNCHANGED <<disk, original, applies, aborts, reverted>>

\* What the command makes of the next file.
Writing == job # None /\ job.phase = "write" /\ job.todo # <<>>
Target == Head(job.todo)
Result == IF job.command = "policy" THEN job.rendered[Target]
          ELSE Render(job.command, Target, disk[Target], job.force)

\* ensure_backup of attach: the file is about to be written and exists.
Unsaved == job.command = "attach" /\ disk[Target] # None /\ Target \notin job.saved

RenderRaises ==
    /\ Writing /\ Result.does = "raise"
    /\ job' = None
    /\ aborts' = aborts + 1
    /\ UNCHANGED <<disk, original, manifest, applies, reverted>>

RenderSkips ==
    /\ Writing /\ Result.does = "skip"
    /\ job' = [job EXCEPT !.todo = Tail(@)]
    /\ UNCHANGED <<disk, original, manifest, applies, aborts, reverted>>

EnsureBackup ==
    /\ Writing /\ Result.does = "write" /\ Unsaved
    /\ job' = [job EXCEPT !.phase = "backup", !.copy = {Target}]
    /\ UNCHANGED <<disk, original, manifest, applies, aborts, reverted>>

\* A file that was not there is remembered as created.
WriteNext ==
    /\ Writing /\ Result.does = "write" /\ ~Unsaved
    /\ WriteBytesAtomic(Target, Result.content)
    /\ job' = [job EXCEPT !.todo = Tail(@),
                          !.created = IF disk[Target] = None THEN @ \cup {Target} ELSE @]
    /\ UNCHANGED <<original, manifest, applies, aborts, reverted>>

Finish ==
    /\ job # None /\ job.phase = "write" /\ job.todo = <<>>
    /\ manifest' = RecordCreated(job.created)
    /\ job' = None
    /\ UNCHANGED <<disk, original, applies, aborts, reverted>>

\* restore: the copies are read before any is written back.
Revert ==
    /\ job = None /\ applies > 0
    /\ \A h \in Hosts : Holds(manifest.backups, h) \/ h \in manifest.created => AdmitTarget(h)
    /\ job' = [command |-> "revert", phase |-> "restore",
               copies |-> Restores(manifest.backups), remove |-> manifest.created]
    /\ reverted' = FALSE
    /\ UNCHANGED <<disk, original, manifest, applies, aborts>>

Restoring == job # None /\ job.phase = "restore"

\* The copies that are left when the one of h is written back.
Unrestored(copies, h) ==
    LET batch == Head(copies) IN
    IF \A g \in Hosts \ {h} : batch[g] = None THEN Tail(copies)
    ELSE [copies EXCEPT ![1] = [batch EXCEPT ![h] = None]]

\* One command copied a file at most once, so within a batch any order will do.
RestoreNext ==
    /\ Restoring /\ job.copies # <<>>
    /\ \E h \in Hosts :
          /\ Head(job.copies)[h] # None
          /\ WriteBytesAtomic(h, Head(job.copies)[h])
          /\ job' = [job EXCEPT !.copies = Unrestored(@, h)]
    /\ UNCHANGED <<original, manifest, applies, aborts, reverted>>

\* Then the files that commands created are deleted.
DeleteCreated ==
    /\ Restoring /\ job.copies = <<>>
    /\ \E h \in job.remove : DeleteFile(h) /\ job' = [job EXCEPT !.remove = @ \ {h}]
    /\ UNCHANGED <<original, manifest, applies, aborts, reverted>>

RevertEnds ==
    /\ Restoring /\ job.copies = <<>> /\ job.remove = {}
    /\ job' = None
    /\ reverted' = TRUE
    /\ UNCHANGED <<disk, original, manifest, applies, aborts>>

\* The process dies, or the file system refuses a step.
Abort ==
    /\ job # None /\ aborts < MaxAborts
    /\ job' = None
    /\ aborts' = IF job.command = "revert" THEN aborts ELSE aborts + 1
    /\ UNCHANGED <<disk, original, manifest, applies, reverted>>

Next ==
    \/ \E force \in BOOLEAN : Adopt(force) \/ Attach(force)
    \/ ApplyHostPolicy \/ CopyAside
    \/ RenderRaises \/ RenderSkips \/ EnsureBackup \/ WriteNext \/ Finish
    \/ Revert \/ RestoreNext \/ DeleteCreated \/ RevertEnds \/ Abort

Spec == Init /\ [][Next]_vars

----------------------------------------------------------------------------
\* After a revert every file that the user had is as the user left it,
\* however many commands ran and wherever they were cut off; and a single
\* command that ran to its end leaves no trace at all.
RevertRestoresUserFiles ==
    reverted =>
        /\ \A h \in Hosts : original[h] # None => disk[h] = original[h]
        /\ applies = 1 /\ aborts = 0 => disk = original

\* restore: "a path created by an early apply and backed up by a later one
\* must end absent, matching the pre-adoption state".
RevertRestoresEverything == reverted /\ aborts = 0 => disk = original

----------------------------------------------------------------------------
(* The inductive invariant.                                                *)

UserFile(h) == original[h] # None

\* What a renderer gives back: a content whenever it wants one written.
Outcomes ==
    {o \in [does : {"skip", "raise", "write"}, content : Content \cup {None}] :
        o.does = "write" => o.content \in Content}

ApplyJobs ==
    [command : Commands, phase : {"backup", "write"}, force : BOOLEAN, copy : SUBSET Hosts,
     saved : SUBSET Hosts, todo : Seq(Hosts), rendered : [Hosts -> Outcomes],
     created : SUBSET Hosts]
RevertJobs ==
    [command : {"revert"}, phase : {"restore"}, copies : Seq(Files), remove : SUBSET Hosts]

\* Files are absent or have a content; a copy always has one.
TypeOK ==
    /\ disk \in Files
    /\ original \in Files
    /\ manifest \in [backups : Seq(Files), created : SUBSET Hosts]
    /\ job = None \/ job \in ApplyJobs \/ job \in RevertJobs
    /\ applies \in Nat /\ aborts \in Nat /\ reverted \in BOOLEAN

Applying == job # None /\ job.phase \in {"backup", "write"}

\* The copies of h in a sequence of batches: the one a scan meets first (from
\* the front) or last is the original, and without any the disk has it.
OldestIsOriginal(batches, h) ==
    \A i \in DOMAIN batches :
        batches[i][h] # None /\ (\A j \in 1..(i - 1) : batches[j][h] = None)
            => batches[i][h] = original[h]
LastIsOriginal(batches, h) ==
    \A i \in DOMAIN batches :
        batches[i][h] # None /\ (\A j \in (i + 1)..Len(batches) : batches[j][h] = None)
            => batches[i][h] = original[h]

\* A file of the user is there, and can be brought back from the manifest.
UserFilesKept ==
    \A h \in Hosts : UserFile(h) =>
        /\ disk[h] # None
        /\ h \notin manifest.created
        /\ OldestIsOriginal(manifest.backups, h)
        /\ ~Holds(manifest.backups, h) => disk[h] = original[h]

\* The files adopt and the policy copy before they write (attach copies each
\* in turn).
CopiedAtOnce(h) ==
    \/ job.command = "adopt"
    \/ job.command = "policy" /\ job.rendered[h].does = "write"

\* A command writes over a file of the user only after it was copied.
CopiedFirst ==
    Applying =>
        /\ \A h \in job.saved : UserFile(h) => Holds(manifest.backups, h)
        /\ job.phase = "write" => job.copy = {}
        /\ \A h \in job.created : ~UserFile(h)
        /\ \A h \in ToSet(job.todo) :
              UserFile(h) /\ CopiedAtOnce(h)
                  => h \in job.copy \cup job.saved

\* What revert has not yet written back ends with the original.
RestoresOriginal ==
    Restoring =>
        /\ \A h \in Hosts : UserFile(h) =>
              /\ LastIsOriginal(job.copies, h)
              /\ ~Holds(job.copies, h) => disk[h] = original[h]
        /\ \A h \in Hosts : Holds(job.copies, h) => Holds(manifest.backups, h)
        /\ job.remove \subseteq manifest.created

\* As long as one command ran, and ran to its end, every other file is known
\* as created.
Known == manifest.created \cup (IF Applying THEN job.created ELSE {})
OneCommand ==
    /\ applies = 0 => /\ job = None /\ disk = original /\ ~reverted
                      /\ manifest = [backups |-> <<>>, created |-> {}]
    /\ applies = 1 /\ aborts = 0 =>
          /\ Applying => manifest.created = {} /\ \A h \in job.copy : disk[h] # None
          /\ \A h \in Hosts : ~UserFile(h) /\ (disk[h] # None \/ Holds(manifest.backups, h)) => h \in Known
          /\ Restoring => \A h \in Hosts :
                ~UserFile(h) /\ (disk[h] # None \/ Holds(job.copies, h)) => h \in job.remove

NotYetReverted == job # None => ~reverted

RevertInv ==
    /\ TypeOK /\ NotYetReverted /\ UserFilesKept /\ CopiedFirst /\ RestoresOriginal /\ OneCommand
    /\ RevertRestoresUserFiles
=============================================================================
