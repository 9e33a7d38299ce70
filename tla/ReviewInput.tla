---------------------------- MODULE ReviewInput -----------------------------
(***************************************************************************)
(* What the model is shown of a pull request: the policy of the base       *)
(* commit is loaded (PolicyFile), buildReviewInput takes out the files the *)
(* policy ignores (app/policy.go), and BuildInput (review/types.go) puts   *)
(* the others into a diff of bounded size (DiffBudget).                    *)
(***************************************************************************)
EXTENDS PolicyFile, DiffBudget

CONSTANTS
  Changes,   \* changed files of a pull request: sequences of Files
  Matches    \* pairs <<pattern, path>> that policy.Match accepts

ASSUME ChangesAssumption == Changes \subseteq Seq(Files)

VARIABLES
  changed,   \* the changed files
  ignored    \* paths of the changed files that are left out

vars == <<policyVars, diffVars, changed, ignored>>

Init == PolicyInit /\ DiffInit /\ changed = <<>> /\ ignored = <<>>

Load == LoadPolicy /\ UNCHANGED <<diffVars, changed, ignored>>

\* FetchPullRequest and the configured limit come first in the code; nothing
\* reads them before the policy is loaded.
BeginInput ==
  /\ stage = "loaded" /\ stage' = "filtering"
  /\ changed' \in Changes /\ maxBytes' \in Limits
  /\ UNCHANGED <<file, cfg, section, subsection, listKey, policy, warned>>
  /\ UNCHANGED <<files, outFiles, used, omitted, truncated, ignored>>

MatchAny(patterns, path) ==
  \E i \in DOMAIN patterns : <<patterns[i], path>> \in Matches

Position == Len(files) + Len(ignored) + 1

FilterIgnored ==
  /\ stage = "filtering" /\ Position <= Len(changed)
  /\ LET f == changed[Position] IN
       IF MatchAny(policy.ignoreFiles, f.path)
       THEN ignored' = Append(ignored, f.path) /\ UNCHANGED files
       ELSE files' = Append(files, f) /\ UNCHANGED ignored
  /\ UNCHANGED policyVars
  /\ UNCHANGED <<maxBytes, outFiles, used, omitted, truncated, changed>>

\* CompressDiff is given the files that are kept.
Compress ==
  /\ stage = "filtering" /\ Position > Len(changed)
  /\ CompressFile
  /\ UNCHANGED <<policyVars, changed, ignored>>

Next == Load \/ BeginInput \/ FilterIgnored \/ Compress

Spec == Init /\ [][Next]_vars

-----------------------------------------------------------------------------
(* Properties.                                                             *)

TypeOK ==
  /\ stage \in {"fetching", "reading", "loaded", "filtering"}
  /\ warned \in BOOLEAN /\ truncated \in BOOLEAN
  /\ maxBytes \in Int /\ used \in Nat /\ omitted \in Nat
  /\ changed \in Seq(Files) /\ files \in Seq(Files) /\ ignored \in Seq(Paths)
  /\ outFiles \in Seq([path : Paths, shown : Nat, truncated : BOOLEAN])
  /\ Len(outFiles) <= Len(files)

PathsOf(s) == {s[i].path : i \in DOMAIN s}

\* Only an accepted policy file hides a changed file from the review, and only
\* one with a line under ignore_files that matches it: not a file that was
\* rejected, however far it was read, and not the budget, which leaves out text
\* and never a name.
HiddenAsWritten ==
  stage = "filtering" /\ Position > Len(changed) /\ Len(outFiles) = Len(files) =>
    \A path \in PathsOf(changed) :
      path \notin PathsOf(outFiles) <=>
        ~warned /\ MatchAny(ItemsOf("ignoreFiles"), path)
=============================================================================
