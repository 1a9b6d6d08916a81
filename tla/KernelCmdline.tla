--------------------------- MODULE KernelCmdline ----------------------------
(***************************************************************************)
(* pkg/kickstart/ubuntu_iso_builder.go, patchKernelCmdline: how the boot   *)
(* lines of an Ubuntu install ISO get the arguments that make it install   *)
(* unattended.  A line is a sequence of tokens; blanks between them are    *)
(* left out.                                                               *)
(***************************************************************************)
EXTENDS Naturals, Sequences

CONSTANT Mentioning  \* the tokens that have the word autoinstall in them

Verbs == {"linux", "linuxefi", "append"}

(* AutoinstallKernelArgs, and the token that ends what the live system sees. *)
Args      == <<"autoinstall", "ds=nocloud">>
Separator == "---"

ASSUME MentioningAssumption == Args[1] \in Mentioning /\ Separator \notin Mentioning

IsBootLine(line) == Len(line) > 1 /\ line[1] \in Verbs

(* strings.Contains looks for the word anywhere behind the verb, inside     *)
(* other words too.                                                         *)
Mentions(line) == \E i \in 2..Len(line) : line[i] \in Mentioning

(* The separator must have a blank of the body before it, so that one right *)
(* behind the verb is not found.                                            *)
Separators(line) == {i \in 3..Len(line) : line[i] = Separator}

(* The length of the part in front of the first separator.                  *)
Cut_behind(line) == IF Separators(line) = {} THEN Len(line) ELSE
                    CHOOSE i \in Separators(line) : \A j \in Separators(line) : i <= j
Cut(line) == IF Separators(line) = {} THEN Len(line) ELSE
             (CHOOSE i \in Separators(line) : \A j \in Separators(line) : i <= j) - 1

InjectBeforeSeparator(line) ==
  SubSeq(line, 1, Cut(line)) \o Args \o SubSeq(line, Cut(line) + 1, Len(line))

Patch(line) == IF IsBootLine(line) /\ ~Mentions(line)
               THEN InjectBeforeSeparator(line) ELSE line

-----------------------------------------------------------------------------
(* What the live system must see: the arguments, side by side, before any   *)
(* separator.                                                               *)
Unattended(line) ==
  \E k \in 1..Len(line) - 1 : /\ line[k] = Args[1] /\ line[k + 1] = Args[2]
                              /\ \A j \in 1..k : line[j] # Separator

(* Which boot lines install unattended once they are patched: those that    *)
(* did, and those with a kernel in front of the separator that say nothing  *)
(* of autoinstall.  A line that has the word in another place - behind the  *)
(* separator, or in the name of a file - stays interactive.                 *)
Patchable(line) == Unattended(line) \/ (~Mentions(line) /\ line[2] # Separator)
=============================================================================
