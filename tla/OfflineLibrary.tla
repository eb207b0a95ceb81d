---------------------------- MODULE OfflineLibrary ----------------------------
(***************************************************************************)
(* What the client decides without the network while it is up: the skills  *)
(* installed, the licenses it takes and the templates it loads.  The last  *)
(* two keep no state of their own: they are functions of what they are     *)
(* given, and are judged on every bounded input.                           *)
(***************************************************************************)
EXTENDS SkillStore, License, Templates

\* Whatever keys a device has been given, one again and bad ones included, it takes a
\* license exactly when its key is still in the window ("a device that has been offline
\* across several rotations keeps verifying cached tokens under a kid it still trusts")
\* and its header and claims are those of a perpetual license.
LicenseHonoursWindow == process = "up" => Misjudged = {}

\* "Templates pin skill version constraints so a saved agent reloads with compatible
\* behavior": whatever is installed, updated or removed after a save, the template
\* comes back or names what it lacks, and no update it is offered makes it fail.
TemplatesComeBack == process = "up" => Unfaithful = {}
===============================================================================
