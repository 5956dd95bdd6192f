--------------------------- MODULE AptSigningKey ---------------------------
(***************************************************************************)
(* The commands of the README's example (README.md:52-64) on one apt       *)
(* repository: `push deb` with --sign-key, `rm deb` without it.  Every     *)
(* command makes a publisher of its own, with a signer or without one      *)
(* (newPushDebCmd, newRemoveDebCmd, signer).                               *)
(***************************************************************************)
EXTENDS AptPublisher

\* The publisher of a command without --sign-key.
Keyless == INSTANCE AptPublisher WITH Signed <- FALSE

\* The kind of the command, with its publisher.
Push   == Next /\ op'.kind = "add"
Remove == Keyless!Next /\ op'.kind = "remove"

ExampleSpec == Init /\ [][Push \/ Remove]_vars

-----------------------------------------------------------------------------

\* "Remove a specific version (metadata is regenerated and re-signed)"
\* (README.md:62): when a removal has published, the signatures are those of the
\* Release that it wrote.
RemovalSigns ==
  pc = "idle" /\ outcome = "published" /\ op.kind = "remove" => ReleaseSigned

=============================================================================
