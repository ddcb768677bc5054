----------------------------- MODULE MCStaging -----------------------------
(***************************************************************************)
(* Model-checking instance of Staging.  The working directory can hold:    *)
(*   main.tf                        root configuration                     *)
(*   terraform.tfvars               a root file that is not configuration  *)
(*   p_tap.hcl                      the tap configuration                  *)
(*   terraform.tfstate              the root state                         *)
(*   .terraform/terraform.tfstate   the backend state init writes          *)
(*   .terraform/providers           what init installs                     *)
(*   terraform.tfstate.d/ws/terraform.tfstate   a workspace's state        *)
(***************************************************************************)
EXTENDS Staging

F(n, t, r, x, s) == [name |-> n, top |-> t, root |-> r, ext |-> x, state |-> s]

MainTfFile   == F("main.tf", "main.tf", TRUE, ".tf", FALSE)
VarsFile     == F("terraform.tfvars", "terraform.tfvars", TRUE, ".tfvars", FALSE)
TapFile      == F("p_tap.hcl", "p_tap.hcl", TRUE, ".hcl", FALSE)
RootState    == F("terraform.tfstate", "terraform.tfstate", TRUE, ".tfstate", TRUE)
BackendState == F(".terraform/terraform.tfstate", ".terraform", FALSE, ".tfstate", TRUE)
Providers    == F(".terraform/providers", ".terraform", FALSE, "", FALSE)
WsState      == F("terraform.tfstate.d/ws/terraform.tfstate", "terraform.tfstate.d",
                  FALSE, ".tfstate", TRUE)

MCEntries == {MainTfFile, VarsFile, TapFile, RootState, BackendState,
              Providers, WsState}

MCTopOrder == <<".terraform", "main.tf", "p_tap.hcl", "terraform.tfstate",
                "terraform.tfstate.d", "terraform.tfvars">>

MCTapFiles == {TapFile}

\* The passing run: the user edits main.tf, the variables and the tap
\* configuration (so terraform also runs outside .tap); terraform writes
\* the root state and installs providers.
MCUserFiles == {MainTfFile, VarsFile, TapFile}
MCTfWrites  == {RootState, Providers}

\* Terraform also writes a workspace's state and the backend state.
MCAllTfWrites == {RootState, Providers, WsState, BackendState}

=============================================================================
