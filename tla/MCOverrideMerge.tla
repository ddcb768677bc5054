-------------------------- MODULE MCOverrideMerge --------------------------
(***************************************************************************)
(* Model-checking instance of OverrideMerge: two managed resources and a   *)
(* data resource, each with any of the bodies below.                       *)
(*                                                                         *)
(*   main.tf        ami = b0, tags = b0, ebs {}, dynamic "ebs" {},         *)
(*                  lifecycle {}, dynamic "tag" {}                         *)
(*   o1_override.tf tags = o1, ebs {}                                      *)
(*   o2_override.tf ami = o2, tags = o2, dynamic "ebs" {}                  *)
(*   o3_override.tf tag {}, lifecycle {}                                   *)
(*   override.tf.json                                                      *)
(*                                                                         *)
(* The layers stack left-deep as Terraform builds them for several         *)
(* override files, right-deep as a MergeBody may nest on either side, and  *)
(* with a JSON body on either side.                                        *)
(***************************************************************************)
EXTENDS OverrideMerge

NoLabel == ""

Blk(t, l, f, i) == [type |-> t, label |-> l, id |-> <<f, i>>]
Native(as, bs)  == [kind |-> "native", attrs |-> as, blocks |-> bs]
M(b, o)         == [kind |-> "merge", base |-> b, override |-> o]

B0 == Native(("ami" :> "b0") @@ ("tags" :> "b0"),
             <<Blk("ebs", NoLabel, "b0", 1), Blk(Dynamic, "ebs", "b0", 2),
               Blk("lifecycle", NoLabel, "b0", 3), Blk(Dynamic, "tag", "b0", 4)>>)
O1 == Native("tags" :> "o1", <<Blk("ebs", NoLabel, "o1", 1)>>)
O2 == Native(("ami" :> "o2") @@ ("tags" :> "o2"), <<Blk(Dynamic, "ebs", "o2", 1)>>)
O3 == Native([n \in {} |-> "none"],
             <<Blk("tag", NoLabel, "o3", 1), Blk("lifecycle", NoLabel, "o3", 2)>>)
J  == [kind |-> "json"]
Nil == [kind |-> "nil"]

MCConfigs == {B0, M(B0, O1), M(M(B0, O1), O2), M(M(B0, O2), O3), M(B0, M(O2, O3)),
              M(B0, J), M(J, O1), J, Nil}

\* Configurations that Load merges without failing.
MCMergeableConfigs == MCConfigs \ {M(B0, J), M(J, O1)}

=============================================================================
