-------------------------- MODULE MCReferenceRepo ---------------------------
(* Two contents of each tree, and one or two runner images. *)
EXTENDS ReferenceRepo

MCVersions == {1, 2}
MCSuts == {"good", "bad"}
MCGoodSuts == {"good"}
MCEnvs == {"image1", "image2"}
MCOneEnv == {"image1"}
MCFirstCommit ==
  [src |-> [d \in Dirs |-> 1], sut |-> "good", author |-> "dev",
   bundle |-> [d \in Dirs |-> [of |-> 1, env |-> "image1"]]]
=============================================================================
