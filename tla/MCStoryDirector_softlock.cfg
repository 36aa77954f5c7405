SPECIFICATION Spec
CONSTANT Drafts <- MCDeathCertificate
INVARIANT DecisionIsAnswerable
