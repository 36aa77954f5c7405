SPECIFICATION Spec
CONSTANT Drafts <- MCDrafts
VIEW MCView
INVARIANTS TypeOK ContentIsPlayable AnalysisIsSound
PROPERTY ProgressIsKept
