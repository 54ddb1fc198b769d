\* An upload beside a fetched scene, and a listing of one scene.
CONSTANTS
  Scenes = {u1, f1}
  Uploads = {u1}
  Limit = 1
SPECIFICATION Spec
INVARIANTS ManifestMeansWhole FailureLeavesNothing AnswerMatchesStore ListingOwesAnswered
