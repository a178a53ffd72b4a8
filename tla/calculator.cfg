SPECIFICATION Spec
CONSTANTS
  Enabled = {"quick", "update"}
  School <- TwoSemesters
  Units = {1, 2}
  Grade = {A, F}
  MaxRecords = 1
  MaxLists = 4
  MaxCourses = 2
  MaxChanges = 2
  None = None
INVARIANTS TypeOK ResultsStand CoursesOfSchool
PROPERTIES SpoiltBySharing
SYMMETRY Symmetric
CHECK_DEADLOCK FALSE
